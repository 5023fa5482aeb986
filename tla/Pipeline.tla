------------------------------ MODULE Pipeline ------------------------------
(***************************************************************************)
(* The message path of the Argus service: the Evolution webhook handler,   *)
(* its in-memory deduplication window, the simple pipeline it starts, the  *)
(* proactive check inside that pipeline, and the API calls by which the    *)
(* user changes or deletes events and deletes contacts.                    *)
(*                                                                         *)
(* The service is one Node.js process over one synchronous SQLite          *)
(* connection: everything between two awaits is one atomic step, and the   *)
(* runs of the pipeline interleave at their awaits.  A run is named by an  *)
(* element of Runs; the event it may create carries the same name, because *)
(* every run draws at most one fresh uuid for its event.                   *)
(***************************************************************************)
EXTENDS Naturals, FiniteSets

CONSTANTS
    Messages,       \* WhatsApp message ids
    TestMessages,   \* the ids drawn by POST /webhook/test, a fresh one per call
    Skipped,        \* own, group or non-text messages, ignored by configuration
    Signal,         \* messages whose text passes the heuristic gate
    Chats,          \* chat ids (JIDs): the keys of the contacts table
    TestChats,      \* chats whose id, name or phone looks like test data
    TestTexts,      \* messages whose text looks like test data
    ChatOf,         \* ChatOf[m] is the chat of message m
    Runs,           \* executions of processMessageSimple, and the event ids
    None,           \* no message, no event
    UserStatuses,   \* the statuses the API lets the user set
    EnableProactive,\* config.enableProactiveTriggers
    MaxDeliveries,  \* bound on the webhook calls for one message
    MaxFaults,      \* bound on the database statements that throw
    MaxCrashes      \* bound on the process restarts

ASSUME PipelineAssumption ==
    /\ TestMessages \subseteq Messages
    /\ Skipped \subseteq Messages \ TestMessages
    /\ Signal \subseteq Messages
    /\ ChatOf \in [Messages -> Chats]
    /\ TestChats \subseteq Chats
    /\ TestTexts \subseteq Messages
    /\ None \notin Messages \union Runs
    /\ UserStatuses \subseteq {"active", "declined", "snoozed", "completed"}
    /\ EnableProactive \in BOOLEAN
    /\ MaxDeliveries \in Nat
    /\ MaxFaults \in Nat
    /\ MaxCrashes \in Nat

VARIABLES
    (* SQLite, which survives a crash *)
    contacts,       \* chats with a row in contacts
    messages,       \* messages with a row in messages
    completed,      \* messages whose row has pipeline_completed = 1
    logged,         \* messages with a row in pipeline_logs
    source,         \* source[e]: source_message_id of event e, None without a row
    status,         \* status[e]: status column of event e
    triggerCount,   \* triggerCount[e]: proactive_trigger_count of event e
    indexed,        \* events whose embedding is in the FAISS index
    (* process memory, lost in a crash *)
    recentlyProcessed,  \* message ids in the rapid-fire window
    pc,             \* pc[r]: where run r awaits, or how it ended
    msg,            \* msg[r]: the message run r processes
    matches,        \* matches[r]: events offered to Gemini, or still to remind of
    sending,        \* sending[r]: the event whose reminder run r is sending
    (* what the outside has seen and done *)
    answers,        \* answers[m]: the statuses the webhook answered for m
    deliveries,     \* deliveries[m]: webhook calls made for m
    notified,       \* notified[e]: proactive reminders pushed for event e
    deleted,        \* messages the user has deleted some time
    faults, crashes,\* database faults and crashes so far
    (* history, which enables no step *)
    unguarded       \* runs that outlived their message's entry in recentlyProcessed,
                    \* or began beside a live run that did

records == <<contacts, messages, completed, source, status, triggerCount>>
database == <<records, logged, indexed>>
locals == <<pc, msg, matches, sending>>
window == <<recentlyProcessed, unguarded>>
history == <<answers, deliveries, notified, deleted, faults, crashes>>
vars == <<database, window, locals, history>>

-----------------------------------------------------------------------------
(* The stages of a run: it waits for the embedding of its text, for Gemini's
   verdict on the offered events, for a push of a proactive reminder, for the
   microtask that resumes it after the proactive check, for the extraction,
   for the embedding to index, for addVector, and for the due-soon push. *)
Waiting == {"embed", "gemini", "send", "gate", "extract", "vector", "stored", "notify"}
BeforeStore == {"embed", "gemini", "send", "gate", "extract"}
Ended == {"completed", "dropped", "error", "crashed"}
Answers == {"duplicate_rapid", "already_processed", "ignored", "processing", "error"}
Statuses == {"pending", "active", "declined", "snoozed", "completed"}

Live(r) == pc[r] \in Waiting
EventsOf(m) == {e \in Runs : source[e] = m}
\* Mutant of HasEvent: only an event the user has not touched counts.
HasPendingEvent(m) == \E e \in EventsOf(m) : status[e] = "pending"
HasEvent(m) == EventsOf(m) # {}
LiveMessages == {msg[r] : r \in {q \in Runs : Live(q)}}

\* getEventsForProactiveTrigger: open events not reminded of yet.
OpenEvents ==
    {e \in Runs : source[e] # None /\ status[e] \in {"pending", "active"} /\ triggerCount[e] = 0}

Init ==
    /\ contacts = {}
    /\ messages = {}
    /\ completed = {}
    /\ logged = {}
    /\ source = [e \in Runs |-> None]
    /\ status = [e \in Runs |-> "pending"]
    /\ triggerCount = [e \in Runs |-> 0]
    /\ indexed = {}
    /\ recentlyProcessed = {}
    /\ pc = [r \in Runs |-> "idle"]
    /\ msg = [r \in Runs |-> None]
    /\ matches = [r \in Runs |-> {}]
    /\ sending = [r \in Runs |-> None]
    /\ answers = [m \in Messages |-> {}]
    /\ deliveries = [m \in Messages |-> 0]
    /\ notified = [e \in Runs |-> 0]
    /\ deleted = {}
    /\ unguarded = {}
    /\ faults = 0
    /\ crashes = 0

-----------------------------------------------------------------------------
(* POST /webhook/evolution.  The handler is synchronous up to its answer. *)

Answer(m, a) ==
    /\ m \notin TestMessages
    /\ deliveries[m] < MaxDeliveries
    /\ deliveries' = [deliveries EXCEPT ![m] = @ + 1]
    /\ answers' = [answers EXCEPT ![m] = @ \union {a}]

\* The id is still in the window: nothing else is looked at.
DeliverDuplicate(m) ==
    /\ m \in recentlyProcessed
    /\ Answer(m, "duplicate_rapid")
    /\ UNCHANGED <<database, window, locals, notified, deleted, faults, crashes>>

\* The id enters the window before any database call, so it stays there when
\* one of them throws and the handler answers 500.
DeliverFails(m) ==
    /\ m \notin recentlyProcessed
    /\ faults < MaxFaults
    /\ faults' = faults + 1
    /\ recentlyProcessed' = recentlyProcessed \union {m}
    /\ Answer(m, "error")
    /\ UNCHANGED <<database, locals, notified, deleted, unguarded, crashes>>

\* Message and event exist: already processed.  Checked before the skip rules.
DeliverProcessed(m) ==
    /\ m \notin recentlyProcessed
    /\ m \in messages /\ HasEvent(m)
    /\ recentlyProcessed' = recentlyProcessed \union {m}
    /\ Answer(m, "already_processed")
    /\ UNCHANGED <<database, locals, notified, deleted, unguarded, faults, crashes>>

DeliverSkipped(m) ==
    /\ m \notin recentlyProcessed
    /\ m \in Skipped
    /\ recentlyProcessed' = recentlyProcessed \union {m}
    /\ Answer(m, "ignored")
    /\ UNCHANGED <<database, locals, notified, deleted, unguarded, faults, crashes>>

-----------------------------------------------------------------------------
(* The synchronous start of processMessageSimple: the contact is upserted, the
   message row written, and the run proceeds to its first await.  n statements
   of a step throw, within the bound. *)

Throws(n) ==
    /\ faults + n <= MaxFaults
    /\ faults' = faults + n

Cost(succeeds) == IF succeeds THEN 0 ELSE 1

\* payloadToMessage swallows a failing upsertContact.
UpsertContact(m, succeeds) ==
    contacts' = IF succeeds THEN contacts \union {ChatOf[m]} ELSE contacts

\* Mutants of BeginStored: foreign keys are off; the flag of an earlier run is
\* kept; the row is only written after the proactive check.
BeginStoredNoForeignKey(m, r) ==
    \E contactOK \in BOOLEAN :
        /\ UpsertContact(m, contactOK)
        /\ Throws(Cost(contactOK))
        /\ messages' = messages \union {m}
        /\ completed' = completed \ {m}
        /\ pc' = [pc EXCEPT ![r] = IF EnableProactive THEN "embed" ELSE "gate"]
        /\ msg' = [msg EXCEPT ![r] = m]

BeginStoredFlagKept(m, r) ==
    /\ UpsertContact(m, TRUE)
    /\ messages' = messages \union {m}
    /\ pc' = [pc EXCEPT ![r] = IF EnableProactive THEN "embed" ELSE "gate"]
    /\ msg' = [msg EXCEPT ![r] = m]
    /\ UNCHANGED <<completed, faults>>

BeginStoredLater(m, r) ==
    /\ UpsertContact(m, TRUE)
    /\ pc' = [pc EXCEPT ![r] = IF EnableProactive THEN "embed" ELSE "gate"]
    /\ msg' = [msg EXCEPT ![r] = m]
    /\ UNCHANGED <<messages, completed, faults>>

\* storeEnhancedMessage: INSERT OR REPLACE with pipeline_completed = 0.
BeginStored(m, r) ==
    \E contactOK \in BOOLEAN :
        /\ UpsertContact(m, contactOK)
        /\ ChatOf[m] \in contacts'
        /\ Throws(Cost(contactOK))
        /\ messages' = messages \union {m}
        /\ completed' = completed \ {m}
        /\ pc' = [pc EXCEPT ![r] = IF EnableProactive THEN "embed" ELSE "gate"]
        /\ msg' = [msg EXCEPT ![r] = m]

\* Mutant of BeginFails: the catch block inserts the row it cannot find.
BeginFailsUpserting(m, r) ==
    /\ UpsertContact(m, TRUE)
    /\ Throws(1)
    /\ completed' = completed \union {m}
    /\ pc' = [pc EXCEPT ![r] = "dropped"]
    /\ UNCHANGED <<messages, msg>>

\* storeEnhancedMessage throws, on a fault or because the chat has no contact
\* row (foreign key).  The catch block marks whatever row there is complete; if
\* that throws too the promise rejects.  The webhook answers 'processing' still.
BeginFails(m, r) ==
    \E contactOK, caught \in BOOLEAN :
        /\ UpsertContact(m, contactOK)
        /\ Throws(Cost(contactOK) + Cost(ChatOf[m] \notin contacts') + Cost(caught))
        /\ completed' = IF caught THEN completed \union ({m} \intersect messages) ELSE completed
        /\ pc' = [pc EXCEPT ![r] = IF caught THEN "dropped" ELSE "error"]
        /\ UNCHANGED <<messages, msg>>

\* The new run r itself, if a run of m that outlived its entry is still at work.
BesideUnguarded(m, r) == {q \in {r} : \E u \in unguarded : Live(u) /\ msg[u] = m}

Begin(m, r) ==
    /\ pc[r] = "idle"
    /\ \/ BeginStored(m, r) /\ unguarded' = unguarded \union BesideUnguarded(m, r)
       \/ BeginFails(m, r) /\ UNCHANGED unguarded
    /\ UNCHANGED <<logged, source, status, triggerCount, indexed, matches, sending,
                   notified, deleted, crashes>>

\* Mutant of DeliverAccepted: the id is not entered in the window.
DeliverAcceptedNoWindow(m, r) ==
    /\ m \notin recentlyProcessed
    /\ ~(m \in messages /\ HasEvent(m))
    /\ m \notin Skipped
    /\ UNCHANGED recentlyProcessed
    /\ Answer(m, "processing")
    /\ Begin(m, r)

\* A message without an event is processed, again if need be.
DeliverAccepted(m, r) ==
    /\ m \notin recentlyProcessed
    /\ ~(m \in messages /\ HasEvent(m))
    /\ m \notin Skipped
    /\ recentlyProcessed' = recentlyProcessed \union {m}
    /\ Answer(m, "processing")
    /\ Begin(m, r)

\* POST /webhook/test: no window and no skip rules, the id is fresh, and the
\* answer comes when the run has ended.
SubmitTest(m, r) ==
    /\ m \in TestMessages
    /\ deliveries[m] = 0
    /\ deliveries' = [deliveries EXCEPT ![m] = 1]
    /\ Begin(m, r)
    /\ UNCHANGED <<recentlyProcessed, answers>>

\* Every minute entries older than ten seconds leave the window, whether or not a
\* run of the message still waits for Gemini or for a push.
CleanupRecentlyProcessed ==
    \E old \in SUBSET recentlyProcessed \ {{}} :
        /\ recentlyProcessed' = recentlyProcessed \ old
        /\ unguarded' = unguarded \union {r \in Runs : Live(r) /\ msg[r] \in old}
        /\ UNCHANGED <<database, locals, history>>

-----------------------------------------------------------------------------
(* checkForProactiveTriggers, inside the run. *)

\* Go on to remind of the events in S: push the first reminder and wait for it,
\* or return to the pipeline when none is left.
Remind(r, S) ==
    \/ /\ S = {}
       /\ pc' = [pc EXCEPT ![r] = "gate"]
       /\ matches' = [matches EXCEPT ![r] = {}]
       /\ sending' = [sending EXCEPT ![r] = None]
       /\ UNCHANGED notified
    \/ \E e \in S :
       /\ pc' = [pc EXCEPT ![r] = "send"]
       /\ matches' = [matches EXCEPT ![r] = S \ {e}]
       /\ sending' = [sending EXCEPT ![r] = e]
       /\ notified' = [notified EXCEPT ![e] = @ + 1]

\* storePipelineLog: a row that refers to the message, which must be there.
Log(r) ==
    /\ msg[r] \in messages
    /\ logged' = logged \union {msg[r]}

\* Ask Gemini about the events in S.
Offer(r, S) ==
    /\ S # {}
    /\ pc' = [pc EXCEPT ![r] = "gemini"]
    /\ matches' = [matches EXCEPT ![r] = S]
    /\ UNCHANGED <<sending, notified>>

\* The embedding is there: search the index, read the open events, and decide.
\* FAISS returns any open indexed events with any similarity: the strong ones are
\* reminded of at once, else the fair ones are offered to Gemini, else, if the
\* text looks like a trigger, all open events are.  An exception ends the check,
\* in any case if the message was deleted meanwhile and cannot be logged.
SelectMatches(r) ==
    /\ pc[r] = "embed"
    /\ \/ /\ Log(r)
          /\ \/ \E strong \in SUBSET (OpenEvents \intersect indexed) : Remind(r, strong)
             \/ \E fair \in SUBSET (OpenEvents \intersect indexed) : Offer(r, fair)
             \/ Offer(r, OpenEvents)
       \/ Remind(r, {}) /\ UNCHANGED logged
    /\ UNCHANGED <<records, indexed, window, msg, answers, deliveries, deleted, faults,
                   crashes>>

\* Gemini confirms any of the offered events, none if the call fails.  They are
\* the rows read before the call; their status is not read again.
GeminiAnswers(r) ==
    /\ pc[r] = "gemini"
    /\ \E confirmed \in SUBSET matches[r] : Remind(r, confirmed)
    /\ UNCHANGED <<database, window, msg, answers, deliveries, deleted, faults, crashes>>

\* sendNotification has returned, true or false: the event is marked, if it
\* still has a row, and the next reminder goes out.
MarkTriggered(e) ==
    triggerCount' = IF source[e] = None THEN triggerCount
                                        ELSE [triggerCount EXCEPT ![e] = @ + 1]

\* Mutant of ReminderSent: the mark is forgotten.
ReminderSentUnmarked(r) ==
    /\ pc[r] = "send"
    /\ Remind(r, matches[r])
    /\ UNCHANGED <<database, window, msg, answers, deliveries, deleted, faults, crashes>>

ReminderSent(r) ==
    /\ pc[r] = "send"
    /\ MarkTriggered(sending[r])
    /\ Remind(r, matches[r])
    /\ UNCHANGED <<contacts, messages, completed, logged, source, status, indexed,
                   window, msg, answers, deliveries, deleted, faults, crashes>>

\* Marking throws: the check ends, with the remaining reminders unsent.
MarkFails(r) ==
    /\ pc[r] = "send"
    /\ Throws(1)
    /\ Remind(r, {})
    /\ UNCHANGED <<database, window, msg, answers, deliveries, deleted, crashes>>

-----------------------------------------------------------------------------
(* The three stages. *)

\* The run ends: its promise settles as pipelineStates shows it.
End(r, how) ==
    /\ pc' = [pc EXCEPT ![r] = how]
    /\ msg' = [msg EXCEPT ![r] = None]

\* updateMessagePipelineComplete changes nothing if the message was deleted.
Complete(r, how) ==
    /\ completed' = completed \union ({msg[r]} \intersect messages)
    /\ End(r, how)
    /\ UNCHANGED <<contacts, messages, source, status, triggerCount, indexed>>

Proceed(r, stage) ==
    /\ pc' = [pc EXCEPT ![r] = stage]
    /\ UNCHANGED msg

Elsewhere == UNCHANGED <<window, matches, sending, answers, deliveries, notified,
                         deleted, crashes>>

\* Mutants of HeuristicGate and ExtractNothing: they drop the message without
\* marking it complete.
HeuristicGateSilent(r) ==
    /\ pc[r] = "gate"
    /\ Log(r)
    /\ IF msg[r] \in Signal THEN Proceed(r, "extract") ELSE End(r, "dropped")
    /\ UNCHANGED <<records, indexed>>
    /\ Elsewhere /\ UNCHANGED faults

ExtractNothingSilent(r) ==
    /\ pc[r] = "extract"
    /\ End(r, "dropped")
    /\ UNCHANGED database
    /\ Elsewhere /\ UNCHANGED faults

\* Stage 1: the heuristic gate logs its score and lets the message pass or drops
\* it.  If the message was deleted meanwhile the log throws and the run ends.
HeuristicGate(r) ==
    /\ pc[r] = "gate"
    /\ \/ /\ Log(r)
          /\ msg[r] \in Signal
          /\ Proceed(r, "extract")
          /\ UNCHANGED <<records, indexed>>
       \/ /\ Log(r)
          /\ msg[r] \notin Signal
          /\ Complete(r, "dropped")
       \/ /\ msg[r] \notin messages
          /\ End(r, "dropped")
          /\ UNCHANGED database
    /\ Elsewhere /\ UNCHANGED faults

\* Stage 2, nothing: Gemini fails or finds no event, or gives a date that
\* toISOString rejects, which the catch block turns into the same outcome.
ExtractNothing(r) ==
    /\ pc[r] = "extract"
    /\ Complete(r, "dropped")
    /\ Elsewhere /\ UNCHANGED <<logged, faults>>

\* Stage 2 and 3: the event is stored under its fresh id.  Whether the message
\* got an event since the run began is not looked at.
StoreEvent(r) ==
    /\ pc[r] = "extract"
    /\ source' = [source EXCEPT ![r] = msg[r]]
    /\ status' = [status EXCEPT ![r] = "pending"]
    /\ triggerCount' = [triggerCount EXCEPT ![r] = 0]
    /\ Proceed(r, "vector")
    /\ UNCHANGED <<contacts, messages, completed, logged, indexed>>
    /\ Elsewhere /\ UNCHANGED faults

\* The event's vector is added; a failure is only logged.
IndexEvent(r) ==
    /\ pc[r] = "vector"
    /\ indexed' \in {indexed, indexed \union {r}}
    /\ Proceed(r, "stored")
    /\ UNCHANGED <<records, logged>>
    /\ Elsewhere /\ UNCHANGED faults

\* Notify at once if the event is due within the hour, else finish.
FinishStore(r) ==
    /\ pc[r] = "stored"
    /\ \/ Proceed(r, "notify") /\ UNCHANGED database
       \/ Complete(r, "completed") /\ UNCHANGED logged
    /\ Elsewhere /\ UNCHANGED faults

DueReminderSent(r) ==
    /\ pc[r] = "notify"
    /\ Complete(r, "completed")
    /\ Elsewhere /\ UNCHANGED <<logged, faults>>

\* A statement of the pipeline proper throws (a full disk, a locked file, two
\* log rows of one stage in one millisecond): the catch block completes the
\* message and the run counts as dropped, or as an error if that throws too.  The
\* stage's log may be written by then.
Abort(r) ==
    /\ pc[r] \in {"gate", "extract", "stored", "notify"}
    /\ Log(r) \/ UNCHANGED logged
    /\ \/ Throws(1) /\ Complete(r, "dropped")
       \/ /\ Throws(2)
          /\ End(r, "error")
          /\ UNCHANGED <<records, indexed>>
    /\ Elsewhere

-----------------------------------------------------------------------------
(* The user and the process. *)

\* POST /api/events/:id/{accept,decline,snooze,complete}: whatever the status is.
UpdateEventStatus(e, s) ==
    /\ source[e] # None
    /\ status' = [status EXCEPT ![e] = s]
    /\ UNCHANGED <<contacts, messages, completed, logged, source, triggerCount, indexed,
                   window, locals, history>>

\* The events in S lose their rows; the vectors and the reminders in flight stay.
EraseEvents(S) ==
    /\ source' = [e \in Runs |-> IF e \in S THEN None ELSE source[e]]
    /\ status' = [e \in Runs |-> IF e \in S THEN "pending" ELSE status[e]]
    /\ triggerCount' = [e \in Runs |-> IF e \in S THEN 0 ELSE triggerCount[e]]

\* DELETE /api/events/:id.
DeleteEvent(e) ==
    /\ source[e] # None
    /\ EraseEvents({e})
    /\ UNCHANGED <<contacts, messages, completed, logged, indexed, window, locals,
                   history>>

\* Delete the messages in M and the contacts in C.
EraseMessages(M, C) ==
    /\ contacts' = contacts \ C
    /\ messages' = messages \ M
    /\ completed' = completed \ M
    /\ deleted' = deleted \union M
    /\ UNCHANGED <<logged, indexed, window, locals, answers, deliveries, notified,
                   faults, crashes>>

MessagesOf(C) == {m \in messages : ChatOf[m] \in C}
EventsOfChats(C) == {e \in Runs : source[e] # None /\ ChatOf[source[e]] \in C}

\* Mutant of DeleteContact: the foreign key of the logs is off.
DeleteContactNoForeignKey(c) ==
    /\ c \in contacts
    /\ EraseEvents(EventsOfChats({c}))
    /\ EraseMessages(MessagesOf({c}), {c})

\* DELETE /api/contacts/:id: events, messages and contact go in one transaction.
\* It does not delete the logs that refer to the messages: with one of those it
\* rolls back and answers 500.
DeleteContact(c) ==
    /\ c \in contacts
    /\ MessagesOf({c}) \intersect logged = {}
    /\ EraseEvents(EventsOfChats({c}))
    /\ EraseMessages(MessagesOf({c}), {c})

\* POST /api/cleanup/test-data: messages with test texts or in test chats, then
\* events in test chats and those with test titles, then the test contacts, in one
\* transaction, which rolls back if a log or an event refers to a message of it.
CleanupTestData ==
    \E titled \in SUBSET {e \in Runs : source[e] # None} :
        LET M == MessagesOf(TestChats) \union (messages \intersect TestTexts)
        IN  /\ M \intersect logged = {}
            /\ \A e \in Runs : source[e] \notin M
            /\ EraseEvents(titled \union EventsOfChats(TestChats))
            /\ EraseMessages(M, TestChats)

\* The process dies, or is stopped, and starts again: the runs are gone, and
\* nothing at start-up looks for messages they left incomplete.
Crash ==
    /\ crashes < MaxCrashes
    /\ crashes' = crashes + 1
    /\ recentlyProcessed' = {}
    /\ pc' = [r \in Runs |-> IF Live(r) THEN "crashed" ELSE pc[r]]
    /\ msg' = [r \in Runs |-> None]
    /\ matches' = [r \in Runs |-> {}]
    /\ sending' = [r \in Runs |-> None]
    /\ UNCHANGED <<database, answers, deliveries, notified, deleted, unguarded, faults>>

-----------------------------------------------------------------------------
Deliver(m) ==
    \/ DeliverDuplicate(m)
    \/ DeliverFails(m)
    \/ DeliverProcessed(m)
    \/ DeliverSkipped(m)
    \/ \E r \in Runs : DeliverAccepted(m, r) \/ SubmitTest(m, r)

\* What a run does on its own, once the model or the database has answered.
ServiceStep(r) ==
    \/ SelectMatches(r)
    \/ GeminiAnswers(r)
    \/ HeuristicGate(r)
    \/ ExtractNothing(r)
    \/ StoreEvent(r)
    \/ IndexEvent(r)
    \/ FinishStore(r)
    \/ Abort(r)

\* What a run does when the push service has answered.
PushStep(r) ==
    \/ ReminderSent(r)
    \/ MarkFails(r)
    \/ DueReminderSent(r)

UserStep(e) ==
    \/ \E s \in UserStatuses : UpdateEventStatus(e, s)
    \/ DeleteEvent(e)

Next ==
    \/ \E m \in Messages : Deliver(m)
    \/ \E r \in Runs : ServiceStep(r) \/ PushStep(r)
    \/ \E e \in Runs : UserStep(e)
    \/ \E c \in Chats : DeleteContact(c)
    \/ CleanupTestData
    \/ CleanupRecentlyProcessed
    \/ Crash

Spec == Init /\ [][Next]_vars

\* The event loop resumes a run whose await has settled, and the calls to the
\* embedding and Gemini APIs time out in their client.  Nothing is assumed of
\* the push services, of the sender, or of the user.
FairSpec == Spec /\ \A r \in Runs : WF_vars(ServiceStep(r))

-----------------------------------------------------------------------------
(* Properties. *)

TypeOK ==
    /\ contacts \subseteq Chats
    /\ messages \subseteq Messages
    /\ completed \subseteq messages
    /\ logged \subseteq messages
    /\ source \in [Runs -> Messages \union {None}]
    /\ status \in [Runs -> Statuses]
    /\ triggerCount \in [Runs -> Nat]
    /\ indexed \subseteq Runs
    /\ recentlyProcessed \subseteq Messages
    /\ pc \in [Runs -> {"idle"} \union Waiting \union Ended]
    /\ msg \in [Runs -> Messages \union {None}]
    /\ matches \in [Runs -> SUBSET Runs]
    /\ sending \in [Runs -> Runs \union {None}]
    /\ answers \in [Messages -> SUBSET Answers]
    /\ deliveries \in [Messages -> Nat]
    /\ notified \in [Runs -> Nat]
    /\ deleted \subseteq Messages
    /\ unguarded \subseteq Runs
    /\ faults \in Nat
    /\ crashes \in Nat

\* Deduplication (webhook/evolution.ts:11): however often a message is delivered,
\* and whatever crashes in between, it has at most one event at a time.  The exception
\* are the events of a run that outlived its entry in recentlyProcessed, and of a
\* run that a redelivery then started beside it: both of them may store one.
OneEventPerMessage ==
    \A d \in Runs \ unguarded, e \in Runs : source[d] # None /\ source[d] = source[e] => d = e

\* An event never loses its origin: its message row and its chat's contact row,
\* which the foreign keys of events refer to, exist although three different
\* steps write them, a crash may fall between, and the user may delete the contact
\* and the message while a run still works on them.
EventsHaveOrigin ==
    \A e \in Runs : source[e] # None =>
        source[e] \in messages /\ ChatOf[source[e]] \in contacts

\* pipeline_completed is up only when nothing works on the message any more, also
\* when a redelivery starts it again after a drop.  Of two runs that overlap because
\* one outlived its entry in the window, the first to end completes the message
\* under the other: those are the exception.
CompletedIsSettled ==
    \A r \in Runs \ unguarded : Live(r) => msg[r] \notin completed

\* A stored message is left incomplete with no run to finish it only by a crash,
\* or when the catch block's own statement throws after another one has.
IncompleteNeedsCrash ==
    \A m \in messages \ completed :
        m \in LiveMessages \/ crashes > 0 \/ faults > 1

\* A proactive reminder the user has seen counts against its event: the event is
\* still eligible only while that reminder's run has not heard from the push
\* service, unless a crash or a throwing statement lost the mark.
ReminderIsMarked ==
    \A e \in Runs : source[e] # None /\ notified[e] > 0 /\ triggerCount[e] = 0 =>
        \/ \E r \in Runs : Live(r) /\ sending[r] = e
        \/ faults > 0 \/ crashes > 0

\* "ALL messages are stored (even if not event-related)" (webhook/evolution.ts:9):
\* what the webhook acknowledges with 200, and does not ignore by rule, is stored,
\* until the user deletes it.  Not an invariant: a statement that throws after the id
\* has entered the window breaks it.
Acknowledged(m) == answers[m] \intersect {"processing", "duplicate_rapid", "already_processed"} # {}

AllMessagesStored ==
    \A m \in Messages \ Skipped : Acknowledged(m) => m \in messages \union deleted

\* The same where no database statement has thrown: crashes, duplicates and
\* redeliveries alone never make the service acknowledge what it does not have.
StoredUnlessFault == faults = 0 => AllMessagesStored

\* A stored message is completed in the end, unless it is deleted or a run of it
\* waits for a push service, which the code gives no time limit.  Overlapping runs of one message,
\* which reset each other's flag, do not leave it incomplete.
AwaitsPush(m) == \E r \in Runs : msg[r] = m /\ pc[r] \in {"send", "notify"}

StoredIsCompleted ==
    \A m \in Messages :
        m \in messages ~> (m \in completed \/ AwaitsPush(m) \/ m \notin messages)

\* "Delete a specific contact and all related data" (server.ts:1036): whenever
\* there is a contact, deleting it is possible.
ContactDeletable == \A c \in contacts : ENABLED DeleteContact(c)

\* The message path keeps the promise of Ingestion.
Promise == INSTANCE Ingestion WITH
    Events <- Runs,
    known <- messages,
    done <- completed,
    loose <- unguarded,
    eventsOf <- [m \in Messages |-> EventsOf(m)]

KeepsPromise == Promise!Spec

=============================================================================
