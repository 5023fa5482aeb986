# Argus in TLA+

Argus reads WhatsApp messages through a gateway, stores them in SQLite, asks
Gemini whether they announce an event, keeps the events and their embeddings,
and pushes reminders to the browser. This directory models its state-changing
parts in TLA+, checks them with TLC on small instances and proves the main
properties for all instances with TLAPS. Paths below are relative to the
repository's `src/` directory unless they begin with `src/`.

The service is one Node.js process over one synchronous SQLite connection.
What makes it hard is therefore not threads but awaits: everything between two
awaits is atomic, and whatever was read before an await may be stale after it.
All models are cut at exactly these points.

## Inventory

| Component | State | Operations | Talks to |
|---|---|---|---|
| Webhook handler (`webhook/evolution.ts`) | the 10 s window `recentlyProcessed` | `POST /webhook/evolution`, `POST /webhook/test`, cleanup every minute | tables; starts a pipeline run without waiting for it |
| Simple pipeline (`pipeline/simplePipeline.ts`) | none of its own, one run per message | `processMessageSimple`: store, proactive check, gate, extraction, event, index, push | everything below |
| Proactive check (`services/proactiveTrigger.ts`) | the rows it has read | search, offer to Gemini, push, mark | vector store, tables, Gemini, web push |
| Tables (`database/sqlite.ts`) | contacts, messages, events, reminders, push subscriptions, logs | one statement each, foreign keys on | |
| Vector store (`vector/faiss.ts`) | index and mapping, in memory and in two files | `initVectorStore`, `addVector`, `saveIndex`, `search` | file system |
| Events API (`server.ts`) | | status changes and deletions of events and contacts, settings | tables |
| Reminder scheduler (`scheduler/index.ts`) | timers by event id, reminder rows | `scheduleReminder`, `cancelReminder`, `triggerReminder`, `initScheduler` | tables, web push |
| Cron scheduler (`scheduler/cronScheduler.ts`) | | `checkDueReminders`, weekly digest | tables, web push |
| Web push (`notifications/index.ts`) | subscriptions table, a history in memory | subscribe, `sendNotification` | push services |
| Web dashboard (`src/webapp/server.ts`, `public/`) | subscriptions in a Map and a file; pages and notifications in browsers | subscribe, unsubscribe, sync, send; buttons of events | events API, web push, push services |
| Browser extension (`src/extension`) | cards and notifications | context query, buttons of events | events API |
| Orchestrator notification service (`orchestrator/notificationService.ts`) | subscriptions in memory and in Redis lists | load, register, send, remove | Redis, push services |
| Container manager (`orchestrator/containerManager.ts`) | map of containers, ports | start, stop, health tick | Docker |
| Orchestrator (`orchestrator/index.ts`) | WebSocket clients | routing | the two above |
| Process (`index.ts`) | | start-up, shutdown | all |

Also present and without state that decides anything: the heuristic gate
(regular expressions), configuration, logging and metrics, and the sender that
nothing calls. `src/legacy` is not
imported by the running service, but holds the only callers of
`scheduleReminder`. `src/evolution-api` is a vendored gateway; what matters of
it is that it repeats a webhook call.

What each component must get right:

- **Message path.** A message is stored once it is acknowledged, has at most
  one event, is marked complete when and only when nobody works on it any
  more, and its event always has a message and a contact to refer to, through
  redeliveries, overlapping runs, throwing statements and restarts.
- **Proactive reminders.** What was pushed is marked, so that it is not pushed
  for every later message.
- **Vector store.** A vector is found under its own event, also after a crash
  between the two files.
- **Scheduler.** One timer per event, no reminder early or twice, none lost by
  a restart.
- **Subscriptions.** Memory and Redis agree; no endpoint is lost or doubled by
  operations that overlap at the Redis commands.
- **Web push.** The table follows what the browser asked for last, and a
  refused push deletes nothing but what is gone.
- **Event actions.** An event is proactively reminded of once; one that the user
  is done with stays so.
- **Containers.** No port twice; a container is run and removed by one task at a
  time; a dead one is replaced.

The hazards this comes from are listed with their lines in `PROJECT.json`.

## Modules

| Module | What it is |
|---|---|
| `Pipeline` | webhook, window, pipeline runs, proactive check, event status, deletion of events, contacts and test data, crash |
| `Ingestion` | the abstract promise of the message path |
| `PipelineProofs`, `DedupProofs` | proofs about `Pipeline` |
| `VectorStore`, `VectorStoreProofs` | the index, the mapping and their files |
| `Reminders`, `RemindersProofs` | timers, reminder rows, restarts; the proofs also cover the cron job |
| `ReminderBackup` | `Reminders` composed with the cron job |
| `Subscriptions`, `SubscriptionsProofs` | the orchestrator's push subscriptions |
| `EventActions`, `EventActionsProofs` | status of an event between the proactive checks, the buttons the user sees and the events API |
| `WebPush`, `WebPushProofs` | push subscriptions in the dashboard and in the main server |
| `Containers`, `ContainersProofs` | the orchestrator's containers, calls and health ticks |
| `RunRight` | the abstract life of a container: who may run it |
| `MC...` | instances for TLC: sets of model values and symmetry |

Operators called "Mutant of X" are plausible mistakes in X. No specification
uses them; putting one in the place of X must make the property it aims at
fail.

### Pipeline

A run of `processMessageSimple` is an element of `Runs`. As each run draws at
most one fresh uuid for its event, the event carries the run's name. `pc[r]`
says what the run awaits:

| `pc` | the await |
|---|---|
| `embed` | the embedding of the text, in `checkForProactiveTriggers` |
| `gemini` | Gemini's verdict on the offered events |
| `send` | the push of one proactive reminder |
| `gate` | the return of the proactive check |
| `extract` | Gemini's extraction |
| `vector`, `stored` | the embedding to index; `addVector` |
| `notify` | the push of an event due within the hour |

The handler of the webhook is synchronous up to its answer, so each answer is
one action: `DeliverDuplicate`, `DeliverFails` (a statement throws: 500, with
the id already in the window), `DeliverProcessed`, `DeliverSkipped`,
`DeliverAccepted`; the last one contains the synchronous start of the run,
with its swallowed `upsertContact` failure, the foreign key of the message row
and the catch block. `CleanupRecentlyProcessed` removes any set of ids,
those of live runs included: an entry lives ten seconds or a little more, a run
as long as Gemini and the push services take. The history variable `unguarded`
keeps the runs that outlived their entry this way, and those that a redelivery
started beside one of them while it was still at work. No step depends on it;
the properties use it to say which runs the window does not protect.

Similarity scores, Gemini's answers, due dates and push outcomes are
nondeterministic. So is every failing statement, each a fault counted against
`MaxFaults`. `Abort` is the catch block of the run proper.

The user may delete a message under the run that works on it, with its contact
(`DeleteContact`) or as test data (`CleanupTestData`). Both are one transaction
that the foreign key of `pipeline_logs` lets through only while no message of
it has a log, so `logged` is part of the state: the proactive check and the
gate write a log (`Log`), which throws when the message is gone, and what
follows the gate may rely on the message. Which chats and texts look like test
data is a constant (`TestChats`, `TestTexts`), which events have such titles a
choice.

`Ingestion` says what this amounts to: a message is recorded, work on it begins
only while it has no event, the event that comes of it is the first one of a
message that is not done, unless the work was loose, and only the user removes
events, and messages, those only while they have no event. The mapping takes
`messages`, `completed`, the events by source message, and `unguarded` as the
loose work.

### VectorStore

`index` and `ids` are the positions of the FAISS index and the names the
mapping gives them; a vector is named by the event it embeds, so the store is
right when both are equal. `addVector` is three steps, the addition and the
writes of the index file and of the mapping file, as only a failing write or
the end of the process can fall between them. A file may be missing, cut short
or whole. `badStart` records that the store was loaded after an interrupted
save.

### Reminders and ReminderBackup

`armed` are the timers that run and `activeTimers` is the map that should
know them; the two differ exactly where the code loses track. `firing` are the
runs of `triggerReminder` that await their push. Time is a small counter;
`MaxDelay` is the longest delay `setTimeout` holds (2^31 - 1 ms), a longer one
fires at once. `setAt` is the time at which a reminder's timeout was last set, so
that a delay is measured from there and not from the start of the clock
(`BeyondTimeout`); `cut` keeps the reminders pushed by a timeout set too far
ahead. Both are history. `InitScheduler` takes the pending rows in the order of their
times, where a later row of an event replaces the timer of an earlier one.
`DeleteEvent` and `DeleteContact` are the deletions of the API as far as the
foreign key of the reminders table lets them through.

`ReminderBackup` adds the cron job's check as it is written. Nothing in the
repository starts the cron job.

### Subscriptions

One user, an endpoint for each subscription. Redis executes commands in the
order they are issued, so that a command takes effect when it is issued and
its answer resumes the run at some later step. The loops of `sendToUser` and
`removeSubscription` run over arrays that `registerSubscription` may still
extend; `sharesTodo` and `sharesRewrite` say which loops run over the array
that is in the map at the moment. Lists are bags: no property depends on their
order, and a loop that takes any element covers one that goes by position.

### EventActions

`Pipeline` lets the user change the status of an event at any time; this module
has what leads to it. `status` and `triggered` are the columns of the events
table. A check (`checkForProactiveTriggers`) reads the open events, waits for
Gemini and for each push, and never reads them again: `hand` and `sending` are
its stale rows. `notices` are the events with a push notification, a card or a
notification of the extension, on their way or shown, on any of the user's
devices; `page` has the open statuses that some events page still shows. Both
may be older than the row, and the API (`Handled`) sets the status whatever it
was. Dashboard pages and service worker go through the proxy of the dashboard,
which may refuse (`Refused`).

`reminders` counts the proactive pushes of an event. It is "excused" once two
checks had the event in hand at a time, or a push was not followed by its mark:
the two ways the code leaves to a second reminder. `RemindedOnce` also says that
they are all: an event that is marked and in no check's hand stays so.

### WebPush

The dashboard keeps subscriptions in a Map, written to a file; the main server
keeps them in a table. Every request changes the Map and the file first and
then waits for the main server. The key of the Map is a prefix of the endpoint
that all endpoints of a push service share, so the model's `Id` is the push
service. A sync and `/api/notify` iterate over the live Map (`seen` are the keys
they have been at; a key that is deleted and set again is met again), a test
notification over an array. `Handled` is the main server; `Lost` is a request
that fails on the way, or between the DELETE and the INSERT of
`storePushSubscription`. `unsure` are the endpoints whose last request may not
have had its way: it failed, died with the dashboard, or raced the opposite one.

### Containers

A call or a tick is a task; so is the creation of a container. Each waits for
`docker run`, `stop`, `rm` in turn, which behave as Docker does: `run` fails
while the name or the port is in use, `stop` and `rm` fail when there is nothing
to stop or it is up. Ticks do not wait for one another. Waits for Redis are part
of the docker command before or after them; a Redis command may fail.
`allocatePort` is awaited, but its promise is settled when it returns, so a
container is in the map before another call is handled. Production mode is
modelled: in development the docker commands are a delay.

The map of containers is lost when the orchestrator is restarted
(`Crash`); Docker's containers, and the users in Redis, are not. The copy of a
container that the manager writes to Redis is never read and left out.

`overtaken`, a history variable, has the containers that were removed while a task
whose `docker run` of theirs had succeeded had yet to note it: that task then
sets the status to `running` when the container is gone. The next run of the
container, or a restart of the orchestrator, ends it.

## Runs

| Run | Instance | What it shows |
|---|---|---|
| `pipeline_safe` | 2 messages in 2 chats, 2 runs, 2 deliveries each, 2 faults, 1 crash, deletions with `m2` a test text | types, one event per message, events with origin, completion flag, marks, storage of acknowledged messages, and that `Pipeline` implements `Ingestion` |
| `pipeline_live` | 3 messages (one skipped, one from the test endpoint, one with a signal), 2 runs, 1 fault, deletions with `c2` a test chat | a stored message is completed in the end, unless it is deleted or one of its runs waits for a push |
| `pipeline_contact` | as `pipeline_safe` with 3 runs, no faults, no crash | expected to fail: a contact cannot be deleted |
| `vector_safe` | 4 events, 3 faults or crashes | names and vectors agree, nothing is lost, unless a start follows an interrupted save |
| `reminders_safe` | 2 events, 3 reminders, 3 instants, delays up to 2, 1 fault, 2 crashes | one timer, no push twice, early or at a time that was postponed, recovery, marks |
| `reminders_backup` | 1 event, 2 reminders, 1 crash, fair | expected to fail: a reminder that falls due while the process is down is never pushed |
| `subscriptions_safe` | 3 endpoints, 2 sends, 4 registrations, 1 fault, 1 crash | no doubles until a restart, nothing lost, memory and Redis agree, each as far as it holds |
| `events_safe` | 2 events, 2 checks, 1 request at a time, 1 fault or crash, statuses active, completed, snoozed | one reminder for an event, whose mark no click takes away, and what is done with stays so |
| `webpush_safe` | 2 endpoints of 1 push service, 2 requests, 1 sync, 1 sender, 1 broadcast, 1 failure or crash | the table follows the browser's last request; the Map loses an endpoint only to a collision |
| `webpush_all` | the same | expected to fail: the second browser of a push service replaces the first |
| `containers_safe` | 2 containers, 2 ports, 1 client, 2 overlapping ticks, 1 failure or crash | one task at a time may run a container, none is lost, ports differ, and `Containers` implements `RunRight` |
| `containers_live` | 2 containers, 1 client, 1 tick at a time, no failure, fair | a dead container is taken up by the tick |

The `webpush` runs check for deadlock, of which there is none. The others do
not: each of their systems may really stop, when messages, runs or the bounds
are used up.

Why the bounds are enough. The wrong behaviours of the message path take two
runs of one message, or a run of one and one of another that reminds of its
event, so two runs and two deliveries show them. Three runs of one message at a
time are beyond the run and left to the proofs. One fault exposes every catch
block and two a throwing one, one crash every state that must survive. In the
vector store a mixed-up mapping takes an interrupted save, a restart and one more
addition: two events, and the run has four. Two timers of one event take two
reminders and a lost one takes a third; two crashes let a row be recovered
twice. Two sends that remove different endpoints of three leave one to lose;
four registrations allow a removed endpoint to return. A second reminder takes
two checks of one event, and the second event gives them something else to
offer; a click changes nothing but one row, so requests that overlap show no
more than requests in a row, and declining is completing under another name.
A stale 410, a collision and a sync that races a request each take two
endpoints and two requests. Two ticks and a client are the three contenders for
one container; the second container keeps them from one another. All the passing
properties except the two liveness properties are proved without bounds.

### Disagreements with the documentation

With a run that is expected to fail:

1. **Contacts stay** (`server.ts:1036`, `database/sqlite.ts:2404`,
   `pipeline_contact`). Neither the deletion of a contact "and all related
   data" nor the removal of test data deletes the log rows first. From the
   first log of one of its messages on, a contact cannot be deleted: the
   transaction breaks the foreign key, rolls back and is answered 500.
2. **Missed reminders** (`scheduler/cronScheduler.ts:5`, `reminders_backup`).
   Both the scheduler and the cron job read rows in the future only, so
   neither sends what fell due while the process was down.
3. **One browser for each push service** (`src/webapp/server.ts:218`,
   `webpush_all`). The Map of subscriptions is keyed by the first 24 bytes of
   the endpoint, `https://fcm.googleapis.c` for every Chrome, so that
   `/api/notify`, "to all", test notifications and the sync reach the last
   browser only. The table of the main server is not affected.

Shown by the model as the exception that a property of a passing run names;
dropping the exception gives the counterexample:

4. **Two events for one message** (`webhook/evolution.ts:11`,
   `OneEventPerMessage` without `unguarded`). An id leaves the window ten
   seconds after its delivery even if its run still awaits Gemini or a push
   service. A redelivery then finds the message without an event and starts a
   second run, and both store one.
5. **Acknowledged but not stored** (`webhook/evolution.ts:9`,
   `AllMessagesStored`, or `StoredUnlessFault` without its condition). The id
   enters the window before the first statement. When that statement throws, the
   retry that the answer 500 provokes is answered `duplicate_rapid`.
6. **Vectors under wrong names** (`vector/faiss.ts:21`, `NamedUnlessBadStart`
   without `~badStart`). A process that ends between the two writes leaves one
   vector more than names; the next addition appends its name one place too
   early.
7. **Two timers** (`scheduler/index.ts:74`, `OneTimerUnlessOverlapped` without
   `overlapped`). After its push `triggerReminder` deletes the map entry of its
   event, which may by then belong to a newer timer.
8. **Registered twice** (`orchestrator/notificationService.ts:74`,
   `RegisteredOnce`). A registration before loading has ended, or during
   a removal, is in Redis twice, and twice in memory after the next load.
9. **Ports given out again** (`orchestrator/containerManager.ts:192`,
   `UniquePorts`). The ports in use are those of the map, which a restart of the
   orchestrator empties while the containers keep running. The `docker run` of
   the new container then fails.
10. **A snooze has no end** (`SettledForever`). The button says "Snooze 1h"
    (`src/webapp/public/sw.js:68`), but nothing ever sets a snoozed event back:
    it is as closed as a completed one.
11. **A snooze does not reset the reminder** (`RemindedOnce`). "Reset proactive
    trigger status for an event (e.g., after snooze)" (`database/sqlite.ts:1130`,
    `services/proactiveTrigger.ts:421`) and "Reset for snooze" (`CHANGELOG.md:286`)
    describe `resetProactiveTrigger` as what follows a snooze. Nothing calls it:
    the snooze changes the status only, and an event reminded of once is never
    reminded of again, whatever the user clicks. The mutant `HandledResetting`
    is the code as described, and breaks `RemindedOnce`.

What these exceptions mean for reading the runs: a property that names a hazard
as its exception shows that nothing else leads there, not that the hazard does no
harm. The notes of the hazards in `PROJECT.json` say for each whether its outcome
lies inside the property or in the exception. Outcomes that no property calls
wrong are: the message lost by a throwing statement (5), the events of overlapping runs (4), the
second reminder of two overlapping checks or of a lost mark, the reminder of an
event closed while its check was under way, the push that returned false and is
marked all the same, the subscriptions lost by a process that ends during a
removal, by a failing Redis command or by a file cut short, and the closed event
that a stale page reopens.

Seen while reading, outside the properties: a container that has never reported
its health is restarted by the first tick (`containerManager.ts:219-225`), and
nothing in the repository sends HEALTH_CHECK; a restart whose `docker run`
fails leaves status `stopped`, so no tick tries again; the service worker
reports success for an action that the main server refused, as the proxy
answers 200 with the error as its body (`src/webapp/server.ts:333`); a page
that shows a closed event as pending can accept it and thereby open it again.

## Fairness

`FairSpec` of `Pipeline` assumes weak fairness of `ServiceStep(r)` only: the
event loop resumes a run whose await has settled, and the clients of the
embedding and Gemini APIs have time limits. Nothing is assumed of the push
services: `webPush.sendNotification` is called without a limit, so a run may
wait for it for ever, and `StoredIsCompleted` says so. Nothing is assumed of
the sender, the user or the cleanup.

`FairSpec` of `Containers` assumes that docker and Redis answer and the event
loop resumes what has its answer (`Step`), that the interval fires for ever
(`Tick`), and that time passes, so that a container that no longer reports is
found quiet in the end (`FallQuiet`). Nothing is assumed of the API client and
of the containers. A docker command has no time limit: one that hangs blocks
only its own tick, as the next does not wait for it; the run has no such command
as it would need a further tick.

`FairBackup` assumes that time passes, that a stopped process is started
again, that timers and cron ticks run and that pushes are answered: everything
the reminder needs, and it is still lost.

## Proofs

Every theorem holds for all values of the constants that satisfy the named
assumption of its module, which only says what the constants are.

**Pipeline.** `StoreInv` carries `TypeCorrect` and `OriginKept` for any
overlap of runs. That an event refers to existing rows is not inductive: the
step that stores it looks at neither, and the user may delete both while the
run waits. It needs that past the gate a run's message has a log
(`LiveLogged`), as has every event's (`EventsLogged`), which bars the deletion,
that a stored message has its contact (`MessagesHaveContact`), and that an
event id is not used before its run stores it (`FreshIds`).

A second part shows what faults and crashes can cost, each from `StoreInv`
and one more part. `AckInv`: while no statement has thrown, every id in the
window is stored or was deleted by the user, which is why a `duplicate_rapid` answer is true then.
`SettleInv`: an incomplete message has a live run. `RemindInv`: an event
without a row yet has not been reminded of, and a run sends exactly while it
waits for a push.

A third part has two action properties that no run checks, as they need nothing
beyond `StoreInv`. `RunsAdvance`: a step leaves a run where it is, raises its
stage, or takes one from the finite set of its reminders, so that only an
await without an answer holds a run up; with the fairness of `ServiceStep` that
is why `StoredIsCompleted` holds. `LoggedIsKept`: a logged message and its
contact stay, and no deletion of its chat gets through again, the general form of
what `pipeline_contact` finds.

`DedupProofs` argues one message at a time, for every behaviour. `Once(m)`: a
run of `m` that is not in `unguarded` has its entry in the window or came through
the test endpoint (`InWindow`), hence it has `m` to itself (`Alone`), hence it
works on `m` while `m` has no event (`NoEventYet`), and once it has stored one no
run is left that would store another (`EventStands`), for the next delivery finds
the event. This gives `OneEventPerMessage`, `CompletedIsSettled` and the
implementation of `Ingestion`, none of which assumes anything about how long a run
takes. `WindowProtects` has no exception but a hypothesis: if no step takes from
the window the entry of a run of `m` that goes on (`KeepsEntry(m)`), no run of `m`
is ever in `unguarded`, and `m` has at most one event, whatever the runs of other
messages do.

**VectorStore.** The invariant says what memory and files hold in each phase:
after a completed save both files agree with memory, while an addition is
written the index comes first. From it, names and vectors agree and no event
is lost unless a start followed an interrupted save, and there is never a
saved mapping without an index.

**Reminders.** `TimerInv`: except for an event that was scheduled while a
reminder of it waited for its push, a running timer is the one in the map, and
none runs while the event's reminder is being pushed; a timer set within
`setTimeout`'s reach wakes exactly at its reminder's time, and what was pushed
is due and has no timer, unless it was `cut`. That a restart does not push again follows because
`getPendingReminders` asks for the future only, the same condition that loses
overdue reminders. `RecoveryInv` is `RecoveredIfPostponed` itself on top of
`TimerInv`.

`Quiet` is about the rows of cancelled reminders, which stay unsent and which
start-up reads back. `QuietInv`: the latest reminder of an event keeps its row as
long as any reminder of the event has one (`LatestKept`), a row marked sent was
pushed (`SentPushed`), and unless an exception of the property holds no timer of
a postponed reminder runs. The exceptions are all needed: TLC finds a push at
the old time without any of them. `NoOrphans` follows from the foreign key: what
`initScheduler` does with a reminder whose event is gone never happens.

With the cron job (`ReminderBackup`), `CronFindsNothing`: its check never has a
row to send, because it looks for due rows among those that are not due. Hence
`NeverCaughtUp`: a reminder whose time has passed without a timer or a push
stays so for good, through any restarts. That is the general form of what
`reminders_backup` finds, and needs no fairness.

**Subscriptions.** Three invariants, each with its condition. In the first
process (`FirstProcess`) a loop over the array in the map has nothing left
that the array has not, so that a new endpoint is new to the loops as well.
Undisturbed (`Kept`) everything in memory is in Redis or in the removal whose
array is in the map. Apart (`Apart`), one removal at a time has a part of the
list to write back and Redis has the rest.

**EventActions.** `RemindInv`: what two checks have in hand is excused
(`Contested`), what a check still has in hand has not been reminded of
(`HandUnseen`), and an event reminded of once is marked, about to be, or deleted
(`OnceMarked`), so no check takes it in hand again. The second half of
`RemindedOnce` is one step for each action: no check picks up a marked event, and
no click touches the mark.
`SettledForever` needs that checks have stored events only in hand and nothing
when idle (`HandStored`), and then one step for each action.

**WebPush.** `WebPushInv`: a request under way whose endpoint is not in doubt
asks for what the browser wants (`Meant`), Map and file hold only what was asked
for (`Wanted`), an endpoint nobody asked about is nowhere (`Asked`), and a live
subscription is in Map and file unless another endpoint shares its key (`Kept`).
The last is stronger than `LostOnlyToCollision` by the file, which a restart
makes the Map.

**Containers.** `ContainersInv`: whoever works on a container finds it in the
map, with a port (`Registered`); at most one task has the next `docker run` of a
container before it, and only while Docker has none (`OneHolder`); two tasks on
one container, one of which has run it and the other removed it, have made it
overtaken (`OvertakesSeen`). `OneHolder` is inductive
because `docker rm` succeeds for one contender only.

`LeadsOneLifeHolds` is the implementation of `RunRight`. The right to run a
container is Docker's while Docker has it, else its holder's, else ended if it
was ever given a port. Each step is one of: the right of every container stays
(`LifeStutters`, `RightStays`), the right of one moves (`LifeMoves`,
`OthersKeepRight`), or a crash loses what tasks hold.

Only model-checked: `StoredIsCompleted`, `DeadIsReplaced` and
`TriggeredAfterRestart`, as liveness is out of the prover's reach, and the
other properties that are expected to fail.

## Not modelled

- Similarities, texts, prompts, times of day and Gemini's answers are
  nondeterministic choices. An answer that names one event twice is left out.
- Deletions in `Pipeline` leave out the rows of the reminders table, which only
  `src/legacy` fills; `Reminders` has them.
- In `EventActions` an event is one row without a due time; the age limit of the
  context query, the cooldown of the extension and the order of the candidates
  are left out, as they only choose among open events.
- In `WebPush` a request that was under way when the dashboard stopped is not
  handled any more; `/api/push/test` is a broadcast.
- `shutdown` of the container manager, which nothing calls, and development mode.
- The history of sent notifications, WebSocket clients, the weekly digest,
  archives, pattern statistics, settings, the rate limit and all read-only
  endpoints: nothing reads them back to decide.
- `archiveOldData` (`database/sqlite.ts:1616`) calls `require`, which an ES module
  does not have, so the built service (`node dist/index.js`) answers its endpoint
  with an error and archives nothing: no model has archived rows.
- `src/legacy`, which nothing that runs imports. `src/evolution-api`, a vendored
  gateway of about 40000 lines, four fifths of the repository: of it the service
  sees webhook calls only, which `Pipeline` repeats, reorders and loses at will.
- The read-only pages of the dashboard, its settings, site detection and popup of
  the extension.

## Plan

Done: the message path with its promise and the deletions, the vector store,
the reminders with their backup, the orchestrator's subscriptions and
containers, web push, the events API with the user's buttons, and proofs for
each. What is left:

1. Composition of `Pipeline` and `VectorStore`: the set `indexed` of `Pipeline`
   as the abstraction of the store, and a proof that the store implements it.
2. An abstract specification of the web push subscriptions, a set that subscribe
   and unsubscribe change, which the table implements while no request fails.
3. Composition of `Containers` and `Subscriptions` in the orchestrator's routes.
