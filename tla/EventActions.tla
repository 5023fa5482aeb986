---------------------------- MODULE EventActions ----------------------------
(***************************************************************************)
(* What becomes of an event after the pipeline has stored it: the          *)
(* proactive checks that remind of it, the notices, cards and pages that   *)
(* offer the user buttons for it, and the events API behind the buttons.   *)
(*                                                                         *)
(* A check reads the open events, waits for Gemini and for its pushes, and *)
(* does not look again.  Notices, cards and pages show what was true when  *)
(* they were made.  The API sets the status whatever it was before.        *)
(***************************************************************************)
EXTENDS Naturals

CONSTANTS
    Events,
    Checks,         \* proactive checks under way at a time
    Clicks,         \* requests to the API under way at a time
    None,           \* no event
    UserStatuses,   \* the statuses the user sets
    MaxFailures     \* bound on refused requests, failed statements and crashes, together

ASSUME EventActionsAssumption ==
    /\ None \notin Events
    /\ Checks \intersect Clicks = {}
    /\ UserStatuses \subseteq {"active", "declined", "completed", "snoozed"}
    /\ MaxFailures \in Nat

VARIABLES
    (* the main server *)
    status,     \* status[e], or "none" before e is stored and "deleted" after
    triggered,  \* events with proactive_triggered = 1
    pc,         \* pc[t]: what check or click t waits for
    hand,       \* hand[c]: events check c offers to Gemini, or is to remind of
    sending,    \* sending[c]: the event whose reminder check c is pushing
    (* what the user sees *)
    notices,    \* events with a push notification, shown or on its way, or with a
                \* card or a notification of the extension
    page,       \* page[e]: open statuses that some events page shows for e, or will when
                \* the answer to its request gets there
    about,      \* about[u]: the event click u is about
    sets,       \* sets[u]: the status it sets
    (* history *)
    reminders,  \* reminders[e]: how often checks have pushed a reminder for e; "excused"
                \* when two checks had it in hand at a time, or one pushed and did not mark
    failures

server == <<status, triggered>>
checks == <<hand, sending>>
screen == <<notices, page>>
clicks == <<about, sets>>
history == <<reminders, failures>>
vars == <<server, pc, checks, screen, clicks, history>>

Open == {"pending", "active"}
Closed == {"declined", "completed", "snoozed"}
Statuses == Open \union Closed

-----------------------------------------------------------------------------
Init ==
    /\ status = [e \in Events |-> "none"]
    /\ triggered = {}
    /\ pc = [t \in Checks \union Clicks |-> "idle"]
    /\ hand = [c \in Checks |-> {}]
    /\ sending = [c \in Checks |-> None]
    /\ notices = {}
    /\ page = [e \in Events |-> {}]
    /\ about = [u \in Clicks |-> None]
    /\ sets = [u \in Clicks |-> "none"]
    /\ reminders = [e \in Events |-> "none"]
    /\ failures = 0

Fault ==
    /\ failures < MaxFailures
    /\ failures' = failures + 1

\* What check c may still remind of, or is reminding of.
InHand(c) == hand[c] \union ({sending[c]} \ {None})

-----------------------------------------------------------------------------
(* The pipeline's run of a message. *)

\* The run stores the event of its message.  If that is due within an hour, the run
\* ends with a push, without reading the status again: it is on its way from here on.
StoreEvent(e) ==
    /\ status[e] = "none"
    /\ status' = [status EXCEPT ![e] = "pending"]
    /\ notices' \in {notices, notices \union {e}}
    /\ UNCHANGED <<triggered, pc, checks, page, clicks, history>>

-----------------------------------------------------------------------------
(* checkForProactiveTriggers, in the runs of other messages. *)

\* Mutant of Candidates: snoozed events are offered as well.
CandidatesSnoozed ==
    {e \in Events : status[e] \in Open \union {"snoozed"} /\ e \notin triggered}

\* getEventsForProactiveTrigger
Candidates == {e \in Events : status[e] \in Open /\ e \notin triggered}

\* The events in S need not be reminded of once.
Excuse(S) == [e \in Events |-> IF e \in S THEN "excused" ELSE reminders[e]]

\* Check c, with count so far, goes on to remind of the events in S: it pushes the
\* next, or ends.
Remind(c, S, count) ==
    \/ /\ S = {}
       /\ pc' = [pc EXCEPT ![c] = "idle"]
       /\ hand' = [hand EXCEPT ![c] = {}]
       /\ sending' = [sending EXCEPT ![c] = None]
       /\ reminders' = count
       /\ UNCHANGED notices
    \/ \E e \in S :
        /\ pc' = [pc EXCEPT ![c] = "send"]
        /\ hand' = [hand EXCEPT ![c] = S \ {e}]
        /\ sending' = [sending EXCEPT ![c] = e]
        /\ notices' = notices \union {e}
        /\ reminders' = [count EXCEPT ![e] =
            CASE @ = "none" -> "once"
              [] @ = "once" -> "twice"
              [] OTHER -> @]

\* Near matches are reminded of at once; others are offered to Gemini first.
Check(c) ==
    /\ pc[c] = "idle"
    /\ \E S \in SUBSET Candidates \ {{}} :
        LET count == Excuse({e \in S : \E d \in Checks : e \in InHand(d)}) IN
        \/ Remind(c, S, count)
        \/ /\ pc' = [pc EXCEPT ![c] = "gemini"]
           /\ hand' = [hand EXCEPT ![c] = S]
           /\ reminders' = count
           /\ UNCHANGED <<sending, notices>>
    /\ UNCHANGED <<server, page, clicks, failures>>

\* Gemini picks among the rows as they were read before the call.
GeminiAnswers(c) ==
    /\ pc[c] = "gemini"
    /\ \E S \in SUBSET hand[c] : Remind(c, S, reminders)
    /\ UNCHANGED <<server, page, clicks, failures>>

\* Mutant of Sent: the mark is forgotten.
SentUnmarked(c) ==
    /\ pc[c] = "send"
    /\ Remind(c, hand[c], reminders)
    /\ UNCHANGED <<server, page, clicks, failures>>

\* The push has been answered, the event is marked, and the next one goes out.
Sent(c) ==
    /\ pc[c] = "send"
    /\ triggered' = triggered \union {e \in {sending[c]} : status[e] \in Statuses}
    /\ Remind(c, hand[c], reminders)
    /\ UNCHANGED <<status, page, clicks, failures>>

\* Marking throws: the check ends.
MarkFails(c) ==
    /\ pc[c] = "send"
    /\ Remind(c, {}, Excuse({sending[c]}))
    /\ Fault
    /\ UNCHANGED <<server, page, clicks>>

-----------------------------------------------------------------------------
(* What the user sees, and the buttons.  A page is loaded when the user asks and after
   each of its clicks; notices and cards go away by themselves or when dismissed. *)

\* loadEvents, by any page.
LoadPage(e) ==
    /\ status[e] \in Open
    /\ page' = [page EXCEPT ![e] = @ \union {status[e]}]
    /\ UNCHANGED <<server, pc, checks, notices, clicks, history>>

\* The last page that showed status s for e is loaded again, or closed.
LeavePage(e, s) ==
    /\ s \in page[e]
    /\ page' = [page EXCEPT ![e] = @ \ {s}]
    /\ UNCHANGED <<server, pc, checks, notices, clicks, history>>

\* Mutant of ShowCards: any event that matches the site has a card.
ShowCardsOfAll(e) ==
    /\ status[e] \in Statuses
    /\ notices' = notices \union {e}
    /\ UNCHANGED <<server, pc, checks, page, clicks, history>>

\* POST /api/extension/context: an open event, reminded of or not, matches the site.
ShowCards(e) ==
    /\ status[e] \in Open
    /\ notices' = notices \union {e}
    /\ UNCHANGED <<server, pc, checks, page, clicks, history>>

Dismiss(e) ==
    /\ e \in notices
    /\ notices' = notices \ {e}
    /\ UNCHANGED <<server, pc, checks, page, clicks, history>>

\* The buttons: a notice or a card offers to complete and to snooze, and stays on the
\* user's other devices; a page offers to accept or decline what was pending, and to
\* complete what was active.
Click(u, e, s) ==
    /\ pc[u] = "idle"
    /\ \/ /\ e \in notices
          /\ s \in {"completed", "snoozed"}
          /\ notices' \in {notices, notices \ {e}}
       \/ /\ \/ "pending" \in page[e] /\ s \in {"active", "declined"}
             \/ "active" \in page[e] /\ s = "completed"
          /\ UNCHANGED notices
    /\ pc' = [pc EXCEPT ![u] = "request"]
    /\ about' = [about EXCEPT ![u] = e]
    /\ sets' = [sets EXCEPT ![u] = s]
    /\ UNCHANGED <<server, checks, page, history>>

-----------------------------------------------------------------------------
(* The events API. *)

Answer(u) ==
    /\ pc' = [pc EXCEPT ![u] = "idle"]
    /\ about' = [about EXCEPT ![u] = None]
    /\ sets' = [sets EXCEPT ![u] = "none"]

\* Mutant of Handled: accepting sets a status of its own.
HandledAccepted(u) ==
    /\ pc[u] = "request"
    /\ status' = [status EXCEPT ![about[u]] =
        CASE @ \notin Statuses -> @
          [] sets[u] = "active" -> "accepted"
          [] OTHER -> sets[u]]
    /\ Answer(u)
    /\ UNCHANGED <<triggered, checks, screen, history>>

\* Mutant of Handled: a snooze resets the proactive trigger, so that the event may be
\* reminded of again.
HandledResetting(u) ==
    /\ pc[u] = "request"
    /\ status' = [status EXCEPT ![about[u]] = IF @ \in Statuses THEN sets[u] ELSE @]
    /\ triggered' = triggered \ {e \in {about[u]} : sets[u] = "snoozed"}
    /\ Answer(u)
    /\ UNCHANGED <<checks, screen, history>>

\* accept, decline, snooze, complete: updateEventStatus, or 404 if there is no row.
Handled(u) ==
    /\ pc[u] = "request"
    /\ status' = [status EXCEPT ![about[u]] = IF @ \in Statuses THEN sets[u] ELSE @]
    /\ Answer(u)
    /\ UNCHANGED <<triggered, checks, screen, history>>

\* The request does not get there, or is refused.
Refused(u) ==
    /\ pc[u] = "request"
    /\ Answer(u)
    /\ Fault
    /\ UNCHANGED <<server, checks, screen, reminders>>

\* DELETE /api/events/:id
Delete(e) ==
    /\ status[e] \in Statuses
    /\ status' = [status EXCEPT ![e] = "deleted"]
    /\ triggered' = triggered \ {e}
    /\ UNCHANGED <<pc, checks, screen, clicks, history>>

\* The server stops and starts: runs, checks and requests end where they are.
Crash ==
    /\ pc' = [t \in Checks \union Clicks |-> "idle"]
    /\ hand' = [c \in Checks |-> {}]
    /\ sending' = [c \in Checks |-> None]
    /\ about' = [u \in Clicks |-> None]
    /\ sets' = [u \in Clicks |-> "none"]
    /\ reminders' = Excuse({sending[c] : c \in Checks})
    /\ Fault
    /\ UNCHANGED <<status, triggered, screen>>

Next ==
    \/ \E e \in Events :
        \/ StoreEvent(e)
        \/ LoadPage(e)
        \/ ShowCards(e)
        \/ Dismiss(e)
        \/ Delete(e)
        \/ \E s \in Open : LeavePage(e, s)
    \/ \E c \in Checks : Check(c) \/ GeminiAnswers(c) \/ Sent(c) \/ MarkFails(c)
    \/ \E u \in Clicks :
        \/ \E e \in Events, s \in UserStatuses : Click(u, e, s)
        \/ Handled(u)
        \/ Refused(u)
    \/ Crash

Spec == Init /\ [][Next]_vars

-----------------------------------------------------------------------------
(* Properties. *)

TypeOK ==
    /\ status \in [Events -> Statuses \union {"none", "deleted"}]
    /\ triggered \subseteq Events
    /\ pc \in [Checks \union Clicks -> {"idle", "gemini", "send", "request"}]
    /\ \A c \in Checks : pc[c] # "request"
    /\ hand \in [Checks -> SUBSET Events]
    /\ sending \in [Checks -> Events \union {None}]
    /\ \A c \in Checks : pc[c] = "send" <=> sending[c] # None
    /\ notices \subseteq Events
    /\ page \in [Events -> SUBSET Open]
    /\ about \in [Clicks -> Events \union {None}]
    /\ sets \in [Clicks -> UserStatuses \union {"none"}]
    /\ \A u \in Clicks : pc[u] = IF sets[u] = "none" THEN "idle" ELSE "request"
    /\ \A u \in Clicks : about[u] = None <=> sets[u] = "none"
    /\ reminders \in [Events -> {"none", "once", "twice", "excused"}]
    /\ failures \in Nat

\* No event is reminded of a second time, except when two checks had it in hand at a
\* time or the mark was not written after the push.
NotTwice == \A e \in Events : reminders[e] # "twice"

\* Marked, and in no check's hand: every check that saw e unmarked is through with it.
RemindedOf(e) ==
    /\ e \in triggered
    /\ \A c \in Checks : e \notin InHand(c)

\* An event is proactively reminded of once, however many messages match it and
\* whatever the user clicks; and the two reminders that overlapping checks may send
\* are all it gets, for what was reminded of stays so until it is deleted.  A snooze
\* is no exception: the reset "after snooze" (database/sqlite.ts:1130,
\* proactiveTrigger.ts:421, CHANGELOG.md:286) is written but nothing calls it.
RemindedOnce ==
    /\ []NotTwice
    /\ [][\A e \in Events : RemindedOf(e) => RemindedOf(e)' \/ status'[e] = "deleted"]_vars

\* Done with: closed or deleted, in no check's hand, and with no page or request left
\* that could accept it.
Settled(e) ==
    /\ status[e] \in Closed \union {"deleted"}
    /\ \A c \in Checks : e \notin InHand(c)
    /\ "pending" \notin page[e]
    /\ \A u \in Clicks : about[u] = e => sets[u] # "active"

\* An event that is done with stays so and brings the user no new notice: no check
\* takes it in hand, no page offers to accept it, no click opens it again.  The
\* snoozed events are among them: neither the hour the button names (sw.js:68) nor the
\* reset of the proactive mark "after snooze" (database/sqlite.ts:1130) comes about.
SettledForever ==
    [][\A e \in Events : Settled(e) =>
        /\ Settled(e)'
        /\ e \in notices' => e \in notices]_vars

=============================================================================
