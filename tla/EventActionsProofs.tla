------------------------- MODULE EventActionsProofs -------------------------
(***************************************************************************)
(* For every set of events, checks and clicks and every number of faults:  *)
(* an event is reminded of once, and one that is done with stays so.       *)
(***************************************************************************)
EXTENDS EventActions, TLAPS

\* What two checks have in hand is excused.
Contested ==
    \A c, d \in Checks, e \in Events :
        c # d /\ e \in InHand(c) /\ e \in InHand(d) => reminders[e] = "excused"

\* A check is still to remind of what has not been reminded of.
HandUnseen ==
    \A c \in Checks : \A e \in hand[c] :
        reminders[e] \in {"none", "excused"} /\ e # sending[c]

\* What has been reminded of once is marked, or about to be, or gone.
OnceMarked ==
    \A e \in Events : reminders[e] = "once" =>
        \/ e \in triggered
        \/ status[e] = "deleted"
        \/ \E c \in Checks : sending[c] = e

\* Checks have only stored events in hand, and none when they are idle.
HandStored ==
    \A c \in Checks :
        /\ \A e \in InHand(c) : status[e] # "none"
        /\ pc[c] = "idle" => hand[c] = {}

RemindInv ==
    /\ TypeOK
    /\ Contested
    /\ HandUnseen
    /\ OnceMarked
    /\ HandStored
    /\ NotTwice

-----------------------------------------------------------------------------
LEMMA RemindInvInit == Init => RemindInv
<1> SUFFICES ASSUME Init PROVE RemindInv
  OBVIOUS
<1>1. \A c \in Checks : InHand(c) = {}
  BY DEF Init, InHand
<1>2. TypeOK
  BY EventActionsAssumption DEF Init, TypeOK, Statuses, Open
<1>3. Contested /\ HandUnseen /\ OnceMarked /\ HandStored /\ NotTwice
  BY <1>1 DEF Init, Contested, HandUnseen, OnceMarked, HandStored, NotTwice
<1> QED
  BY <1>2, <1>3 DEF RemindInv

\* A check that goes on keeps the invariant: it pushes one of the events in S, of
\* which none has been reminded of once, and has the others left.
LEMMA RemindGoesOn ==
    ASSUME RemindInv, NEW c \in Checks, NEW S \in SUBSET Events, NEW count,
           count \in [Events -> {"none", "once", "excused"}],
           \A e \in Events : count[e] \in {reminders[e], "excused"},
           \A e \in S : count[e] # "once" /\ status[e] # "none",
           \A d \in Checks \ {c}, e \in S : e \in InHand(d) => count[e] = "excused",
           \/ pc[c] = "idle"
           \/ sending[c] = None
           \/ sending[c] \in triggered'
           \/ status[sending[c]] = "deleted"
           \/ count[sending[c]] = "excused",
           status' = status,
           triggered \subseteq triggered',
           triggered' \subseteq Events,
           failures' \in Nat,
           UNCHANGED <<page, clicks>>,
           Remind(c, S, count)
    PROVE  RemindInv'
<1> USE DEF RemindInv
<1>1. TypeOK'
  <2>1. CASE S = {} /\ pc' = [pc EXCEPT ![c] = "idle"] /\ hand' = [hand EXCEPT ![c] = {}]
             /\ sending' = [sending EXCEPT ![c] = None] /\ reminders' = count
             /\ UNCHANGED notices
    BY <2>1, EventActionsAssumption DEF TypeOK, clicks
  <2>2. ASSUME NEW e \in S,
               pc' = [pc EXCEPT ![c] = "send"],
               hand' = [hand EXCEPT ![c] = S \ {e}],
               sending' = [sending EXCEPT ![c] = e],
               notices' = notices \union {e},
               reminders' = [count EXCEPT ![e] =
                    CASE @ = "none" -> "once" [] @ = "once" -> "twice" [] OTHER -> @]
        PROVE  TypeOK'
    <3>1. reminders' \in [Events -> {"none", "once", "twice", "excused"}]
      BY <2>2
    <3> QED
      BY <2>2, <3>1, EventActionsAssumption DEF TypeOK, clicks
  <2> QED
    BY <2>1, <2>2 DEF Remind
<1>2. /\ \A d \in Checks \ {c} : hand'[d] = hand[d] /\ sending'[d] = sending[d] /\ pc'[d] = pc[d]
      /\ hand'[c] \subseteq S
      /\ sending'[c] \in S \union {None}
      /\ sending'[c] \notin hand'[c]
      /\ pc'[c] = "idle" => hand'[c] = {}
  BY EventActionsAssumption DEF Remind, TypeOK
<1>3. \A e \in Events : e # sending'[c] => reminders'[e] = count[e]
  BY DEF Remind, TypeOK
<1>4. \A e \in Events : e = sending'[c] => reminders'[e] = IF count[e] = "none" THEN "once" ELSE "excused"
  BY EventActionsAssumption DEF Remind, TypeOK
<1>5. \A e \in Events : count[e] = "excused" => reminders'[e] = "excused"
  BY <1>3, <1>4
<1>6. \A d \in Checks \ {c} : InHand(d)' = InHand(d)
  BY <1>2 DEF InHand
<1>7. InHand(c)' \subseteq S
  BY <1>2 DEF InHand
<1>8. Contested'
  BY <1>5, <1>6, <1>7 DEF Contested
<1>9. HandUnseen'
  <2> SUFFICES ASSUME NEW d \in Checks, NEW e \in hand'[d]
               PROVE  reminders'[e] \in {"none", "excused"} /\ e # sending'[d]
    BY DEF HandUnseen
  <2>1. CASE d = c
    BY <2>1, <1>2, <1>3
  <2>2. CASE d # c
    <3>1. e \in Events /\ e \in hand[d] /\ e \in InHand(d) /\ reminders[e] \in {"none", "excused"}
      BY <2>2, <1>2 DEF HandUnseen, InHand, TypeOK
    <3>2. CASE e = sending'[c]
      BY <2>2, <3>1, <3>2, <1>2, <1>4, EventActionsAssumption DEF HandUnseen
    <3>3. CASE e # sending'[c]
      BY <2>2, <3>1, <3>3, <1>2, <1>3 DEF HandUnseen
    <3> QED
      BY <3>2, <3>3
  <2> QED
    BY <2>1, <2>2
<1>10. OnceMarked'
  <2> SUFFICES ASSUME NEW e \in Events, reminders'[e] = "once",
                      \A d \in Checks : sending'[d] # e
               PROVE  e \in triggered' \/ status'[e] = "deleted"
    BY DEF OnceMarked
  <2>1. count[e] = "once" /\ reminders[e] = "once"
    BY <1>3
  <2>2. PICK d \in Checks : e \in triggered \/ status[e] = "deleted" \/ sending[d] = e
    BY <2>1 DEF OnceMarked
  <2>3. CASE sending[d] = e
    <3>1. d = c
      BY <2>3, <1>2
    <3>2. pc[c] = "send" /\ sending[c] # None
      BY <2>3, <3>1, EventActionsAssumption DEF TypeOK
    <3> QED
      BY <2>1, <2>3, <3>1, <3>2
  <2> QED
    BY <2>2, <2>3
<1>11. HandStored'
  BY <1>2, <1>6, <1>7 DEF HandStored
<1>12. NotTwice'
  BY <1>3, <1>4 DEF NotTwice
<1> QED
  BY <1>1, <1>8, <1>9, <1>10, <1>11, <1>12

\* Nothing that a check has in hand or that has been reminded of is touched.
LEMMA ChecksApart ==
    ASSUME RemindInv, TypeOK',
           UNCHANGED <<checks, reminders>>,
           \A c \in Checks : pc'[c] = pc[c],
           \A e \in Events : status'[e] = "none" => status[e] = "none",
           \A e \in Events : status[e] = "deleted" => status'[e] = "deleted",
           \A e \in triggered : e \in triggered' \/ status'[e] = "deleted"
    PROVE  RemindInv'
<1>1. \A c \in Checks : InHand(c)' = InHand(c)
  BY DEF InHand, checks
<1>2. Contested' /\ HandUnseen' /\ NotTwice'
  BY <1>1 DEF RemindInv, Contested, HandUnseen, NotTwice, checks
<1>3. OnceMarked'
  BY DEF RemindInv, OnceMarked, TypeOK, checks
<1>4. HandStored'
  BY <1>1, EventActionsAssumption DEF RemindInv, HandStored, InHand, TypeOK, checks
<1> QED
  BY <1>2, <1>3, <1>4 DEF RemindInv

LEMMA RemindInvCheck ==
    ASSUME RemindInv, NEW c \in Checks, Check(c)
    PROVE  RemindInv'
<1> USE DEF RemindInv
<1> PICK S \in SUBSET Candidates \ {{}} :
        LET count == Excuse({e \in S : \E d \in Checks : e \in InHand(d)}) IN
        \/ Remind(c, S, count)
        \/ /\ pc' = [pc EXCEPT ![c] = "gemini"]
           /\ hand' = [hand EXCEPT ![c] = S]
           /\ reminders' = count
           /\ UNCHANGED <<sending, notices>>
  BY DEF Check
<1> DEFINE count == Excuse({e \in S : \E d \in Checks : e \in InHand(d)})
<1>0. pc[c] = "idle" /\ UNCHANGED <<server, page, clicks, failures>>
  BY DEF Check
<1>1. sending[c] = None /\ InHand(c) = {}
  BY <1>0, EventActionsAssumption DEF TypeOK, HandStored, InHand
<1>2. S \in SUBSET Events
  BY DEF Candidates
<1>3. \A e \in Events : count[e] \in {reminders[e], "excused"}
  BY DEF Excuse
<1>4. count \in [Events -> {"none", "once", "excused"}]
  BY DEF Excuse, TypeOK, NotTwice
<1>5. \A d \in Checks, e \in S : e \in InHand(d) => count[e] = "excused"
  BY <1>2 DEF Excuse
<1>6. ASSUME NEW e \in S PROVE count[e] # "once" /\ status[e] \in Open
  <2>1. e \in Events /\ status[e] \in Open /\ e \notin triggered
    BY DEF Candidates
  <2>2. ASSUME count[e] = "once" PROVE FALSE
    <3>1. reminders[e] = "once"
      BY <2>1, <2>2, <1>3
    <3>2. PICK d \in Checks : sending[d] = e
      BY <2>1, <3>1 DEF OnceMarked, Open
    <3>3. e \in InHand(d)
      BY <2>1, <3>2, EventActionsAssumption DEF InHand
    <3> QED
      BY <2>2, <3>3, <1>5
  <2> QED
    BY <2>1, <2>2
<1> HIDE DEF count
<1>7. CASE Remind(c, S, count)
  <2>1. UNCHANGED <<page, clicks>> /\ failures' \in Nat /\ status' = status
        /\ triggered \subseteq triggered' /\ triggered' \subseteq Events
    BY <1>0 DEF server, TypeOK
  <2>2. \A e \in S : count[e] # "once" /\ status[e] # "none"
    BY <1>6 DEF Open
  <2> QED
    BY <1>0, <1>2, <1>3, <1>4, <1>5, <1>7, <2>1, <2>2, RemindGoesOn
<1>8. CASE /\ pc' = [pc EXCEPT ![c] = "gemini"]
           /\ hand' = [hand EXCEPT ![c] = S]
           /\ reminders' = count
           /\ UNCHANGED <<sending, notices>>
  <2>1. TypeOK'
    BY <1>0, <1>1, <1>2, <1>4, <1>8, EventActionsAssumption DEF TypeOK, server, clicks
  <2>2. InHand(c)' = S /\ \A d \in Checks \ {c} : InHand(d)' = InHand(d)
    BY <1>1, <1>8 DEF InHand, TypeOK
  <2>3. Contested'
    BY <1>2, <1>3, <1>5, <1>8, <2>2 DEF Contested
  <2>4. HandUnseen'
    <3> SUFFICES ASSUME NEW d \in Checks, NEW e \in hand'[d]
                 PROVE  reminders'[e] \in {"none", "excused"} /\ e # sending'[d]
      BY DEF HandUnseen
    <3>1. CASE d = c
      BY <3>1, <1>1, <1>2, <1>4, <1>6, <1>8, EventActionsAssumption DEF TypeOK
    <3>2. CASE d # c
      BY <3>2, <1>3, <1>8 DEF HandUnseen, TypeOK
    <3> QED
      BY <3>1, <3>2
  <2>5. OnceMarked'
    BY <1>0, <1>3, <1>8 DEF OnceMarked, server
  <2>6. HandStored'
    BY <1>0, <1>6, <1>8, <2>2 DEF HandStored, server, TypeOK, Open
  <2>7. NotTwice'
    BY <1>4, <1>8 DEF NotTwice
  <2> QED
    BY <2>1, <2>3, <2>4, <2>5, <2>6, <2>7
<1> QED
  BY <1>7, <1>8 DEF count

LEMMA RemindInvOwn ==
    ASSUME RemindInv, NEW c \in Checks, GeminiAnswers(c) \/ Sent(c) \/ MarkFails(c)
    PROVE  RemindInv'
<1> USE DEF RemindInv
<1>1. reminders \in [Events -> {"none", "once", "excused"}]
  BY DEF TypeOK, NotTwice
<1>2. ASSUME NEW S \in SUBSET hand[c]
      PROVE  /\ S \in SUBSET Events
             /\ \A e \in S : reminders[e] # "once" /\ status[e] # "none"
             /\ \A d \in Checks \ {c}, e \in S : e \in InHand(d) => reminders[e] = "excused"
  BY DEF TypeOK, HandUnseen, HandStored, Contested, InHand
<1>3. CASE GeminiAnswers(c)
  <2>1. PICK S \in SUBSET hand[c] : Remind(c, S, reminders)
    BY <1>3 DEF GeminiAnswers
  <2>2. UNCHANGED <<page, clicks>> /\ failures' \in Nat /\ status' = status
        /\ triggered \subseteq triggered' /\ triggered' \subseteq Events
    BY <1>3 DEF GeminiAnswers, server, TypeOK
  <2>3. sending[c] = None
    BY <1>3 DEF GeminiAnswers, TypeOK
  <2> QED
    BY <1>1, <1>2, <2>1, <2>2, <2>3, RemindGoesOn
<1>4. CASE Sent(c)
  <2>1. UNCHANGED <<page, clicks>> /\ failures' \in Nat /\ status' = status
        /\ triggered \subseteq triggered' /\ triggered' \subseteq Events
    BY <1>4 DEF Sent, TypeOK
  <2>2. sending[c] \in triggered' \/ status[sending[c]] = "deleted"
    <3>1. sending[c] \in Events /\ status[sending[c]] # "none"
      BY <1>4 DEF Sent, TypeOK, HandStored, InHand
    <3> QED
      BY <1>4, <3>1 DEF Sent, TypeOK
  <2>3. Remind(c, hand[c], reminders)
    BY <1>4 DEF Sent
  <2> QED
    BY <1>1, <1>2, <2>1, <2>2, <2>3, RemindGoesOn
<1>5. CASE MarkFails(c)
  <2> DEFINE count == Excuse({sending[c]})
  <2>1. UNCHANGED <<page, clicks>> /\ failures' \in Nat /\ status' = status
        /\ triggered \subseteq triggered' /\ triggered' \subseteq Events
    BY <1>5 DEF MarkFails, Fault, server, TypeOK
  <2>2. sending[c] \in Events
    BY <1>5 DEF MarkFails, TypeOK
  <2>3. /\ count \in [Events -> {"none", "once", "excused"}]
        /\ \A e \in Events : count[e] \in {reminders[e], "excused"}
        /\ count[sending[c]] = "excused"
    BY <1>1, <2>2 DEF Excuse
  <2>4. Remind(c, {}, count)
    BY <1>5 DEF MarkFails
  <2> HIDE DEF count
  <2> QED
    BY <2>1, <2>3, <2>4, RemindGoesOn
<1> QED
  BY <1>3, <1>4, <1>5

LEMMA RemindInvOutside ==
    ASSUME RemindInv,
           \/ \E e \in Events :
                \/ StoreEvent(e)
                \/ LoadPage(e)
                \/ ShowCards(e)
                \/ Dismiss(e)
                \/ Delete(e)
                \/ \E s \in Open : LeavePage(e, s)
           \/ \E u \in Clicks :
                \/ \E e \in Events, s \in UserStatuses : Click(u, e, s)
                \/ Handled(u)
                \/ Refused(u)
    PROVE  RemindInv'
<1> USE EventActionsAssumption DEF server, screen, clicks, checks, history
<1>1. TypeOK
  BY DEF RemindInv
<1>2. ASSUME NEW e \in Events, StoreEvent(e) PROVE RemindInv'
  <2>1. TypeOK'
    BY <1>1, <1>2 DEF StoreEvent, TypeOK, Statuses, Open
  <2> QED
    BY <1>1, <1>2, <2>1, ChecksApart DEF StoreEvent, TypeOK
<1>3. ASSUME NEW e \in Events, LoadPage(e) PROVE RemindInv'
  <2>1. TypeOK'
    BY <1>1, <1>3 DEF LoadPage, TypeOK
  <2> QED
    BY <1>3, <2>1, ChecksApart DEF LoadPage
<1>4. ASSUME NEW e \in Events, ShowCards(e) \/ Dismiss(e) PROVE RemindInv'
  <2>1. TypeOK'
    BY <1>1, <1>4 DEF ShowCards, Dismiss, TypeOK
  <2> QED
    BY <1>4, <2>1, ChecksApart DEF ShowCards, Dismiss
<1>5. ASSUME NEW e \in Events, Delete(e) PROVE RemindInv'
  <2>1. TypeOK'
    BY <1>1, <1>5 DEF Delete, TypeOK
  <2> QED
    BY <1>1, <1>5, <2>1, ChecksApart DEF Delete, TypeOK
<1>6. ASSUME NEW e \in Events, NEW s \in Open, LeavePage(e, s) PROVE RemindInv'
  <2>1. TypeOK'
    BY <1>1, <1>6 DEF LeavePage, TypeOK
  <2> QED
    BY <1>6, <2>1, ChecksApart DEF LeavePage
<1>7. ASSUME NEW u \in Clicks, NEW e \in Events, NEW s \in UserStatuses, Click(u, e, s)
      PROVE  RemindInv'
  <2>1. notices' \subseteq Events
    BY <1>1, <1>7 DEF Click, TypeOK
  <2>2. TypeOK'
    BY <1>1, <1>7, <2>1 DEF Click, TypeOK
  <2>3. \A c \in Checks : pc'[c] = pc[c]
    BY <1>1, <1>7 DEF Click, TypeOK
  <2> QED
    BY <1>7, <2>2, <2>3, ChecksApart DEF Click
<1>8. ASSUME NEW u \in Clicks, Handled(u) PROVE RemindInv'
  <2>1. about[u] \in Events /\ sets[u] \in UserStatuses
    BY <1>1, <1>8 DEF Handled, TypeOK
  <2>2. sets[u] \in Statuses
    BY <2>1 DEF Statuses, Open, Closed
  <2>3. TypeOK'
    BY <1>1, <1>8, <2>1, <2>2 DEF Handled, Answer, TypeOK
  <2>4. \A c \in Checks : pc'[c] = pc[c]
    BY <1>1, <1>8 DEF Handled, Answer, TypeOK
  <2>5. \A e \in Events : status'[e] = status[e] \/ {status[e], status'[e]} \subseteq Statuses
    BY <1>1, <1>8, <2>1, <2>2 DEF Handled, TypeOK
  <2> QED
    BY <1>8, <2>3, <2>4, <2>5, ChecksApart DEF Handled, Statuses, Open, Closed
<1>9. ASSUME NEW u \in Clicks, Refused(u) PROVE RemindInv'
  <2>1. TypeOK'
    BY <1>1, <1>9 DEF Refused, Answer, Fault, TypeOK
  <2>2. \A c \in Checks : pc'[c] = pc[c]
    BY <1>1, <1>9 DEF Refused, Answer, TypeOK
  <2> QED
    BY <1>9, <2>1, <2>2, ChecksApart DEF Refused
<1> QED
  BY <1>2, <1>3, <1>4, <1>5, <1>6, <1>7, <1>8, <1>9

LEMMA RemindInvCrash == RemindInv /\ Crash => RemindInv'
<1> SUFFICES ASSUME RemindInv, Crash PROVE RemindInv'
  OBVIOUS
<1> USE DEF RemindInv
<1>1. \A c \in Checks : InHand(c)' = {}
  BY DEF Crash, InHand
<1>2. \A e \in Events : reminders'[e] \in {reminders[e], "excused"}
  BY DEF Crash, Excuse
<1>3. TypeOK'
  BY <1>2, EventActionsAssumption DEF Crash, Excuse, Fault, TypeOK, screen
<1>4. OnceMarked'
  BY DEF Crash, Excuse, OnceMarked
<1>5. Contested' /\ HandUnseen' /\ HandStored' /\ NotTwice'
  BY <1>1, <1>2 DEF Crash, Contested, HandUnseen, HandStored, NotTwice
<1> QED
  BY <1>3, <1>4, <1>5

LEMMA RemindInvNext == RemindInv /\ [Next]_vars => RemindInv'
<1> SUFFICES ASSUME RemindInv, [Next]_vars PROVE RemindInv'
  OBVIOUS
<1>1. CASE UNCHANGED vars
  <2>1. TypeOK'
    BY <1>1 DEF RemindInv, TypeOK, vars, server, checks, screen, clicks, history
  <2> QED
    BY <1>1, <2>1, ChecksApart DEF vars, server, history
<1>2. CASE Next
  BY <1>2, RemindInvCheck, RemindInvOwn, RemindInvOutside, RemindInvCrash DEF Next
<1> QED
  BY <1>1, <1>2

THEOREM RemindInvAlways == Spec => []RemindInv
BY RemindInvInit, RemindInvNext, PTL DEF Spec

\* TypeOK is an invariant of EventActions, for all values of its constants.
THEOREM EventActionsTypeCorrect == Spec => []TypeOK
<1>1. RemindInv => TypeOK
  BY DEF RemindInv
<1> QED
  BY <1>1, RemindInvAlways, PTL

-----------------------------------------------------------------------------
\* A check that goes on with S does nothing about an event that is not in S.
LEMMA RemindElsewhere ==
    ASSUME TypeOK, NEW c \in Checks, NEW S \in SUBSET Events, NEW count,
           Remind(c, S, count), NEW e \in Events, e \notin S,
           \A d \in Checks : e \notin InHand(d)
    PROVE  /\ \A d \in Checks : e \notin InHand(d)'
           /\ e \in notices' => e \in notices
<1>1. ASSUME NEW d \in Checks PROVE e \notin hand'[d] /\ e # sending'[d]
  BY <1>1, EventActionsAssumption DEF Remind, TypeOK, InHand
<1>2. e \in notices' => e \in notices
  BY DEF Remind
<1> QED
  BY <1>1, <1>2 DEF InHand

\* A step of a check leaves alone what is no candidate and in no check's hand.
LEMMA CheckElsewhere ==
    ASSUME RemindInv, NEW c \in Checks,
           Check(c) \/ GeminiAnswers(c) \/ Sent(c) \/ MarkFails(c),
           NEW e \in Events, e \notin Candidates,
           \A d \in Checks : e \notin InHand(d)
    PROVE  /\ \A d \in Checks : e \notin InHand(d)'
           /\ e \in notices' => e \in notices
<1>1. TypeOK
  BY DEF RemindInv
<1>3. \A d \in Checks : e \notin InHand(d)
  OBVIOUS
<1>4. e \notin Candidates /\ Candidates \subseteq Events
  BY DEF Candidates
<1>5. e \notin hand[c] /\ hand[c] \subseteq Events
  BY <1>1, <1>3 DEF InHand, TypeOK
<1>7. CASE Check(c)
  <2>1. PICK S \in SUBSET Candidates \ {{}} :
        LET count == Excuse({f \in S : \E d \in Checks : f \in InHand(d)}) IN
        \/ Remind(c, S, count)
        \/ /\ pc' = [pc EXCEPT ![c] = "gemini"]
           /\ hand' = [hand EXCEPT ![c] = S]
           /\ reminders' = count
           /\ UNCHANGED <<sending, notices>>
    BY <1>7 DEF Check
  <2>2. e \notin S /\ S \in SUBSET Events
    BY <1>4
  <2>3. CASE hand' = [hand EXCEPT ![c] = S] /\ UNCHANGED <<sending, notices>>
    <3>1. \A d \in Checks : e \notin hand'[d]
      BY <1>1, <1>3, <2>2, <2>3 DEF InHand, TypeOK
    <3> QED
      BY <1>3, <2>3, <3>1 DEF InHand
  <2> QED
    BY <1>1, <1>3, <2>1, <2>2, <2>3, RemindElsewhere
<1>8. CASE GeminiAnswers(c)
  <2>1. PICK S \in SUBSET hand[c] : Remind(c, S, reminders)
    BY <1>8 DEF GeminiAnswers
  <2> QED
    BY <1>1, <1>3, <1>5, <2>1, RemindElsewhere
<1>9. CASE Sent(c)
  <2>1. Remind(c, hand[c], reminders)
    BY <1>9 DEF Sent
  <2> QED
    BY <1>1, <1>3, <1>5, <2>1, RemindElsewhere
<1>10. CASE MarkFails(c)
  <2>1. Remind(c, {}, Excuse({sending[c]}))
    BY <1>10 DEF MarkFails
  <2> QED
    BY <1>1, <1>3, <2>1, RemindElsewhere
<1> QED
  BY <1>7, <1>8, <1>9, <1>10

LEMMA SettledCheck ==
    ASSUME RemindInv, NEW c \in Checks,
           Check(c) \/ GeminiAnswers(c) \/ Sent(c) \/ MarkFails(c),
           NEW e \in Events, Settled(e)
    PROVE  Settled(e)' /\ (e \in notices' => e \in notices)
<1>1. UNCHANGED <<status, page, clicks>>
  BY DEF Check, GeminiAnswers, Sent, MarkFails, server
<1>2. e \notin Candidates
  BY DEF Settled, Candidates, Open, Closed
<1> QED
  BY <1>1, <1>2, CheckElsewhere DEF Settled, clicks

\* So do the pages, the clicks and the API.
LEMMA SettledOutside ==
    ASSUME RemindInv, NEW e \in Events, Settled(e),
           \/ \E f \in Events :
                \/ StoreEvent(f)
                \/ LoadPage(f)
                \/ ShowCards(f)
                \/ Dismiss(f)
                \/ Delete(f)
                \/ \E s \in Open : LeavePage(f, s)
           \/ \E u \in Clicks :
                \/ \E f \in Events, s \in UserStatuses : Click(u, f, s)
                \/ Handled(u)
                \/ Refused(u)
    PROVE  Settled(e)' /\ (e \in notices' => e \in notices)
<1> USE DEF server, screen, clicks, checks, history
<1>1. TypeOK
  BY DEF RemindInv
<1>2. UNCHANGED checks
  BY DEF StoreEvent, LoadPage, ShowCards, Dismiss, Delete, LeavePage, Click, Handled, Refused
<1>3. \A c \in Checks : e \notin InHand(c)'
  BY <1>2 DEF Settled, InHand
<1>4. status[e] \in {"declined", "completed", "snoozed", "deleted"} /\ "pending" \notin page[e]
  BY DEF Settled, Closed
<1>5. ASSUME NEW f \in Events, StoreEvent(f)
      PROVE  Settled(e)' /\ (e \in notices' => e \in notices)
  BY <1>1, <1>3, <1>4, <1>5 DEF StoreEvent, Settled, TypeOK
<1>6. ASSUME NEW f \in Events, LoadPage(f)
      PROVE  Settled(e)' /\ (e \in notices' => e \in notices)
  BY <1>1, <1>3, <1>4, <1>6 DEF LoadPage, Settled, Open, TypeOK
<1>7. ASSUME NEW f \in Events, ShowCards(f) \/ Dismiss(f)
      PROVE  Settled(e)' /\ (e \in notices' => e \in notices)
  BY <1>3, <1>4, <1>7 DEF ShowCards, Dismiss, Settled, Open
<1>8. ASSUME NEW f \in Events, Delete(f)
      PROVE  Settled(e)' /\ (e \in notices' => e \in notices)
  BY <1>1, <1>3, <1>4, <1>8 DEF Delete, Settled, TypeOK
<1>9. ASSUME NEW f \in Events, NEW s \in Open, LeavePage(f, s)
      PROVE  Settled(e)' /\ (e \in notices' => e \in notices)
  BY <1>1, <1>3, <1>4, <1>9 DEF LeavePage, Settled, TypeOK
<1>10. ASSUME NEW u \in Clicks, NEW f \in Events, NEW s \in UserStatuses, Click(u, f, s)
       PROVE  Settled(e)' /\ (e \in notices' => e \in notices)
  <2>1. f = e => s # "active"
    BY <1>4, <1>10 DEF Click
  <2>2. \A v \in Clicks : about'[v] = e => sets'[v] # "active"
    BY <1>1, <1>10, <2>1 DEF Click, Settled, TypeOK
  <2>3. e \in notices' => e \in notices
    BY <1>10 DEF Click
  <2> QED
    BY <1>3, <1>10, <2>2, <2>3 DEF Click, Settled
<1>11. ASSUME NEW u \in Clicks, Handled(u)
       PROVE  Settled(e)' /\ (e \in notices' => e \in notices)
  <2>1. sets[u] \in UserStatuses /\ (about[u] = e => sets[u] # "active")
    BY <1>1, <1>11 DEF Handled, Settled, TypeOK
  <2>2. status'[e] \in Closed \union {"deleted"}
    BY <1>1, <1>4, <1>11, <2>1, EventActionsAssumption DEF Handled, TypeOK, Closed
  <2>3. \A v \in Clicks : about'[v] = e => sets'[v] # "active"
    BY <1>1, <1>11 DEF Handled, Answer, Settled, TypeOK
  <2> QED
    BY <1>3, <1>11, <2>2, <2>3 DEF Handled, Settled
<1>12. ASSUME NEW u \in Clicks, Refused(u)
       PROVE  Settled(e)' /\ (e \in notices' => e \in notices)
  <2>1. \A v \in Clicks : about'[v] = e => sets'[v] # "active"
    BY <1>1, <1>12 DEF Refused, Answer, Settled, TypeOK
  <2> QED
    BY <1>3, <1>12, <2>1 DEF Refused, Settled
<1> QED
  BY <1>5, <1>6, <1>7, <1>8, <1>9, <1>10, <1>11, <1>12

LEMMA SettledNext ==
    ASSUME RemindInv, [Next]_vars, NEW e \in Events, Settled(e)
    PROVE  Settled(e)' /\ (e \in notices' => e \in notices)
<1>1. CASE Next
  <2>1. CASE Crash
    <3>1. \A c \in Checks : InHand(c)' = {}
      BY <2>1 DEF Crash, InHand
    <3> QED
      BY <2>1, <3>1 DEF Crash, Settled, screen
  <2> QED
    BY <1>1, <2>1, SettledCheck, SettledOutside DEF Next
<1>2. CASE UNCHANGED vars
  <2>1. \A c \in Checks : InHand(c)' = InHand(c)
    BY <1>2 DEF vars, checks, InHand
  <2> QED
    BY <1>2, <2>1 DEF vars, server, screen, clicks, Settled
<1> QED
  BY <1>1, <1>2

-----------------------------------------------------------------------------
LEMMA RemindedNext ==
    ASSUME RemindInv, [Next]_vars, NEW e \in Events, RemindedOf(e), status'[e] # "deleted"
    PROVE  RemindedOf(e)'
<1>1. e \notin Candidates
  BY DEF RemindedOf, Candidates
<1>2. CASE \E c \in Checks : Check(c) \/ GeminiAnswers(c) \/ Sent(c) \/ MarkFails(c)
  <2>1. e \in triggered'
    BY <1>2 DEF RemindedOf, Check, GeminiAnswers, Sent, MarkFails, server
  <2> QED
    BY <1>1, <1>2, <2>1, CheckElsewhere DEF RemindedOf
<1>3. CASE Crash
  <2>1. \A c \in Checks : InHand(c)' = {}
    BY <1>3 DEF Crash, InHand
  <2> QED
    BY <1>3, <2>1 DEF Crash, RemindedOf
<1>4. CASE UNCHANGED checks /\ e \in triggered'
  BY <1>4 DEF RemindedOf, InHand, checks
<1>5. ASSUME NEW f \in Events, Delete(f) PROVE RemindedOf(e)'
  <2>1. e # f
    BY <1>5 DEF Delete, RemindInv, TypeOK
  <2> QED
    BY <1>4, <1>5, <2>1 DEF Delete, RemindedOf
<1> QED
  BY <1>2, <1>3, <1>4, <1>5 DEF Next, vars, server, checks, RemindedOf, StoreEvent, LoadPage,
     ShowCards, Dismiss, LeavePage, Click, Handled, Refused

\* However many messages match an event at whatever times, checks push one reminder
\* for it, unless two had it in hand at a time or the mark was not written; and once it
\* is marked and out of every check's hand, no check takes it in hand again.
THEOREM RemindedOnceHolds == Spec => RemindedOnce
<1>1. RemindInv => NotTwice
  BY DEF RemindInv
<1>2. RemindInv /\ [Next]_vars =>
        [\A e \in Events : RemindedOf(e) => RemindedOf(e)' \/ status'[e] = "deleted"]_vars
  BY RemindedNext
<1> QED
  BY <1>1, <1>2, RemindInvAlways, PTL DEF Spec, RemindedOnce

-----------------------------------------------------------------------------
\* An event that is done with stays so and brings no new notice.
THEOREM SettledForeverHolds == Spec => SettledForever
<1>1. RemindInv /\ [Next]_vars =>
        [\A e \in Events : Settled(e) =>
            /\ Settled(e)'
            /\ e \in notices' => e \in notices]_vars
  BY SettledNext
<1> QED
  BY <1>1, RemindInvAlways, PTL DEF Spec, SettledForever

=============================================================================
