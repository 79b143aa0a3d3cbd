-------------------------------- MODULE Now ---------------------------------
(***************************************************************************)
(* One context event in NOW: the linker's rules file it (rules.ts), the    *)
(* user decides about it (the context_event actions), the hours pass, and  *)
(* deriveNow puts it into a bucket.  Scores depend on nothing but the      *)
(* row, its appointment, its threads and the clock.                        *)
(*                                                                         *)
(* Time is in hours; it moves from one instant of Instants to a later one. *)
(* A row whose occurredAt does not parse occurred at None: older than any  *)
(* window.                                                                 *)
(***************************************************************************)
EXTENDS Integers

CONSTANTS
  Instants,     \* the hours at which somebody looks or decides, 0 the first
  Starts,       \* when appointments start and other things fall due
  Importances,  \* of what no rule files: a row may say 0 to 100
  Zones,        \* hours the device is ahead of UTC
  MaxDecisions, \* bound: what the user does
  None          \* null

NowAssumption ==
  /\ Instants \subseteq Nat /\ 0 \in Instants
  /\ Starts \subseteq Int /\ Importances \subseteq 0..100 /\ Zones \subseteq -12..14
  /\ MaxDecisions \in Nat /\ None \notin Int

VARIABLES
  clock,      \* deriveNow's now
  event,      \* the context event, with the bounds of its appointment
  threaded,   \* an edge ties its subject to a thread
  settled,    \* the keys of snoozes that have been done
  said,       \* ghost: the user's last decision, and whether it was carried out
  decisions

vars == <<clock, event, threaded, settled, said, decisions>>

Day == 24
Window == 48   \* changedWindowHours

-----------------------------------------------------------------------------
(* rules.ts: what the linker makes of a message, an appointment, a         *)
(* transaction.  `at' is the clock when it first sees it.                  *)

Row(importance, attention, occurred) ==
  [importance |-> importance, attention |-> attention, snoozedUntil |-> None,
   occurred |-> occurred, appointment |-> FALSE, start |-> None, end |-> None]

MAIL_QUIET_AFTER == 14 * Day
MailAttention(received, at) ==
  IF at - received > MAIL_QUIET_AFTER THEN "quiet" ELSE "needs_attention"

\* Sent; read; unread; unread from somebody known, with an attachment.
FromMail(at) ==
  {Row(15, "quiet", at)} \cup
  {Row(importance, MailAttention(received, at), received) :
     importance \in {25, 45, 60}, received \in {at, at - Window, at - MAIL_QUIET_AFTER - 1}}

\* The size of the amount decides.
FromMoney(at) == {Row(importance, "needs_attention", at) : importance \in {30, 50}}

\* All-day dates are stored as midnights in UTC; they are meant on the device.
Bounds(start, length, allDay, zone) ==
  LET shift == IF allDay THEN zone ELSE 0
  IN  [start |-> start - shift, end |-> start + length - shift]

TimeImportance(start, end, at) == IF end >= at /\ start - at <= 48 THEN 55 ELSE 35
TimeAttention(end, at) == IF end < at THEN "quiet" ELSE "needs_attention"

\* The rules go by the stored instants, NOW by the real ones.
Appointment(start, allDay, zone, cancelled, at) ==
  LET length == IF allDay THEN Day ELSE 1
      stored == Bounds(start, length, FALSE, 0)
      real == Bounds(start, length, allDay, zone)
  IN  [Row(IF cancelled THEN 50 ELSE TimeImportance(stored.start, stored.end, at),
           TimeAttention(stored.end, at), at)
       EXCEPT !.appointment = TRUE, !.start = real.start, !.end = real.end]

FromTime(at) ==
  {Appointment(start, allDay, zone, cancelled, at) :
     start \in Starts, allDay \in BOOLEAN, zone \in Zones, cancelled \in BOOLEAN}

\* What else has a due date: the prompt of a handoff, and whatever is to come.
WithDueDate(at) ==
  {[Row(importance, "needs_attention", occurred) EXCEPT !.start = due] :
     importance \in {60} \cup Importances, occurred \in {at, None}, due \in Starts}

-----------------------------------------------------------------------------
(* deriveNow.                                                              *)

Age(e) == IF e.occurred = None THEN MAIL_QUIET_AFTER * 100 ELSE clock - e.occurred

Over(e) == e.appointment /\ clock > e.end
Overdue(e) == ~e.appointment /\ e.start # None /\ e.start <= clock

Timeliness(e) ==
  IF Over(e) THEN -20
  ELSE IF e.start = None THEN 0
  ELSE IF e.start <= clock THEN (IF e.appointment THEN 20 ELSE 30)
  ELSE IF e.start - clock <= Day THEN 25
  ELSE IF e.start - clock <= 2 * Day THEN 15
  ELSE IF e.start - clock <= 7 * Day THEN 5
  ELSE 0

\* Age is a reason to forget anything but what is past due.
Recent(e) == Age(e) \in 0..6
AgedAnyway(e) == IF Recent(e) THEN 10 ELSE IF Age(e) > Window THEN -15 ELSE 0
Freshness(e) == IF Recent(e) THEN 10 ELSE IF Age(e) > Window /\ ~Overdue(e) THEN -15 ELSE 0

Score(e) == e.importance + Timeliness(e) + Freshness(e) + (IF threaded THEN 8 ELSE 0)

Snoozed(e) == e.attention = "quiet" /\ e.snoozedUntil # None
SnoozeElapsed(e) == Snoozed(e) /\ e.snoozedUntil <= clock

Bucket(e) ==
  IF e.attention = "dismissed" THEN "none"
  ELSE IF (e.attention = "quiet" /\ ~SnoozeElapsed(e)) \/ Over(e) THEN "quiet"
  ELSE IF Score(e) >= 70 THEN "needs_me"
  ELSE IF Score(e) >= 45 /\ Age(e) <= Window THEN "changed"
  ELSE IF Score(e) >= 20 THEN "can_wait"
  ELSE "quiet"

-----------------------------------------------------------------------------
Init ==
  /\ clock = 0
  /\ event \in FromMail(0) \cup FromMoney(0) \cup FromTime(0) \cup WithDueDate(0)
  /\ threaded \in BOOLEAN
  /\ settled = {} /\ decisions = 0
  /\ said = [what |-> "nothing", until |-> None, done |-> TRUE]

Tick ==
  /\ \E t \in Instants : t > clock /\ clock' = t
  /\ UNCHANGED <<event, threaded, settled, said, decisions>>

Attach ==
  /\ ~threaded /\ threaded' = TRUE
  /\ UNCHANGED <<clock, event, settled, said, decisions>>

Decide(what, until, done) ==
  /\ decisions < MaxDecisions /\ decisions' = decisions + 1
  /\ said' = [what |-> what, until |-> until, done |-> done]
  /\ UNCHANGED <<clock, threaded>>

\* NOW offers "Later" and "Dismiss", Quiet "Needs attention" and "Dismiss"; a
\* snooze comes with a notification.  What is dismissed is offered nowhere.
Offered == event.attention # "dismissed"

\* A quiet ends a snooze: left in place it would make the row compete again.
QuietBesideSnooze ==
  /\ Offered /\ Decide("quiet", None, TRUE)
  /\ event' = [event EXCEPT !.attention = "quiet"]
  /\ UNCHANGED settled

Quiet ==
  /\ Offered /\ Decide("quiet", None, TRUE)
  /\ event' = [event EXCEPT !.attention = "quiet", !.snoozedUntil = None]
  /\ UNCHANGED settled

Attend ==
  /\ Offered /\ Decide("attend", None, TRUE)
  /\ event' = [event EXCEPT !.attention = "needs_attention", !.snoozedUntil = None]
  /\ UNCHANGED settled

\* The key of a snooze is the event and the instant: the same one again is
\* answered from the first, and nothing is done.
Snooze(until) ==
  /\ Offered /\ until > clock /\ Decide("snooze", until, until \notin settled)
  /\ settled' = settled \cup {until}
  /\ event' = IF until \in settled THEN event
              ELSE [event EXCEPT !.attention = "quiet", !.snoozedUntil = until]

\* A dismissal says nothing of the snooze.
Dismiss ==
  /\ Offered /\ Decide("dismiss", None, TRUE)
  /\ event' = [event EXCEPT !.attention = "dismissed"]
  /\ UNCHANGED settled

Next == Tick \/ Attach \/ Quiet \/ Attend \/ Dismiss \/ \E until \in Instants : Snooze(until)

Spec == Init /\ [][Next]_vars

-----------------------------------------------------------------------------
(* What the user put aside stays aside, whatever was snoozed before and    *)
(* however long ago; what was brought back, or whose snooze is over,       *)
(* stands where it would have stood untouched.  (Of decisions that were    *)
(* carried out: a snooze may be answered from an earlier one.)             *)
DecisionsHold ==
  LET untouched == [event EXCEPT !.attention = "needs_attention", !.snoozedUntil = None]
  IN  said.done =>
        /\ said.what = "quiet" => Bucket(event) = "quiet"
        /\ said.what = "dismiss" => Bucket(event) = "none"
        /\ said.what = "attend" \/ (said.what = "snooze" /\ said.until <= clock) =>
             Bucket(event) = Bucket(untouched)

(* Once past due and past the bonus for being new, what needs me does so   *)
(* until I say otherwise: time alone does not make a debt fade.            *)
DebtsDoNotFade ==
  [][ (clock' > clock /\ Overdue(event) /\ ~Recent(event) /\ Bucket(event) = "needs_me")
      => Bucket(event)' = "needs_me" ]_vars

(* A snooze keeps the row quiet until its time.  It does not: snoozed,     *)
(* brought back and snoozed until the same instant, the row stays.         *)
SnoozeHolds ==
  said.what = "snooze" /\ said.until > clock => Bucket(event) = "quiet"
=============================================================================
