------------------------- MODULE TrainingReminders -------------------------
(***************************************************************************)
(* The second phase of a tick of the training scheduler: reminders about   *)
(* open links.  A pass lists the open links, classifies each of them,      *)
(* queues its messages one by one and commits the marks that they were     *)
(* sent at the end, so that a pass that dies leaves messages without marks. *)
(* A queue that is down is logged, and the reminder counts as sent.        *)
(*                                                                         *)
(* Abstracted: the wording; the three and seven days of the program are    *)
(* FirstAfter and SecondAfter.  Time is counted in parts of a day, because *)
(* the last reminder goes by the calendar day and the other two by the     *)
(* hour; it does not pass during a pass or a request, which take seconds.  *)
(* Each link is a worker's only one (TrainingLinks says when there may be  *)
(* two).                                                                   *)
(***************************************************************************)
EXTENDS Integers, FiniteSets

CONSTANTS
    Links,          \* enrolments
    Channel,        \* [Links -> notification_channel of its trainee]
    HasEmail,       \* links whose trainee has an email
    Leavers,        \* links whose trainee may be deactivated
    Starters,       \* links that may be started; the others go straight to the exam
    Ttls,           \* [Links -> days the link may live]: link_ttl_days of its version
    FirstAfter, SecondAfter,    \* days after the issue: "3d" and "7d"
    Parts,          \* parts of a day
    Horizon,        \* bound: the last part of a day
    MaxOutages,     \* bound: messages the queue does not take
    MaxDeaths       \* bound: passes that die

ASSUME RemindersAssumption ==
    /\ Channel \in [Links -> {"sms", "email", "both"}] 
    /\ HasEmail \cup Leavers \cup Starters \subseteq Links
    /\ Ttls \in [Links -> SUBSET (Nat \ {0})] /\ FirstAfter < SecondAfter
    /\ {FirstAfter, SecondAfter, Parts, Horizon} \subseteq Nat \ {0}
    /\ {MaxOutages, MaxDeaths} \subseteq Nat

VARIABLES
    now,        \* parts of a day
    status,     \* [Links -> status of the enrolment, "none" before it is issued]
    issued, expires,    \* [Links -> time]
    starting,   \* links of which start requests have loaded the ISSUED row
    active,     \* links whose trainee is active
    marks,      \* [Links -> kinds with a reminder_*_sent_at]
    pass,       \* what the pass has listed and marked, Idle between passes
    deaths, outages,
    \* kept for the properties:
    sent,       \* [Links -> [Kinds \X Lanes -> messages taken by the queue]]
    told,       \* [Links -> {<<kind, day>>: a message was taken}]
    gap         \* links that a part of a day went by for without a look at them

link == <<status, issued, expires, starting>>
history == <<sent, told, gap>>
vars == <<now, link, active, marks, pass, deaths, outages, history>>

Kinds == {"3d", "7d", "final"}
Lanes == {"sms", "email"}
\* A link is reopened when it is STARTED and its attempt has been submitted.
OpenStates == {"issued", "started", "reopened"}
Idle == [running |-> FALSE, todo |-> {}, marked |-> {}, seen |-> {}]

Day(t) == t \div Parts
Listed(l) == status[l] \in OpenStates /\ expires[l] > now

-----------------------------------------------------------------------------
\* _classify_reminder(): the kinds that are due; `marks` as the pass read them.
IsFinalDay(l) == Day(expires[l]) = Day(now)
After(l, days) == now >= issued[l] + days * Parts

\* Mutant: the second reminder is due when the first one is.
BothAfter(l, kind) ==
    CASE kind = "final" -> IsFinalDay(l) /\ "final" \notin marks[l]
      [] kind = "7d" -> ~IsFinalDay(l) /\ After(l, FirstAfter) /\ "7d" \notin marks[l]
      [] kind = "3d" -> After(l, FirstAfter) /\ "3d" \notin marks[l]

IsDue(l, kind) ==
    CASE kind = "final" -> IsFinalDay(l) /\ "final" \notin marks[l]
      [] kind = "7d" -> ~IsFinalDay(l) /\ After(l, SecondAfter) /\ "7d" \notin marks[l]
      [] kind = "3d" -> After(l, FirstAfter) /\ "3d" \notin marks[l]

Classify(l) ==
    IF IsDue(l, "final") THEN "final"
    ELSE IF IsDue(l, "7d") THEN "7d"
    ELSE IF IsDue(l, "3d") THEN "3d" ELSE "none"

\* The channels of the trainee; one without an address gets a text instead.
LanesOf(l) ==
    {lane \in Lanes :
        \/ lane = "email" /\ Channel[l] # "sms" /\ l \in HasEmail
        \/ lane = "sms" /\ (Channel[l] # "email" \/ l \notin HasEmail)}

-----------------------------------------------------------------------------
\* enrol(), whoever calls it.
Issue(l, ttl) ==
    /\ status[l] = "none" /\ now + ttl * Parts <= Horizon
    /\ status' = [status EXCEPT ![l] = "issued"]
    /\ issued' = [issued EXCEPT ![l] = now]
    /\ expires' = [expires EXCEPT ![l] = now + ttl * Parts]
    /\ UNCHANGED <<now, starting, active, marks, pass, deaths, outages, history>>

\* The worker opens the training and submits it, also while a pass is running.  A
\* start request reads the row as ISSUED and writes STARTED, over SUBMITTED too.
LoadStart(l) ==
    /\ Listed(l) /\ status[l] = "issued"
    /\ starting' = starting \cup {l}
    /\ UNCHANGED <<now, status, issued, expires, active, marks, pass, deaths, outages, history>>

WriteStart(l) ==
    /\ l \in starting
    /\ status' = [status EXCEPT ![l] = IF @ \in {"issued", "started"} THEN "started"
                                      ELSE "reopened"]
    /\ starting' \in {starting, starting \ {l}}    \* another tap may be under way
    /\ UNCHANGED <<now, issued, expires, active, marks, pass, deaths, outages, history>>

Submit(l) ==
    /\ Listed(l) /\ status[l] # "reopened"
    /\ status' = [status EXCEPT ![l] = "submitted"]
    /\ UNCHANGED <<now, issued, expires, starting, active, marks, pass, deaths, outages, history>>

\* An administrator deactivates the trainee, or activates again.
SetActive(l) ==
    /\ Listed(l)
    /\ active' = IF l \in active THEN active \ {l} ELSE active \cup {l}
    /\ gap' = gap \cup {l}
    /\ UNCHANGED <<now, link, marks, pass, deaths, outages, sent, told>>

\* A part of a day passes; links that no pass has looked at in it have a gap.
Tick ==
    /\ ~pass.running /\ starting = {} /\ now < Horizon
    /\ now' = now + 1
    /\ gap' = gap \cup {l \in Links : Listed(l) /\ l \notin pass.seen}
    /\ pass' = Idle
    /\ UNCHANGED <<link, active, marks, deaths, outages, sent, told>>

-----------------------------------------------------------------------------
\* send_pending_reminders(): the list, then a reminder after the other, then the
\* commit of the marks.  Submitted links are the ones that the list leaves out and
\* that may be open again before this part of the day is over.

\* Mutant: links that were opened are not reminded of.
ListUnopened ==
    /\ ~pass.running
    /\ pass' = [running |-> TRUE, todo |-> {l \in Links : status[l] = "issued" /\ expires[l] > now},
                marked |-> {}, seen |-> {l \in Links : status[l] # "submitted"}]
    /\ UNCHANGED <<now, link, active, marks, deaths, outages, history>>

List ==
    /\ ~pass.running
    /\ pass' = [running |-> TRUE, todo |-> {l \in Links : Listed(l)},
                marked |-> {}, seen |-> {l \in Links : status[l] # "submitted"}]
    /\ UNCHANGED <<now, link, active, marks, deaths, outages, history>>

Skip(l) ==
    /\ pass.running /\ l \in pass.todo
    /\ Classify(l) = "none" \/ l \notin active
    /\ pass' = [pass EXCEPT !.todo = @ \ {l}]
    /\ UNCHANGED <<now, link, active, marks, deaths, outages, history>>

\* `up` are the lanes whose queue takes the message; the mark is set anyway.
Remind(l, up) ==
    LET kind == Classify(l)
    IN  /\ pass.running /\ l \in pass.todo /\ kind # "none" /\ l \in active
        /\ up \subseteq LanesOf(l)
        /\ outages' = outages + Cardinality(LanesOf(l) \ up) /\ outages' <= MaxOutages
        /\ sent' = [sent EXCEPT ![l] = [x \in Kinds \X Lanes |->
                       IF x[1] = kind /\ x[2] \in up THEN @[x] + 1 ELSE @[x]]]
        /\ told' = [told EXCEPT ![l] = IF up = {} THEN @ ELSE @ \cup {<<kind, Day(now)>>}]
        /\ pass' = [pass EXCEPT !.todo = @ \ {l}, !.marked = @ \cup {<<l, kind>>}]
        /\ UNCHANGED <<now, link, active, marks, deaths, gap>>

\* Mutant: a mark replaces the ones before it.
CommitLast ==
    /\ pass.running /\ pass.todo = {}
    /\ marks' = [l \in Links |-> IF \E k \in Kinds : <<l, k>> \in pass.marked
                                 THEN {k \in Kinds : <<l, k>> \in pass.marked} ELSE marks[l]]
    /\ pass' = [Idle EXCEPT !.seen = pass.seen]
    /\ UNCHANGED <<now, link, active, deaths, outages, history>>

Commit ==
    /\ pass.running /\ pass.todo = {}
    /\ marks' = [l \in Links |-> marks[l] \cup {k \in Kinds : <<l, k>> \in pass.marked}]
    /\ pass' = [Idle EXCEPT !.seen = pass.seen]
    /\ UNCHANGED <<now, link, active, deaths, outages, history>>

\* An error, or the process is stopped: the marks are rolled back.
Die ==
    /\ pass.running /\ deaths < MaxDeaths
    /\ pass' = Idle /\ deaths' = deaths + 1
    /\ UNCHANGED <<now, link, active, marks, outages, history>>

Init ==
    /\ now = 0 /\ status = [l \in Links |-> "none"]
    /\ issued = [l \in Links |-> 0] /\ expires = [l \in Links |-> 0]
    /\ starting = {} /\ active = Links /\ marks = [l \in Links |-> {}]
    /\ pass = Idle /\ deaths = 0 /\ outages = 0
    /\ sent = [l \in Links |-> [x \in Kinds \X Lanes |-> 0]]
    /\ told = [l \in Links |-> {}] /\ gap = {}

Next ==
    \/ Tick \/ List \/ Commit \/ Die
    \/ \E l \in Links :
          \/ \E ttl \in Ttls[l] : Issue(l, ttl)
          \/ l \in Starters /\ LoadStart(l)
          \/ WriteStart(l) \/ Submit(l)
          \/ l \in Leavers /\ SetActive(l)
          \/ Skip(l) \/ \E up \in SUBSET Lanes : Remind(l, up)

Spec == Init /\ [][Next]_vars

-----------------------------------------------------------------------------
\* Properties.

TypeOK ==
    /\ now \in 0..Horizon /\ status \in [Links -> OpenStates \cup {"none", "submitted"}]
    /\ marks \in [Links -> SUBSET Kinds]
    /\ starting \subseteq Links /\ active \subseteq Links /\ gap \subseteq Links
    /\ deaths \in 0..MaxDeaths /\ outages \in 0..MaxOutages

\* "A single enrolment never gets the same reminder kind twice", but for a pass
\* that died after it had queued it: once more for each such pass, on each channel.
RemindedOnce ==
    \A l \in Links, k \in Kinds, lane \in Lanes : sent[l][<<k, lane>>] <= 1 + deaths

\* A worker is not reminded of a link twice a day, when the scheduler has looked
\* at the link in every part of a day so far and no pass died.
OneReminderADay ==
    \A l \in Links \ gap : deaths = 0 =>
        \A x, y \in told[l] : x[2] = y[2] => x = y

\* Whoever lets a link expire has been told on its last day that it would (if the
\* day had begun before the moment of the day at which the link was issued).
LastCall ==
    \A l \in Links \ gap :
        /\ status[l] \in OpenStates /\ expires[l] <= now
        /\ expires[l] % Parts # 0
        => "final" \in marks[l] /\ (outages = 0 => \E day \in 0..Day(now) : <<"final", day>> \in told[l])
=============================================================================
