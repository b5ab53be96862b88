--------------------------- MODULE TrainingLinks ---------------------------
(***************************************************************************)
(* Magic links of worker training: who is issued one and when the worker   *)
(* is due again.  Four programs issue links from their own transactions:   *)
(* the training scheduler, an administrator's bulk, single or dry-run      *)
(* issue, and the training responder of the trigger engine.  enrol() puts  *)
(* the message in the queue before its caller commits, so a transaction    *)
(* that dies leaves a text without a row.                                  *)
(*                                                                         *)
(* Abstracted: names, texts and channels (see TrainingReminders), the      *)
(* token (one per enrolment, good until the row expires), what happens     *)
(* inside an exam (see TrainingExam: here a submission and a declaration   *)
(* are one step each, but the request that starts a link is two, because   *)
(* it may overlap a submission and open the link again), and the audit     *)
(* rows.  Time is a number of days; it does not pass while a transaction   *)
(* or a start request is open, which takes seconds.                        *)
(***************************************************************************)
EXTENDS Integers, Sequences, FiniteSets

CONSTANTS
    Trainees, Courses,
    Leavers,            \* trainees whose is_active an administrator changes
    Role, Line,         \* [Trainees -> ...], trainees.role_code and line_id
    Assignments,        \* set of [course, role, line]; AnyValue is NULL
    AnyValue,
    Scheduler, Evaluator, Admins,   \* the programs that issue links
    LinkTtl,            \* days a link lives: link_ttl_days
    Validity, Lead,     \* days a certificate lasts; the recertification lead
    Horizon,            \* bound: the last day
    MaxRows,            \* bound: enrolments ever issued
    MaxBusy,            \* bound: requests open beside the scheduler's transaction
    MaxDeaths           \* bound: transactions that die

ASSUME LinksAssumption ==
    /\ {LinkTtl, Validity, Horizon, MaxRows, MaxBusy} \subseteq Nat \ {0}
    /\ Lead \in Nat /\ MaxDeaths \in Nat /\ Leavers \subseteq Trainees
    /\ Scheduler # Evaluator /\ Admins \cap {Scheduler, Evaluator} = {}

VARIABLES
    now,
    active,     \* trainees with is_active
    versioned,  \* courses with an active version
    rows,       \* enrolments in the order of their INSERTs, lost ones included
    certs,      \* [Trainees \X Courses -> day]: latest valid_until, 0 when none
    tx,         \* [Issuers -> what the open transaction is doing]
    starting,   \* links of which start requests have loaded the ISSUED row
    deaths      \* transactions that died, for the bound and the properties

vars == <<now, active, versioned, rows, certs, tx, starting, deaths>>
world == <<now, active, versioned, certs, starting>>

Issuers == {Scheduler, Evaluator} \cup Admins
Ids == 1..Len(rows)
New == Len(rows) + 1
Row == [trainee: Trainees, course: Courses, expires: Nat,
        status: {"issued", "started", "submitted"},
        attempt: {"none", "failed", "passed", "declared"},
        db: {"pending", "committed", "lost"},
        seen: SUBSET Nat]   \* this worker's links the issuer saw when it looked, none
                            \* if it did not look; kept for the properties

Idle == [pc |-> "idle", course |-> AnyValue, courses |-> {}, todo |-> {},
         seen |-> {}, mine |-> {}]
\* The next tick follows the last: the process sleeps in between, or starts again.
NextTick == [Idle EXCEPT !.pc = "tick", !.courses = Courses]

-----------------------------------------------------------------------------
\* What a transaction reads.

\* Nobody's view is the committed tables.
Nobody == AnyValue
Visible(p) == {i \in Ids : rows[i].db = "committed" \/ (p # Nobody /\ i \in tx[p].mine)}
Unsubmitted(i) == rows[i].status \in {"issued", "started"}
IsOpen(i) == Unsubmitted(i) /\ rows[i].expires > now
Cell(i) == <<rows[i].trainee, rows[i].course>>

\* Mutant: the expiry is compared the wrong way round.
HasExpiredEnrolment(p, t, c) ==
    \E i \in Visible(p) : Cell(i) = <<t, c>> /\ Unsubmitted(i) /\ rows[i].expires <= now

has_open_enrolment(p, t, c) == \E i \in Visible(p) : Cell(i) = <<t, c>> /\ IsOpen(i)
IsPast(day) == day <= now

assignment_matches(a, t) == a.role \in {AnyValue, Role[t]} /\ a.line \in {AnyValue, Line[t]}
Required(t, c) == \E a \in Assignments : a.course = c /\ assignment_matches(a, t)

is_due_for_recert(p, t, c) ==
    /\ ~has_open_enrolment(p, t, c)
    /\ certs[<<t, c>>] = 0 \/ IsPast(certs[<<t, c>>] - Lead)

trainees_due_for_course(p, c) ==
    {t \in active : Required(t, c) /\ is_due_for_recert(p, t, c)}

\* The compliance matrix of the dashboard, which does not use the functions
\* above but reads certificates and open links once for the whole grid.
\* Mutant: the dashboard counts links that have expired.
OpenPairsForever == {Cell(i) : i \in {k \in Ids : rows[k].db = "committed" /\ Unsubmitted(k)}}

open_pairs == {Cell(i) : i \in {k \in Ids :
    rows[k].db = "committed" /\ Unsubmitted(k) /\ rows[k].expires > now}}

compliance_state(t, c) ==
    LET valid == certs[<<t, c>>] # 0 /\ ~IsPast(certs[<<t, c>>])
    IN  IF <<t, c>> \in open_pairs THEN "in_flight"
        ELSE IF ~Required(t, c) THEN (IF valid THEN "extra" ELSE "not_required")
        ELSE IF ~valid THEN "overdue"
        ELSE IF IsPast(certs[<<t, c>>] - Lead) THEN "due_soon" ELSE "valid"

cleared(t) == \A c \in Courses : compliance_state(t, c) # "overdue"

-----------------------------------------------------------------------------
\* Building blocks of the issuing transactions.

Insert(t, c, db, seen) ==
    /\ c \in versioned
    /\ Len(rows) < MaxRows
    /\ rows' = Append(rows,
             [trainee |-> t, course |-> c, expires |-> now + LinkTtl, status |-> "issued",
              attempt |-> "none", db |-> db, seen |-> {i \in seen : Cell(i) = <<t, c>>}])

\* One row, flushed, and one text in the queue.
enrol(t, c, seen) == Insert(t, c, "pending", seen)

Resolve(p, outcome) ==
    [i \in Ids |-> IF i \in tx[p].mine THEN [rows[i] EXCEPT !.db = outcome] ELSE rows[i]]

\* Mutant: an error in a tick ends the scheduler's loop.
DieForGood(p) ==
    /\ tx[p].pc = "issue" /\ deaths < MaxDeaths
    /\ rows' = Resolve(p, "lost")
    /\ tx' = [tx EXCEPT ![p] = Idle]
    /\ deaths' = deaths + 1
    /\ UNCHANGED world

\* The transaction of p fails or its process dies: rows are rolled back, texts
\* stay queued.
Die(p) ==
    /\ tx[p].pc = "issue" /\ deaths < MaxDeaths
    /\ rows' = Resolve(p, "lost")
    /\ tx' = [tx EXCEPT ![p] = IF p = Scheduler THEN NextTick ELSE Idle]
    /\ deaths' = deaths + 1
    /\ UNCHANGED world

Commit(p) ==
    /\ tx[p].pc = "issue" /\ tx[p].todo = {}
    /\ rows' = Resolve(p, "committed")
    /\ tx' = [tx EXCEPT ![p] = IF p = Scheduler
                               THEN [NextTick EXCEPT !.courses = tx[p].courses \ {tx[p].course}]
                               ELSE Idle]
    /\ UNCHANGED <<world, deaths>>

Busy == {p \in Issuers : tx[p].pc = "issue"}
RoomForOne == Cardinality(Busy \ {Scheduler}) + Cardinality(starting) < MaxBusy
MayBegin(p) == tx[p].pc = "idle" /\ RoomForOne
Issuing(p, c, seen, todo) ==
    [Idle EXCEPT !.pc = "issue", !.course = c, !.seen = seen, !.todo = todo]

-----------------------------------------------------------------------------
\* The scheduler: run_once(), one transaction per course.

PlanCourse(c) ==
    LET due == trainees_due_for_course(Scheduler, c)
    IN  /\ tx[Scheduler].pc = "tick" /\ c \in tx[Scheduler].courses
        /\ tx' = [tx EXCEPT ![Scheduler] =
              IF due = {} THEN [tx[Scheduler] EXCEPT !.courses = @ \ {c}]
              ELSE [Issuing(Scheduler, c, Visible(Scheduler), due) EXCEPT
                        !.courses = tx[Scheduler].courses]]
        /\ UNCHANGED <<world, rows, deaths>>

\* enrol() for one due trainee; a TrainingError (no active version) rolls back
\* whatever the transaction holds and the loop goes on.
ScheduleOne(t) ==
    LET c == tx[Scheduler].course
    IN  /\ tx[Scheduler].pc = "issue" /\ t \in tx[Scheduler].todo
        /\ \/ /\ enrol(t, c, tx[Scheduler].seen)
              /\ tx' = [tx EXCEPT ![Scheduler].todo = @ \ {t}, ![Scheduler].mine = @ \cup {New}]
           \/ /\ c \notin versioned
              /\ rows' = Resolve(Scheduler, "lost")
              /\ tx' = [tx EXCEPT ![Scheduler].todo = @ \ {t}, ![Scheduler].mine = {}]
        /\ UNCHANGED <<world, deaths>>

\* The pass is over; its reminders are the subject of TrainingReminders.
EndTick ==
    /\ tx[Scheduler].pc = "tick" /\ tx[Scheduler].courses = {}
    /\ tx' = [tx EXCEPT ![Scheduler] = NextTick]
    /\ UNCHANGED <<world, rows, deaths>>

-----------------------------------------------------------------------------
\* Administrators and the training responder.

\* plan_bulk_issue() of the selected trainees, then apply_bulk_issue(): the
\* whole selection is checked first and issued afterwards.  Trainees with an open
\* link are skipped, all of them when the course has no active version; selected
\* are the others, inactive ones included.
BulkPlan(a, c, selected) ==
    /\ MayBegin(a) /\ c \in versioned
    /\ \A t \in selected : ~has_open_enrolment(a, t, c)
    /\ tx' = [tx EXCEPT ![a] = Issuing(a, c, Visible(a), selected)]
    /\ UNCHANGED <<world, rows, deaths>>

BulkOne(a, t) ==
    /\ a \in Admins /\ tx[a].pc = "issue" /\ t \in tx[a].todo
    /\ enrol(t, tx[a].course, tx[a].seen)
    /\ tx' = [tx EXCEPT ![a].todo = @ \ {t}, ![a].mine = @ \cup {New}]
    /\ UNCHANGED <<world, deaths>>

\* trainees_issue() and trainee_course_issue() look for no open link: they are
\* the administrator's override.
ManualIssue(a, t, c) ==
    /\ MayBegin(a)
    /\ enrol(t, c, {})
    /\ tx' = [tx EXCEPT ![a] = [Issuing(a, c, {}, {}) EXCEPT !.mine = {New}]]
    /\ UNCHANGED <<world, deaths>>

\* `flask training-issue-link --dry-run`: a committed row and no text.
DryRun(t, c) ==
    /\ Admins # {} /\ Insert(t, c, "committed", {})
    /\ UNCHANGED <<world, tx, deaths>>

\* The responder of a trigger: the active trainees of its audience, each
\* checked just before it is issued a link.
Respond(c, audience) ==
    /\ MayBegin(Evaluator) /\ c \in versioned /\ audience \subseteq active
    /\ tx' = [tx EXCEPT ![Evaluator] = Issuing(Evaluator, c, {}, audience)]
    /\ UNCHANGED <<world, rows, deaths>>

RespondOne(t) ==
    LET c == tx[Evaluator].course
        Skip == has_open_enrolment(Evaluator, t, c) /\ UNCHANGED rows
        Issue == /\ ~has_open_enrolment(Evaluator, t, c)
                 /\ enrol(t, c, Visible(Evaluator))
    IN  /\ tx[Evaluator].pc = "issue" /\ t \in tx[Evaluator].todo
        /\ Skip \/ Issue
        /\ tx' = [tx EXCEPT ![Evaluator].todo = @ \ {t},
                            ![Evaluator].mine = @ \cup (DOMAIN rows' \ Ids)]
        /\ UNCHANGED <<world, deaths>>

-----------------------------------------------------------------------------
\* The trainee, who can use a link while its row is committed and not expired.

Usable(i) == rows[i].db = "committed" /\ rows[i].expires > now

\* The first tap on the link, in two steps: the row is read as ISSUED and then
\* written as STARTED, whatever has been committed in between.  One of several
\* such requests may be done.
LoadStart(i) ==
    /\ Usable(i) /\ rows[i].status = "issued" /\ RoomForOne
    /\ starting' = starting \cup {i}
    /\ UNCHANGED <<now, active, versioned, rows, certs, tx, deaths>>

WriteStart(i) ==
    /\ i \in starting
    /\ rows' = [rows EXCEPT ![i].status = "started"]
    /\ starting' \in {starting, starting \ {i}}
    /\ UNCHANGED <<now, active, versioned, certs, tx, deaths>>

\* The page and submit_attempt() each refuse a second submission, the one by the
\* link's status and the other by the attempt.
Submit(i, passed) ==
    /\ Usable(i) /\ Unsubmitted(i) /\ rows[i].attempt = "none"
    /\ rows' = [rows EXCEPT ![i].status = "submitted",
                            ![i].attempt = IF passed THEN "passed" ELSE "failed"]
    /\ UNCHANGED <<world, tx, deaths>>

\* The declaration of a passed attempt leaves the status of the link alone.
Declare(i) ==
    /\ Usable(i) /\ rows[i].attempt = "passed"
    /\ rows' = [rows EXCEPT ![i].attempt = "declared"]
    /\ certs' = [certs EXCEPT ![Cell(i)] = now + Validity]
    /\ UNCHANGED <<now, active, versioned, starting, tx, deaths>>

SetActive(t) ==
    /\ active' = IF t \in active THEN active \ {t} ELSE active \cup {t}
    /\ UNCHANGED <<now, versioned, rows, certs, tx, starting, deaths>>

\* Mutant: saving a course again withdraws its active version.
PublishOrWithdraw(c) ==
    /\ versioned' = IF c \in versioned THEN versioned \ {c} ELSE versioned \cup {c}
    /\ UNCHANGED <<now, active, rows, certs, tx, starting, deaths>>

PublishFirst(c) ==
    /\ c \notin versioned
    /\ versioned' = versioned \cup {c}
    /\ UNCHANGED <<now, active, rows, certs, tx, starting, deaths>>

Pass ==
    /\ now < Horizon /\ Busy = {} /\ starting = {}
    /\ now' = now + 1
    /\ UNCHANGED <<active, versioned, rows, certs, tx, starting, deaths>>

-----------------------------------------------------------------------------
Init ==
    /\ now = 1 /\ active = Trainees /\ versioned = {} /\ rows = <<>>
    /\ starting = {} /\ deaths = 0
    /\ certs = [cell \in Trainees \X Courses |-> 0]
    /\ tx = [p \in Issuers |-> IF p = Scheduler THEN NextTick ELSE Idle]

SchedulerStep ==
    \/ EndTick \/ Commit(Scheduler)
    \/ \E c \in Courses : PlanCourse(c)
    \/ \E t \in Trainees : ScheduleOne(t)

IssuerStep ==
    \/ \E p \in Issuers : Die(p)
    \/ \E p \in Issuers \ {Scheduler} : Commit(p)
    \/ \E a \in Admins, c \in Courses :
          \/ \E selected \in SUBSET Trainees \ {{}} : BulkPlan(a, c, selected)
          \/ \E t \in Trainees : ManualIssue(a, t, c)
    \/ \E a \in Admins, t \in Trainees : BulkOne(a, t)
    \/ \E t \in Trainees, c \in Courses : DryRun(t, c)
    \/ \E c \in Courses, audience \in SUBSET Trainees \ {{}} : Respond(c, audience)
    \/ \E t \in Trainees : RespondOne(t)

TraineeStep ==
    \E i \in Ids :
        \/ LoadStart(i) \/ WriteStart(i) \/ Declare(i)
        \/ \E passed \in BOOLEAN : Submit(i, passed)

Next ==
    \/ SchedulerStep \/ IssuerStep \/ TraineeStep \/ Pass
    \/ \E t \in Leavers : SetActive(t)
    \/ \E c \in Courses : PublishFirst(c)

\* The scheduler is a process that is started again when it dies; nobody else
\* has to act.
Spec == Init /\ [][Next]_vars /\ WF_vars(SchedulerStep)

-----------------------------------------------------------------------------
\* Properties.

TypeOK ==
    /\ now \in 1..Horizon /\ active \subseteq Trainees /\ versioned \subseteq Courses
    /\ rows \in Seq(Row) /\ Len(rows) <= MaxRows
    /\ certs \in [Trainees \X Courses -> Nat]
    /\ DOMAIN tx = Issuers /\ \A p \in Issuers : DOMAIN tx[p] = DOMAIN Idle
    /\ starting \subseteq Ids /\ deaths \in 0..MaxDeaths

CommittedOpen == {i \in Visible(Nobody) : IsOpen(i)}

\* Whoever looks finds: an issuer that saw a worker's link of the course, and
\* issued another one, leaves two open links only if the first had been submitted
\* and was opened again by a start request that overlapped the submission.  All
\* other pairs of open links come from an administrator's override or from
\* transactions that overlapped, so that neither issuer could see the other's
\* row: the checks in has_open_enrolment() and plan_bulk_issue() leave no other way.
DoubleNeedsOverlap ==
    \A i, j \in CommittedOpen :
        i # j /\ Cell(i) = Cell(j) /\ i \in rows[j].seen => rows[i].attempt # "none"

\* A link that was issued, and perhaps texted, is lost only with its
\* transaction: the rollback for another trainee's TrainingError in the
\* scheduler's loop never discards one, because a course that has an active
\* version when the first link is issued still has it for the next.
OnlyDeathsOrphan ==
    [][\A i \in Ids : rows[i].db = "pending" /\ rows'[i].db = "lost" => deaths' > deaths]_vars

\* The dashboard and the scheduler judge a worker alike, although they read the
\* tables with different queries: an active worker who needs a course is shown
\* as overdue or due soon exactly when the scheduler would send a link.
DashboardAgrees ==
    \A t \in active, c \in Courses :
        Required(t, c) =>
            (compliance_state(t, c) \in {"overdue", "due_soon"}
             <=> t \in trainees_due_for_course(Nobody, c))

\* A worker who is due gets a link: whatever transactions die, the scheduler
\* serves every active trainee it is due to, unless the worker stops being due
\* or active (or the bound on enrolments is reached).
DueIsServed ==
    \A t \in Trainees, c \in Courses :
        (c \in versioned /\ t \in trainees_due_for_course(Nobody, c))
        ~> (t \notin trainees_due_for_course(Nobody, c) \/ Len(rows) = MaxRows)

\* A worker who is cleared for work holds a valid certificate of every course
\* that the role and line require.
ClearedIsCertified ==
    \A t \in active : cleared(t) =>
        \A c \in Courses : Required(t, c) => certs[<<t, c>>] > now
=============================================================================
