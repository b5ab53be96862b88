# A formal model of qms-bakery

`qms-bakery` is a quality-management system for a bakery: a Flask and
SQLAlchemy application on PostgreSQL, with Redis between the MQTT bridge, the
trigger workers and the RQ workers. This directory holds TLA+ models of the
parts of it where concurrency, failure and ordering decide whether it is
correct, configurations that check them with TLC on small instances, and
proofs that TLAPS checks for every instance.

`PROJECT.json` is the index: which definition models which lines of the
source, what each run checks, which mutated definition breaks each property,
where the hazards are, and what is proved.

## Inventory

Paths are relative to `app/`. "Shared" is what makes a component hard: several
processes or threads work on that state with no more than what the database,
Redis or an explicit lock gives them.

| Component | State it keeps | Operations | Shared with | Correct when |
|---|---|---|---|---|
| Audit trail (`services/audit.py`, `models/audit.py`, migration `c9e1a2b3d4f5`) | `audit_log`, each row hashed with its predecessor's checksum | `record()`, `verify_chain()`, the immutability trigger | every transaction of the system | the committed rows always verify, never fork, only grow |
| GDPR redaction (`services/gdpr.py`) | the same rows, PII columns of people | `redact_trainee()`, `redact_user()` | the audit trail | the chain still verifies; what was redacted stays redacted |
| Tickets (`services/tickets.py`, `models/tickets.py`, `blueprints/tickets.py`) | status, version, assignee, closing time, `ticket_events` | create, transition, assign, unassign, escalate | web requests, trigger engine | history and ticket agree, moves follow the table, only holders of the permission close |
| Ticket numbers (`services/tickets.py`) | the UNIQUE column `ticket_number` | `generate_ticket_number()`, the INSERT, `record()` | concurrent creations, the lock of the audit trail | no repeats, no gaps; who waits comes to an end |
| Reading stream (`services/stream.py`, `workers/trigger_worker.py`) | Redis stream, consumer group, pending entries | `publish_reading()`, `consume()`, `process_reading()` | bridge and workers | each reading is processed, at most once, acknowledged after its commit |
| Trigger engine (`services/triggers.py`, `services/trigger_state.py`, `blueprints/api.py`) | first-true keys in Redis, `trigger_executions`, RQ jobs | `evaluate()`, `fire()`, the duration window | workers and API requests | alarms are raised when due and not before; executions tell what happened |
| MQTT bridge (`mqtt/bridge.py`) | the subscription | connect, subscribe, parse, publish or drop | reading stream | it listens again after every loss of the broker |
| Training links and scheduler (`services/training.py`, `services/triggers.py`, `workers/training_scheduler.py`, `blueprints/admin_training.py`) | enrolments, queued messages | tick, bulk, single and dry-run issue, triggered issue, expiry | four issuers | one open link per trainee and course; who is due is served; the compliance matrix agrees |
| Training exam (`services/training.py`, `blueprints/training.py`, `models/training.py`) | attempt, progress, declaration, certificate | start, next, submit, declare | overlapping requests of one trainee, authors | an attempt is submitted once and frozen, a certificate belongs to a passed one |
| Course versions and content (`services/training.py`, `blueprints/admin_training.py`) | versions, one active; modules, questions | add a version, edit, import | authors, attempts under way | one active version, numbers unique |
| Register of trainees (`services/training_csv.py`, `blueprints/admin_training.py`) | trainees; UNIQUE phone and employee numbers | create, edit, import, export | managers at once | a clean file is stored, phones stay with their owner, everybody can be reached |
| Reminders (`services/training.py`, `workers/training_scheduler.py`) | marks on enrolments, queued messages | a pass over the open links | passes that die, queues that are down | each kind once, one a day, a last call before the link expires |
| RQ queues and DLQ (`services/queue.py`, `services/dlq.py`, `jobs/`) | queues and failed registries in Redis | enqueue, run, retry, requeue, discard | RQ workers, administrators | attempts are bounded, no undelivered message drops out of sight |
| HACCP and SALSA (`services/haccp.py`, `services/salsa.py`) | measurements and responses with a linked ticket | record | tickets | a deviation is stored with its own ticket or not at all |
| Login, lockout, two-factor (`auth.py`, `services/totp*.py`) | failure counter, lock, TOTP secret | authenticate, enrol | concurrent logins | the lock comes in time and ends |
| Rate limit (`services/ratelimit.py`) | counters in Redis | check | all requests | at most the limit per window, or open |
| Retention (`services/retention.py`) | rows past their time | sweep | redaction | a sweep does what it reports |
| DSAR, reports, administration views, web shell | | reads, formatting, single-row edits | | |

How they interact: the bridge publishes to the stream; a trigger worker reads
it and calls `evaluate()`, as does `POST /api/v1/measurements`; a trigger that
fires creates or escalates tickets in the same transaction and enqueues RQ
jobs outside of it; tickets, triggers, training and logins all call
`audit.record()`, whose advisory lock is then held until the caller's commit;
redaction rewrites what `record()` wrote. Responders and training messages
become RQ jobs; HACCP and SALSA create their tickets in their own transaction;
the scheduler issues links and reminds of them, the exam consumes them, and
its certificate decides when the worker is due again.

What is hard: transactions that interleave between a read and a write (tickets,
numbers, redaction, submissions, versions, imports); Redis operations that no
transaction covers (jobs, windows, counters) next to a database that rolls
back; workers that crash with entries they have taken; a trail in which every
row depends on all the earlier ones.

## Modules

| Module | Models | Uses |
|---|---|---|
| `AuditLedger` | what the audit trail promises: a chained sequence that only grows, a transaction at a time | |
| `AuditChain` | `record()` and `verify_chain()` as concurrent transactions, with or without the trigger; the mapping to the ledger | `AuditLedger` |
| `MCAuditChain` | constants for TLC | `AuditChain` |
| `AuditRedaction` | redactions next to writers, composed with `AuditChain` | `AuditChain` |
| `MCAuditRedaction` | constants for TLC | `AuditRedaction` |
| `AuditProofs` | proofs about `AuditChain` and `AuditRedaction` | `AuditRedaction` |
| `TicketLifecycle` | what the transition table promises of every ticket | |
| `Tickets` | the views and services, as overlapping requests | `TicketLifecycle` |
| `MCTickets` | symmetry | `Tickets` |
| `TicketsProofs` | proofs about `Tickets` | `Tickets` |
| `TicketNumbers` | transactions that create tickets: the text-ordered UNIQUE column and the lock of the audit chain | |
| `Deviations` | HACCP measurements and SALSA checklists with their tickets, composed with `TicketNumbers` | `TicketNumbers` |
| `MCDeviations` | control points and checklists for TLC | `Deviations` |
| `DeviationsProofs` | proofs about `TicketNumbers` and `Deviations` | `Deviations` |
| `ReadingStream`, `ReadingStreamProofs` | MQTT bridge, stream and workers | |
| `TriggerEngine` | evaluation, duration windows and responders | |
| `MCTriggerEngine`, `TriggerEngineProofs` | constants for TLC; proofs | `TriggerEngine` |
| `ResponderJobs`, `MCResponderJobs` | RQ jobs of webhooks, mails and text messages; the dead-letter queue | |
| `TrainingLinks`, `MCTrainingLinks` | who issues magic links, when they expire, who is due; the compliance matrix | |
| `TrainingExam`, `MCTrainingExam`, `TrainingExamProofs` | one enrolment from the first tap to the certificate, next to authors | |
| `TrainingReminders`, `MCTrainingReminders` | a scheduler's pass of reminders | |
| `MessagesProofs` | proofs about `TrainingReminders` and `ResponderJobs` | `TrainingReminders`, `ResponderJobs` |
| `TrainingRegistry`, `MCTrainingRegistry` | forms and CSV import of the register of trainees | |
| `TrainingProofs` | proofs about `TrainingLinks` and `TrainingRegistry` | `TrainingLinks`, `TrainingRegistry` |

Every module but the abstract ones has a type invariant (`TicketNumbers` and
`Deviations` state theirs in `NoGaps` and `DeviationHasTicket`). Those and a
few more invariants are not listed with the runs: `NoGaps` (the numbers of a
year are `1..n`), `EventsAreMoves`, `ClosedIsStamped` and `OnlyClosedIsStamped`
are proved (see below), and `ExportIsANoOp` (an exported register imports
without a change) holds on the instance of its module.

### The audit trail

A session of `AuditChain` is one PostgreSQL transaction. Its steps are the
points at which `record()` touches shared state: taking the advisory lock
(`AcquireLock`; it is reentrant, so a second call in the same transaction
passes), reading the tail (`ReadTail`: the row with the highest id the session
can see, its own included), the first flush that inserts the row with a blank
checksum (`InsertRow`; ids come from a sequence that a rollback does not turn
back), and the second flush that updates it (`Seal`). `Commit` and `Rollback`
release the lock. `log` is the committed table, `mine[s]` what session `s` has
written, `View(s)` both. SHA-256 is the constant operator `Hash`; the
configurations make it the pair of its arguments, which is injective. Request
metadata is not hashed and is left out.

`guarded` says whether the database has the immutability trigger of migration
`c9e1a2b3d4f5`; it is chosen initially and never changes. With it the second
flush is refused (`SealRefused`), and with it every `record()`.

`AuditRedaction` adds sessions that redact one person: select the ids, load the
rows from the first of them on, rehash them forward (`Chained`: each row behind
the new checksum of the one before it), flush the columns that changed, then
call `record()` and commit. As in the code the advisory lock is only taken by
that `record()`: other transactions may commit between the load and the lock.
The history variable `raced` remembers that one did. Updates wait for the row
locks of another redaction. The columns of people are not modelled.

### Tickets

A request loads a ticket with its columns and later writes what it computed
from them. From its `record()` to its commit it holds the lock of the audit
chain, so a write with its commit is one step; nothing protects the time
between load and write, and requests overlap there freely. The event of a move
gets its time before `record()` waits for that lock (`tickets.py:144`, `:148`),
and the history is listed by those times (`models/tickets.py:121-125`). So a
move is two steps, `Stamp` and `WriteTransition`, `events` is a set whose order
is that of `at`, and moves may commit in another order than they are listed in.
When they do, the later one to commit writes from an older version: the history
may then end with an event that did not set the status. `StatusIsLastEvent`
and `HistoryReplays` therefore speak of tickets outside of `stale`; of the
others `StatusIsLastEvent` says only that one of the events led to the status. SQLAlchemy writes
the columns that the request changed (`SetAssignee`, `WriteTransition`), not
the whole row. `Create` is `create_ticket()`, `LoadTransition` and
`Transition` the transition view, `LoadAssign` with `AssignNew` and
`AssignOther` the assign view, `Unassign` its branch without an assignee,
`LoadEscalate` the ESCALATE responder. The history variable `stale` holds the
tickets that some request moved from a version that was no longer theirs.

Comments and the pipeline stage do not touch these columns and are left out.
The audit rows of tickets are left out too; that the unassign branch
(`blueprints/tickets.py:145-150`) writes none, although the comment above it
says it does, can be seen without a model.

A creator of `TicketNumbers` is a transaction that creates tickets: `Generate`
reads the newest number the transaction can see, `Insert` is the flush, which
waits while another transaction has written the same number and is undecided
(PostgreSQL's unique index) and fails when that one commits (`Collide`).
`Record` is the `audit.record()` behind it; its lock is held to the end. A
trigger may fire more than one responder in a transaction (`PerCall`), and one
that fired before has taken the lock already. `Abort` is the database breaking
up two transactions that wait for each other. The numbers are natural numbers;
`TextAfter` is the order the text column has, for any base and width (`Places`
is how many digits a number is written with), so that
a small width shows what happens past the five digits of the code.

`Deviations` adds `record_measurement()` and `submit_response()`. They record
the measurement or response first, and so hold the chain's lock while they
read and insert the ticket's number. Two consequences are properties: they
never collide, and they can only deadlock with a plain creation, which takes
the two in the other order. What fails on the way (a closed line, a collision,
an abort) takes measurement and ticket back together; `lost` says why the last
one was lost. (A closed line is a `TicketError`, which the HACCP views do not
catch: a 500. The form itself cannot enter a 0, `blueprints/haccp.py:30`.)

### Readings and triggers

The bridge of `ReadingStream` is connected or not, and subscribed only after
`OnConnect` has run; `Publish(m)` is a message that arrives while it listens:
what `parse_message()` accepts is XADDed, or forgotten when Redis refuses it
(`Forget`). `ReadingStream` counts the entries of the stream (`head`),
remembers which are trimmed (`floor`: `MAXLEN ~` may keep more than asked), the
cursor of the consumer group (`delivered`), its pending entries, and where each
worker is in its batch. A worker evaluates, commits and acknowledges one entry
after the other; `Fail` is a handler that raised or an XACK that failed,
`Crash` a process that dies and is started again. Redis streams are modelled
from the calls made of them. All lines share one stream and its bound, where
the module's docstring speaks of a bound per line.

`TriggerEngine` is the inside of one evaluation. `Take` receives a reading;
the triggers in scope are then worked through in any order (the query has no
ORDER BY). Without a duration a trigger fires at once (`Pass`). With one, a
reading that does not satisfy the condition deletes the key (`Reset`); one
that does gets it (`Look`) and then, in a separate step, sets it (`Open`),
leaves it (`Wait`) or deletes it and fires (`Close`). `window` is Redis, with
expiry; `now` is the one clock of workers and Redis. `fire()` lets each
responder succeed or fail, in any order; what it does is a row, kept in
`task[e].wrote` until the commit, or an RQ job, which is in the queue at once.
A responder that raises may have done its work before. `Abandon` is a
database error, a failed commit or a crash. It takes back the rows and not what
was done to Redis. (A failed flush leaves the session unusable until a
rollback, so such an error passes through the `except` clause of `fire()`,
which reads an attribute of an expired object.)

Four history variables say what a reference implementation would know:
`streak`, since when a trigger has been evaluated true in a scope without
being false or firing; `breach`, the same over readings that carry its metric;
`disturbed`, the windows at which evaluations overlapped or were abandoned,
until a deletion with nobody else at work makes history and window start
together again; `lost`, the readings whose evaluation was rolled back.

### Jobs, training and the register

A job of `ResponderJobs` goes through RQ's registries as the code makes it:
`Enqueue` with the retry policy, `Work` by the one worker process, `Succeed`,
`Fail` (an attempt that raised; RQ counts a retry down and puts the job back at
once or, with a delay, among the scheduled jobs), rejection for good, expiry,
and the DLQ views, in which an administrator sees a list and later requeues or
discards what may have changed since. A requeue does not reset RQ's
`retries_left`, and its audit row is committed after Redis has acted.

In `TrainingLinks` each issuer is a transaction that looks (`plan`, due lists,
`has_open_enrolment()`), inserts links one by one, each with its message
already queued, and commits or dies. A row remembers the open rows its issuer
could see, which is what "overlapped" means in `DoubleNeedsOverlap`. Of an exam
the submission and the declaration are one step each here (`Submit`,
`Declare`), the start two (`LoadStart`, `WriteStart`): a start request that
loaded the link before its submission writes STARTED over SUBMITTED, and
`has_open_enrolment()` counts the link as open again.

`TrainingExam` is the inside of an exam: requests that read and later write
`status`, `module_progress`, the attempt, the declaration and the certificate,
against the UNIQUE constraints, while authors add versions and edit modules and
questions of the version that was active when they looked.

`TrainingReminders` is the second phase of a tick: list, classify (`final` goes
by calendar days, the other two by hours), queue on each channel, commit the
marks at the end. Links are started and submitted as in `TrainingLinks`, so
that a submitted one may come back on the list.

`TrainingRegistry` is the register of trainees: every request
plans from what it reads (`Plan`, `Clean`) and applies the plan later
(`Save`), row by row against the UNIQUE columns: `Stored` is the register after
the first `n` rows, `Refused` says that one of these is not unique, `Apply` is
the last of them.

Some of what the code says of training has no code behind it. No enrolment ever
becomes EXPIRED or WITHDRAWN and nothing sets `revoked_at`: the "EXPIRED sweep
elsewhere" of `services/training.py:1163` does not exist, and
`services/retention.py:92` looks for rows that never come to be. The comment
at `training.py:1153-1157` on links that have just expired describes rows that
`send_pending_reminders()` has filtered out. The edit form shows the phone
number and ignores a change of it; a CSV row that creates a trainee ignores
`is_active`; CSV updates write no audit row.

## Runs

| Run | Shows |
|---|---|
| `audit_chain` | Three transactions, two contents, four ids, with and without trigger: the trail verifies, only grows, and implements `AuditLedger`. |
| `audit_redaction` | Two redactions of two people and a writer on a trail of two rows, with and without trigger: the chain verifies unless a commit fell between a load and a lock; redacted rows stay redacted; a redaction that commits has marked the rows it selected and changed no other diff. |
| `tickets` | Two requests that overlap in every way, the reading of the clock included, on a ticket with up to four events; two users, one of whom may close: control of closing, agreement of history and ticket, replay of tickets that were not overwritten, and implementation of `TicketLifecycle`. |
| `ticket_numbers` | Plain creations, trigger responders, measurements and checklists: a deviation is stored with a ticket of its own or not at all, is never lost to a collision, deadlocks with plain creations only, and every transaction ends. |
| `reading_stream` | A bridge that loses the broker, two workers, four readings, batches and a stream of two, one failure and one crash: accounting, at most one evaluation, settling, listening. |
| `triggers` | Two evaluators, three readings, two scopes, a window of one time unit that lives three: alarms are due, none is missed, executions report what was done. |
| `responder_jobs` | Attempts stay within the policy and the requeues, a rejected job is not tried again by itself, nothing undelivered vanishes, what is queued is run. |
| `training_links` | A double link takes overlapping issuers, an override, or a submitted link that a late start request opened again; only a death loses a link whose message is queued; matrix and scheduler agree; who is due is served. |
| `training_exam` | The first submission is final; one certificate, for a passed and declared attempt; progress is undone by overlap only; one active version; unless the version in use is edited, the attempt is judged by what was shown. |
| `training_reminders` | Each kind once per channel and death, one reminder a day, a last call before a link expires, when the scheduler ran in every part of a day. |
| `training_registry` | A plan that was clean and is fresh is stored as a whole; without overlap no phone number moves and no address that is needed is lost. |

`reading_stream_restart` ends in a counterexample: `stream.py` promises that
deliveries "survive worker restarts", and the consumer only asks for `>`, so
that entries that were pending when it crashed are never read again.

### Divergences, and how to see them

While the models were written the code turned out to do other things than its
comments and documents say in more places. Each of these configurations checks
one property that states the promise, and TLC answers with a counterexample
(`tlc -config X.cfg M`).

| Configuration, module | Promise | Counterexample |
|---|---|---|
| `AuditGuarded.cfg`, `MCAuditChain` | `RecordNeverRefused`: "Append a new entry to audit_log" (`audit.py:65`), next to "a PostgreSQL trigger blocking UPDATE/DELETE" (`models/audit.py:19-20`) | With migration `c9e1a2b3d4f5` (lines 33-38) the second flush of every `record()` (`audit.py:91-94`) is an UPDATE that the trigger refuses. The tests run on SQLite, where the migration does nothing. No property of a passing run counts on the refusal. |
| `AuditRedactionRace.cfg`, `MCAuditRedaction` | `ChainVerifiesAfterRedaction`, `gdpr.py:11-12` | A `record()` that commits between a redaction's load (`gdpr.py:70-95`) and its lock (`:168`) links to a checksum that the redaction replaces. |
| `TicketsStale.cfg`, `MCTickets` | `NoStaleWrite`: the plan promises a 409 (`01-architectural-functional-plan.md:827`) | Two requests load one version and both commit: `version` is incremented and never compared. The status of the second holds, and when its event has the earlier time the history ends with the other's. |
| `DeviationsNoLine.cfg`, `MCDeviations` | `FailedItemHasTicket`: "create one ticket if any item failed" (`salsa.py:35`) | The ticket depends on `failures and checklist.line_id` (`salsa.py:81`): a checklist without a line stores its failures and no ticket. `DeviationHasTicket` is about the others. |
| `TicketNumbersOverflow.cfg`, `TicketNumbers` | `GeneratedIsNew` | In text order `QMS-…-100000` comes before `QMS-…-99999` (`tickets.py:32`, `:40`): past the width the generator repeats a number. |
| `TriggerEngineMetrics.cfg`, `MCTriggerEngine` | `SustainedBreachFires`, `README.md:70` of the program | A reading of another metric in the same scope counts as "not in breach" and resets the window (`triggers.py:140`, `:65-66`). |
| `TrainingExamEdit.cfg`, `MCTrainingExam` | `NeverDisturbed`: pinned versions, `models/training.py:7-10` | Questions of the active version are edited in place (`admin_training.py:838`) while an attempt on it is open: answers that were right as shown are judged by other options. |
| `ResponderJobsParked.cfg`, `MCResponderJobs` | `FailuresSurface`: failures end in the DLQ (`README.md:72`, `queue.py:8-10`) | A retry with a delay is parked with RQ's scheduled jobs, and `rq_worker.py:35` calls `work()` without a scheduler. |

Two more definitions state what a reader may expect and the code does not
keep: `NoDeadlock` of `Deviations` (a measurement that holds the lock of the
chain and waits for a number, against a creation that has inserted that number
and waits for the lock: five states) and `ClearedIsCertified` of
`TrainingLinks` (an open link hides that a worker's certificate has expired).

### Bounds, and why they are enough

- `AuditChain`: three sessions are a holder, one that waits and one that comes
  later; four ids allow a rollback's gap and two rows of one transaction. The
  theorems say the rest.
- `AuditRedaction`: two historic rows are one to redact and one behind it; two
  redactors and a writer give every pair of conflicting sessions.
- `Tickets`: the interference is between two requests on one ticket; tickets
  are independent. Four readings of the clock (`MaxTime`) are a creation and
  three moves: they reach both closed states, the escalation included, and three
  overlapping moves are more than it takes for two to commit out of order.
- `Deviations`: two transactions are the smallest circle; base 2, a width of
  three and six numbers keep below the overflow, which the base and width of
  `TicketNumbersOverflow.cfg` reach. Four points are a limit on both sides, one
  on a closed line, and a checklist with and without a line; readings -1 to 2
  lie on, inside and outside the limits.
- `ReadingStream`: four entries with batches and a stream of two let a batch
  be partly done, and entries be trimmed unread, while another worker reads; the broker is lost
  twice, so that the second loss meets a bridge that has recovered.
- `TriggerEngine`: the clock runs to 3, where a window opened at 0 has just
  expired; three readings are opening, disturbing and firing. `MinTtl` (60 s in
  the code) is below three durations, as with every duration of 20 s or more.
  A deadlock check is left out there only because clock and readings end; in
  `TriggerEngine` no evaluator waits for another.
- `ResponderJobs`: two jobs of two kinds, two administrators who may requeue
  the same failure, two requeues; two immediate retries and a delayed one.
- `TrainingLinks`: two workers, one course, two enrolments (the smallest
  double), one transaction that dies, three days: a link lives one and a
  certificate two, so that expiry and recertification both happen. `MaxBusy`
  counts the requests open next to the scheduler's transaction, start requests
  included; a start request may stay open over a submission, the issue of
  another link and its commit, which is what a reopened link takes.
- `TrainingExam`: two requests (a double tap), two authors, two questions, so
  that 70 % needs both, two versions, two modules, one edit of a version in use.
- `TrainingReminders`: two links of two courses, parts of half a day so that
  hours and calendar days differ, reminders after one day and two. One link
  lives one day or three, so that it gets only the last reminder or all three
  kinds; it is the one with a start request that overlaps other steps
  (`Starters`). The other lives two days, and its trainee may leave. One outage
  and one death.
- `TrainingRegistry`: two managers, two employee numbers, three phone numbers
  (a swap and a spare), files of up to two rows, two trainees.

Deadlock checking is also off for `ResponderJobs` and `TrainingExam`, where
jobs and the enrolment really come to an end.

### Fairness

`ReadingStream`: `FairSpec` assumes weak fairness of each worker's own steps
and of the bridge's `Connect` (`loop_forever()` reconnects by itself): the loop
of `consume()` has no exit, and a process that died is started again by the
container's restart policy. Nothing is assumed of readings, failures, crashes
or polls that find nothing. Under it every reading is delivered or trimmed, and
settled, where to be left pending takes a failure or a crash, and the bridge
listens again and again.

`Deviations`: `DevFairSpec` assumes that a transaction takes its own next step
(weak fairness), that PostgreSQL detects deadlocks (weak), and that it wakes
those who wait for a number or the lock in turn (strong fairness of `InsertFor`
and of `Record`, which others may disable again and again).

`TrainingLinks`: weak fairness of the scheduler's steps; its loop catches every
exception, and the container's restart policy starts it again when it died.
Nothing is assumed of administrators, trainees or the other issuers.

`ResponderJobs`: weak fairness of the worker's steps on each job. Nothing
moves what is parked among the scheduled jobs, because nothing in the code
starts RQ's scheduler.

## Proofs

The theorems hold for every value of the constants, under the assumptions
declared with them (TLC evaluates those on every run) and those named here.
Where a bound is a constant of a model (`MaxId`, `MaxRows`, `MaxTime`, ...) a
theorem holds for every bound. In most cases the property itself is not
inductive; the invariant that is, `IInv` in most of the modules, is what the
code relies on without saying so.

### The audit trail: `AuditProofs`

`TypeCorrect`, `TrailVerifies` (`[]ChainIntact`) and `TrailOnlyGrows`
(`AppendOnly`) hold for any number of sessions, any contents, any `Hash`
(nothing of it is used but that it is a function) and with or without trigger.
`ChainIntact` is not inductive, because a commit publishes whatever the session
has written. `IInv` adds that whoever is inside `record()` holds the lock
(`HolderInv`), that idle sessions have nothing uncommitted (`IdleInv`), that
uncommitted ids lie above the committed ones (`OrderInv`: the sequence is only
drawn from under the lock), and that what a session sees is a chain but for the
row it has not sealed (`ViewInv`). The lemmas `InsertKeepsLinks` and
`SealCompletesChain` say what the two flushes do to a chain.

`TrailIsLedger` is the refinement of `AuditLedger`. The mapping reads the
committed rows in id order (`Rank`, `At`, `Walk`), without assuming that ids
are dense: `RankGrows`, `EveryRankIsTaken` and `WalkInOrder` show that each
place of the ledger is one row, `AtStays` and `WalkExtends` that a commit, whose
ids are all above, leaves the old places alone. Every other step stutters.

Redactions rewrite committed rows and take the lock late, so that `IInv` is
false next to them. `RInv` keeps what is left: who is in `record()` holds the
lock, no two sessions hold the same row (`ApartInv`, from the row locks),
rewritten rows keep the markers that earlier redactions left (`StickInv`), who
rewrites rows has opted in to the bypass (`BypassInv`), and, until a commit falls
between a load and a lock, that every session sees a chain and what a redaction
has loaded is the tail of the trail (`RacedInv`). From it follow
`RedactionKeepsChain` (`IntactUnlessRaced`), `RedactedStaysRedacted`
(`RedactionSticks`, raced or not) and, with `ExactInv`, `RedactionsAreExact`
(`RedactionIsExact`, raced or not). `ExactInv` says where a marker can be before
its redaction is done (`MarksInv`), that what was selected is loaded and then
written (`CoverInv`), and that a rewritten row keeps the diff that is committed
unless it is one of the selected ones (`RewriteInv`).
`RehashKeepsChain` says that rehashing a tail forward gives a chain again;
`Chained` is defined by recursion on ids, and what it computes is shown by
looking at the least id for which it would not (`LeastElement`). Assumed are a
marker of a redaction that is not a recorded diff (`DataAssumption`), contents
as `record()` makes them (`ContentsAssumption`) and a history that belongs to
people (`HistoryAssumption`).

### Tickets, numbers, deviations: `TicketsProofs`, `DeviationsProofs`

`TicketsProofs`: `TypeCorrect`, `HistoryMatchesTicket` (`StatusIsLastEvent`
and `EventsAreMoves`), `ClosingIsControlled` (`ClosedIsStamped` and
`ClosedByCloser`), `FreshTicketsReplay` (`HistoryReplays` and
`OnlyClosedIsStamped`) and `TicketsImplementLifecycle`
(`ImplementsLifecycle`), for any tickets, requests and users. The first three
need that loaded requests carry what their view checked (`RequestInv`) and that
the clock is past every event (`HistoryInv`). The others need `VersionInv`: a
request whose loaded version is the current one of a ticket that was never
overwritten has loaded its current status, and no event of the ticket is later
than its own. Hence the event it adds is the only newest one (`LateEvent`), and
it follows the one that was newest (`NewestInv`). That is where the proof says
what the version column could be used for.

`DeviationsProofs`: `DeviationsHaveTickets` (`DeviationHasTicket`) needs
nothing of the order of the numbers, only what the UNIQUE column and the wait
on it buy (`UniqueInv`). `NumbersHaveNoGaps` (`NoGaps`), `NumbersAreMonotonic`
(`GeneratedIsNew`) and `DeviationsLostOnlyToPlain` (`LostOnlyToPlain`) hold
under `Fits`: no number is too large for the width it is padded to. Past it
text order is not numeric order, and `TicketNumbersOverflow.cfg` shows
`GeneratedIsNew` fail: the hypothesis is the reason, not a convenience. Their
invariant (`NumInv`) says that the uncommitted numbers continue the committed
ones, in one transaction at a time, and that who holds the chain's lock and has
chosen a number has chosen the next one. `DeviationsImplementNumbers` carries
the theorems of `TicketNumbers` over to `Deviations`. There are finitely many
transactions (`CreatorsAssumption`), and `Fits` says that the power is a
natural number, which the provers cannot compute.

### Readings and triggers: `ReadingStreamProofs`, `TriggerEngineProofs`

`ReadingStreamProofs`: `EntriesAreAccounted` (`Accounted`) and
`NothingIsEvaluatedTwice` (`EvaluatedAtMostOnce`), for any workers, batch and
length of the stream. Entries are handed out in intervals of ids that do not
meet (`BatchInv`), and `ProgressInv` follows an entry: it is untouched before it
is delivered and while it is behind another one of its batch.

`TriggerEngineProofs`, for any evaluators, triggers, scopes, durations and
times: `ReportsAreTrue` (`ReportedIsDone`) and `ReportsAreComplete`
(`NothingUnreported`) need `ReportInv`, which speaks of the executions an
evaluator has not committed yet. `AlarmsAreDue` (`AlarmIsDue`) and
`AlarmsAreNotMissed` (`NoAlarmMissed`) need `WindowInv`: at a window that is not
disturbed there is at most one evaluator, what it has read between `GET` and
`SETEX` or `DEL` is what is there, and between two evaluations window and
history agree. `Never` is no time and `MinTtl` is positive.

### Jobs and training

`MessagesProofs`, of the jobs: `AttemptsAreBounded` (`WithinBudget`),
`NothingIsLost` (`NothingVanishes`) and `RejectionIsFinal` (`RejectedIsFinal`),
for any jobs and delays. `BudgetInv` counts the runs that are still to come
without anybody's help.

`MessagesProofs`, of the reminders: `RemindersGoOutOnce` (`RemindedOnce`),
`OneReminderOnADay` (`OneReminderADay`) and `LastCallIsMade` (`LastCall`), for
any links, lives of links, channels and parts of a day. `SentInv` charges each
message without a mark to a pass that died. The other two speak of links that a
pass has looked at in every part of a day, and need that a link is in use also
while a start request may still open it again (`InUse`), and that nothing is left over:
what fell due earlier is marked, and what is due now is marked once the pass has
looked (`DoneInv`). Hence a reminder goes out in the very part of a day it falls
due (`ToldInv`), and the three kinds fall due on different days. `NoticeInv`
makes a mark a message as long as no queue is down. The 3-day reminder must come
before the 7-day one (`RemindersAssumption`): were the two ages equal, both
would go out on one day, in two passes.

`TrainingProofs`, of the links, for any workers, courses, assignments and
administrators: `DoubleLinksOverlap` (`DoubleNeedsOverlap`), `DashboardIsRight`
(`DashboardAgrees`) and `LinksDieWithTransactions` (`OnlyDeathsOrphan`). The
first speaks of links that are open now, while the issuers looked earlier.
`SeenInv` and `PlanInv` carry their look forward: what a transaction saw of a
worker it still has to serve was not open, so it had expired or been submitted
(`StatusInv`). A link that has expired stays closed. One that was submitted may
be opened again by a start request that had loaded it before, and only its
attempt stays (`ClearStays`); this is the exception in the property.

`TrainingProofs`, of the register, for any managers, rows and files of any
length: `CleanPlansAreStored` (`CleanIsStored`), `PhonesStayPut` (`PhonesStay`)
and `TraineesStayReachable` (`ReachableUnlessOverlapped`). A plan is `Sound` for
a register when the rows it leaves can be reached and differ from each other and
from all other trainees' (`Apart`); `CreateIsSound`, `EditIsSound` and
`ImportIsSound` say that the checks of the forms and of the import buy that, and
`RegistryInv` keeps it until somebody else commits. `OneToOne` pairs rows and
trainees, so that no induction over the rows of a file is needed: after any
number of rows a trainee is as it was or as its one row leaves it (`StoredRow`),
and `SoundIsStored` compares two of them.

`TrainingExamProofs`: `CertificatesAreEarned` (`CertIsEarned`),
`CourseHasOneVersion` (`OneActiveVersion`), `ScoresAreAsShown` (`ScoredAsShown`),
`AttemptsAreFrozen` (`FrozenAttempt`) and `ProgressGoesBackByOverlap`
(`BackwardsNeedsOverlap`), for any requests, authors, questions, pass mark and
number of versions. A request acts on what it has read; the invariant says how
that relates to what is there now: the same unless it was overtaken
(`RaceInv`) or the version was edited (`PageInv`), and otherwise refused by a
constraint (`VersionsInv`, `AttemptInv`). Assumed is that no request is both a
trainee's and an author's.

## Only model-checked, and why

- Liveness: `EveryCallEnds`, `EventuallySettled`, `ListensAgain`,
  `EventuallyProcessed`, `EventuallyRun` and `DueIsServed` need fairness and
  ENABLED, which are beyond TLAPS.
- `ExportIsANoOp` of `TrainingRegistry`: `Export` puts the rows in some order, of
  which the library says nothing that the provers could use.

## Not modelled

- Login, lockout and two-factor: the failure counter is read, incremented and
  written back by overlapping logins (`auth.py:48`), so that the lock may come
  late. It shares no state with the modelled parts.
- Rate limit: a counter per fixed window that fails open.
- Retention sweep: a loop over deletions and redactions; each redaction commits
  by itself (`retention.py:151`), so that a sweep that fails later has done
  part of its work without a summary. The redaction is in `AuditRedaction`.
- The wiping of the columns of trainees and declarations in a redaction. It
  sets `phone` and `is_active` (`gdpr.py:143-145`), which `TrainingRegistry`,
  `TrainingLinks` and `TrainingReminders` know: there the redacted trainee is
  one who leaves for good, which `SetActive` covers, and the phone number that
  is replaced by a placeholder is left out.
- Comments and pipeline stages of tickets: they touch no modelled state.
- The bridge without a stream (`MQTT_USE_STREAM` off), which evaluates in the
  bridge's own thread: one evaluator of `TriggerEngine`.
- DSAR export, reports, administration views, web shell: reads, rendering and
  formatting, configuration, seeds and translation, with no state of their own
  or single-row edits. SMTP, SMS and webhook endpoints are the outside world.

## Plan

The models of the parts that share state are written, and every safety property
of the passing runs is proved. What may come next is the retention sweep on top
of `AuditRedaction`, and the login with its lockout, should they grow state that
others share. The plan's pessimistic locking of CCPs
(`01-architectural-functional-plan.md:828`) has no code to model.
