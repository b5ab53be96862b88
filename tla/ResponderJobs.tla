--------------------------- MODULE ResponderJobs ---------------------------
(***************************************************************************)
(* Webhooks, mails and text messages as jobs of RQ: three queues with one  *)
(* retry policy, the worker process that runs them, and the dead-letter    *)
(* queue, RQ's registries of failed jobs, where administrators requeue or  *)
(* discard a job.  RQ itself is not part of the program: its operations    *)
(* are modelled from how the code calls them.                              *)
(*                                                                         *)
(* `flask rq-worker` calls Worker.work() without a scheduler.  A retry with *)
(* a delay is parked in RQ's registry of scheduled jobs, which only such a *)
(* scheduler empties; a delay of 0 puts the job back in the queue at once. *)
(*                                                                         *)
(* Abstracted: what is sent, and the time, of which only the expiry of     *)
(* failed jobs matters.  An attempt that fails may have delivered: the     *)
(* connection broke, or the worker died, after the other side took it.     *)
(***************************************************************************)
EXTENDS Integers, Sequences, FiniteSets

CONSTANTS
    Jobs,           \* calls of the enqueue functions
    Kind,           \* [Jobs -> {"webhook", "email", "sms"}]
    Delays,         \* RETRY_INTERVALS_SECONDS, one per retry
    Admins,         \* administrators with dlq.manage
    MaxRequeues     \* bound: requeues of a job

ASSUME JobsAssumption ==
    /\ Kind \in [Jobs -> {"webhook", "email", "sms"}]
    /\ Delays \in Seq(Nat) /\ MaxRequeues \in Nat

VARIABLES
    state,          \* [Jobs -> States]: where RQ keeps the job
    retriesLeft,    \* [Jobs -> job.retries_left]
    desk,           \* [Admins -> the request that is open in the DLQ views]
    \* kept for the properties:
    attempts,       \* [Jobs -> times a worker has run it]
    delivered,      \* [Jobs -> the other side has taken it at least once]
    rejected,       \* [Jobs -> its last run failed for good]
    requeues,       \* [Jobs -> times it was put back from the DLQ]
    removed         \* jobs that were discarded, or expired in the DLQ

rq == <<state, retriesLeft>>
jobHistory == <<attempts, delivered, rejected, requeues, removed>>
jobVars == <<rq, desk, jobHistory>>

States == {"new", "queued", "started", "scheduled", "failed", "finished", "gone"}
Retries == Len(Delays)
AtDesk == [pc: {"idle"}] \cup [pc: {"requeue", "discard"}, job: Jobs]
NoRequest == [pc |-> "idle"]

Move(j, to) == state' = [state EXCEPT ![j] = to]

-----------------------------------------------------------------------------
\* enqueue_webhook(), enqueue_email(), enqueue_sms().
Enqueue(j) ==
    /\ state[j] = "new"
    /\ Move(j, "queued")
    /\ retriesLeft' = [retriesLeft EXCEPT ![j] = Retries]
    /\ UNCHANGED <<desk, jobHistory>>

\* The worker takes a job of any queue.
Work(j) ==
    /\ state[j] = "queued"
    /\ Move(j, "started")
    /\ attempts' = [attempts EXCEPT ![j] = @ + 1]
    /\ rejected' = [rejected EXCEPT ![j] = FALSE]
    /\ UNCHANGED <<retriesLeft, desk, delivered, requeues, removed>>

\* post_webhook(), send_email() or send_sms() returns.
Succeed(j) ==
    /\ state[j] = "started"
    /\ Move(j, "finished")
    /\ delivered' = [delivered EXCEPT ![j] = TRUE]
    /\ UNCHANGED <<retriesLeft, desk, attempts, rejected, requeues, removed>>

\* The delay before the next retry, as RQ picks it from the list.
Delay(j) == Delays[Retries - retriesLeft[j] + 1]

\* Mutant: the last failure leaves the job to RQ's result cleanup.
FailedAndGone(j, left) ==
    /\ state[j] = "started"
    /\ Move(j, IF left = 0 THEN "gone" ELSE IF Delay(j) = 0 THEN "queued" ELSE "scheduled")
    /\ retriesLeft' = [retriesLeft EXCEPT ![j] = IF left = 0 THEN 0 ELSE left - 1]

Failed(j, left) ==
    /\ state[j] = "started"
    /\ Move(j, IF left = 0 THEN "failed" ELSE IF Delay(j) = 0 THEN "queued" ELSE "scheduled")
    /\ retriesLeft' = [retriesLeft EXCEPT ![j] = IF left = 0 THEN 0 ELSE left - 1]

\* It raises, or the worker dies and RQ finds the job abandoned: the next retry,
\* or the registry of failed jobs when none is left.
Fail(j) ==
    /\ Failed(j, retriesLeft[j])
    /\ \E taken \in BOOLEAN : delivered' = [delivered EXCEPT ![j] = @ \/ taken]
    /\ UNCHANGED <<desk, attempts, rejected, requeues, removed>>

\* Mutant: the failure is raised without draining the retries.
RejectUndrained(j) ==
    /\ Kind[j] \in {"webhook", "sms"}
    /\ Failed(j, retriesLeft[j])
    /\ rejected' = [rejected EXCEPT ![j] = TRUE]
    /\ UNCHANGED <<desk, attempts, delivered, requeues, removed>>

\* An URL that must not be called, an answer of 4xx from the SMS provider:
\* _drain_retries() and straight to the failed jobs.  Mails have no such failure.
Reject(j) ==
    /\ Kind[j] \in {"webhook", "sms"}
    /\ Failed(j, 0)
    /\ rejected' = [rejected EXCEPT ![j] = TRUE]
    /\ UNCHANGED <<desk, attempts, delivered, requeues, removed>>

\* FAILURE_TTL_SECONDS after the failure RQ forgets the job.
Forget(j) ==
    /\ state[j] = "failed"
    /\ Move(j, "gone")
    /\ removed' = removed \cup {j}
    /\ UNCHANGED <<retriesLeft, desk, attempts, delivered, rejected, requeues>>

-----------------------------------------------------------------------------
\* The DLQ views: look the job up, then act (and commit an audit row about it,
\* which no step reads).

\* _resolve(): anything but a failed job is not found.
Resolve(a, what, j) ==
    /\ desk[a] = NoRequest /\ what \in {"requeue", "discard"}
    /\ state[j] = "failed"
    /\ desk' = [desk EXCEPT ![a] = [pc |-> what, job |-> j]]
    /\ UNCHANGED <<rq, jobHistory>>

Leave(a) == desk' = [desk EXCEPT ![a] = NoRequest]

\* registry.requeue(): takes the job out of the registry and puts it in its
\* queue; retries_left stays what it is.
requeueAfresh(a) ==     \* mutant: with the retries of a new job
    LET j == desk[a].job
    IN  /\ desk[a].pc = "requeue" /\ requeues[j] < MaxRequeues
        /\ state[j] = "failed"
        /\ Move(j, "queued")
        /\ requeues' = [requeues EXCEPT ![j] = @ + 1]
        /\ retriesLeft' = [retriesLeft EXCEPT ![j] = Retries]
        /\ Leave(a)
        /\ UNCHANGED <<attempts, delivered, rejected, removed>>

requeue(a) ==
    LET j == desk[a].job
    IN  /\ desk[a].pc = "requeue" /\ requeues[j] < MaxRequeues
        /\ state[j] = "failed"
        /\ Move(j, "queued")
        /\ requeues' = [requeues EXCEPT ![j] = @ + 1]
        /\ Leave(a)
        /\ UNCHANGED <<retriesLeft, attempts, delivered, rejected, removed>>

\* Somebody else has requeued or discarded it meanwhile: RQ raises.
TooLate(a) ==
    /\ desk[a].pc = "requeue" /\ state[desk[a].job] # "failed"
    /\ Leave(a)
    /\ UNCHANGED <<rq, jobHistory>>

\* registry.remove(job, delete_job=True): the job is deleted wherever it is now,
\* also when it was requeued since (what a running job still delivers is not counted).
discard(a) ==
    LET j == desk[a].job
    IN  /\ desk[a].pc = "discard"
        /\ Move(j, "gone")
        /\ removed' = removed \cup {j}
        /\ Leave(a)
        /\ UNCHANGED <<retriesLeft, attempts, delivered, rejected, requeues>>

\* The request ends before it acts.
Abandon(a) ==
    /\ desk[a] # NoRequest /\ Leave(a)
    /\ UNCHANGED <<rq, jobHistory>>

-----------------------------------------------------------------------------
JobsInit ==
    /\ state = [j \in Jobs |-> "new"]
    /\ retriesLeft = [j \in Jobs |-> 0]
    /\ desk = [a \in Admins |-> NoRequest]
    /\ attempts = [j \in Jobs |-> 0] /\ requeues = [j \in Jobs |-> 0]
    /\ delivered = [j \in Jobs |-> FALSE] /\ rejected = [j \in Jobs |-> FALSE]
    /\ removed = {}

WorkerFirstRun(j) ==    \* mutant: the worker does not look at jobs that were requeued
    requeues[j] = 0 /\ (Work(j) \/ Succeed(j) \/ Fail(j) \/ Reject(j))

WorkerStep(j) == Work(j) \/ Succeed(j) \/ Fail(j) \/ Reject(j)

JobsNext ==
    \/ \E j \in Jobs : Enqueue(j) \/ WorkerStep(j) \/ Forget(j)
    \/ \E a \in Admins :
          \/ \E j \in Jobs, what \in {"requeue", "discard"} : Resolve(a, what, j)
          \/ requeue(a) \/ TooLate(a) \/ discard(a) \/ Abandon(a)

\* A worker runs, and runs whatever it has started to an end.
JobsSpec == JobsInit /\ [][JobsNext]_jobVars /\ \A j \in Jobs : WF_jobVars(WorkerStep(j))

-----------------------------------------------------------------------------
\* Properties.

JobsTypeOK ==
    /\ state \in [Jobs -> States] /\ retriesLeft \in [Jobs -> 0..Retries]
    /\ desk \in [Admins -> AtDesk]
    /\ attempts \in [Jobs -> Nat] /\ requeues \in [Jobs -> 0..MaxRequeues]
    /\ {delivered, rejected} \subseteq [Jobs -> BOOLEAN] /\ removed \subseteq Jobs

\* However jobs fail and whoever requeues them, a job is run once, once more for
\* each retry of the policy, and once more for each requeue: a requeue does not
\* grant the retries anew, and two administrators requeue one failure once.
WithinBudget ==
    \A j \in Jobs : attempts[j] <= 1 + Retries + requeues[j]

\* What is rejected for good is not tried again by itself: it stays a failed job
\* until an administrator acts or it expires.
RejectedIsFinal ==
    [][\A j \in Jobs :
         rejected'[j] /\ state'[j] \notin {"failed", "gone"}
         => requeues'[j] > requeues[j] \/ (rejected[j] /\ state'[j] = state[j])]_jobVars

\* A message that has not been delivered is not lost track of: the job is waiting,
\* running or among the failed ones, unless somebody discarded it or it expired.
NothingVanishes ==
    \A j \in Jobs : delivered[j] \/ state[j] \notin {"finished", "gone"} \/ j \in removed

\* What was queued is run to an end, to the next delayed retry or to the DLQ.
EventuallyRun ==
    \A j \in Jobs : state[j] = "queued" ~> state[j] \in {"finished", "failed", "scheduled", "gone"}

\* A job that keeps failing ends in the dead-letter queue (or succeeds, or is
\* removed by somebody).
FailuresSurface ==
    \A j \in Jobs : state[j] = "queued" ~> state[j] \in {"finished", "failed", "gone"}
=============================================================================
