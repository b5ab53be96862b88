--------------------------- MODULE TriggerEngine ---------------------------
(***************************************************************************)
(* evaluate(): trigger workers and API requests take readings through the  *)
(* active triggers.  A trigger with a duration keeps the time of the first *)
(* breaching reading in Redis; whoever finds it old enough deletes it and  *)
(* fires.  Responders that write to the database do so in the evaluator's  *)
(* transaction, the others enqueue RQ jobs at once.                        *)
(*                                                                         *)
(* GET and the SETEX or DEL that follows are two steps, with no lock over  *)
(* them.  Evaluators and Redis read the same clock here.                   *)
(***************************************************************************)
EXTENDS Naturals

CONSTANTS
  Evaluators,  \* trigger workers and API requests
  Triggers,    \* the active triggers
  Scopes,      \* the scopes readings come from
  Kinds,       \* readings, as far as the conditions tell them apart
  ScopesOf,    \* the scopes each trigger matches: one, or all of them
  Measures,    \* the kinds of reading that carry the metric of each trigger
  Breaches,    \* those of them its condition holds for
  Duration,    \* duration_seconds of each trigger, 0 where it has none
  Responders,  \* the active responders of each trigger
  Queued,      \* the responders that enqueue a job
  DryRun,      \* the triggers in dry-run mode
  MinTtl,      \* the shortest time to live of a window
  Never,       \* no time
  MaxTime,     \* bound: the clock
  MaxReadings  \* bound: readings evaluated

ASSUME TriggersAssumption ==
  /\ ScopesOf \in [Triggers -> SUBSET Scopes]
  /\ Measures \in [Triggers -> SUBSET Kinds]
  /\ \A t \in Triggers : Breaches[t] \subseteq Measures[t]
  /\ Duration \in [Triggers -> Nat]
  /\ DryRun \subseteq Triggers
ASSUME TimeAssumption == MinTtl \in Nat \ {0} /\ MaxTime \in Nat /\ Never \notin Nat
ASSUME ReadingsAssumption == MaxReadings \in Nat

VARIABLES
  now,
  window,      \* trigger_state:<id>:<scope>:first_true in Redis
  task,        \* what each evaluator is doing
  jobs,        \* RQ jobs enqueued
  executions,  \* trigger_executions, committed
  effects,     \* what the other responders wrote, committed
  readings,    \* how many readings were taken
  streak,      \* history: since when a trigger was evaluated true in a scope
  breach,      \* history: the same over the readings of its metric only
  disturbed,   \* history: windows with overlapping or abandoned evaluations
  lost         \* history: readings whose evaluation was rolled back

redis == <<window, jobs>>
database == <<executions, effects>>
history == <<streak, breach, disturbed>>
vars == <<now, redis, task, database, readings, history, lost>>

Times == 0 .. MaxTime
Keys == {k \in Triggers \X Scopes : k[2] \in ScopesOf[k[1]]}
Gated(t) == Duration[t] > 0

\* Mutant: the key of the window leaves the scope out.
KeyOfTrigger(t, s) == <<t, CHOOSE x \in ScopesOf[t] : TRUE>>

\* _key(): windows are kept per trigger and scope of the reading.
Key(t, s) == <<t, s>>

Ttl(t) == IF 3 * Duration[t] > MinTtl THEN 3 * Duration[t] ELSE MinTtl

Idle == [pc |-> "idle"]
Gate(e) == task[e].pc = "gate"

\* The window an evaluator is at: what the history is kept for.
At(e) == <<task[e].trigger, task[e].scope>>

Empty == [since |-> Never]

\* GET of the key: the time in it, unless it is not there or has expired.
FirstTrue(k) ==
  IF window[k] # Empty /\ now < window[k].expires THEN window[k].since ELSE Never

Init ==
  /\ now = 0
  /\ window = [k \in Keys |-> Empty]
  /\ task = [e \in Evaluators |-> Idle]
  /\ jobs = {}
  /\ executions = {}
  /\ effects = {}
  /\ readings = 0
  /\ streak = [k \in Keys |-> Never]
  /\ breach = [k \in Keys |-> Never]
  /\ disturbed = {}
  /\ lost = {}

Tick ==
  /\ now < MaxTime
  /\ now' = now + 1
  /\ UNCHANGED <<redis, task, database, readings, history, lost>>

-----------------------------------------------------------------------------
\* History: what a reference implementation would know of the readings.

\* Is another evaluator between GET and SETEX or DEL of this key?
Overlapped(e, k) == \E o \in Evaluators \ {e} : Gate(o) /\ At(o) = k

BreachSeen(e, k) ==
  /\ streak' = [streak EXCEPT ![k] = IF @ = Never THEN now ELSE @]
  /\ breach' = [breach EXCEPT ![k] = IF @ = Never THEN now ELSE @]
  /\ disturbed' = IF Overlapped(e, k) THEN disturbed \cup {k} ELSE disturbed

\* The window was cleared: history and window start again together.
Cleared(e, k, ofMetric) ==
  /\ streak' = [streak EXCEPT ![k] = Never]
  /\ breach' = [breach EXCEPT ![k] = IF ofMetric THEN Never ELSE @]
  /\ disturbed' = IF Overlapped(e, k) THEN disturbed \cup {k} ELSE disturbed \ {k}

-----------------------------------------------------------------------------
\* One reading, one trigger after the other.

\* The triggers in scope, in no particular order.  One without a duration that
\* does not hold is passed over, which nothing shows.
Relevant(k, s) == {t \in Triggers : s \in ScopesOf[t] /\ (Gated(t) \/ k \in Breaches[t])}

Take(e, k, s) ==
  /\ task[e] = Idle
  /\ readings < MaxReadings
  /\ readings' = readings + 1
  /\ task' = [task EXCEPT ![e] =
                [pc |-> "loop", id |-> readings, kind |-> k, scope |-> s,
                 todo |-> Relevant(k, s),
                 trigger |-> Never, at |-> Never, seen |-> Never,
                 left |-> {}, ok |-> {}, failed |-> {},
                 made |-> {}, wrote |-> {}]]
  /\ UNCHANGED <<now, redis, database, history, lost>>

Looping(e, t) == task[e].pc = "loop" /\ t \in task[e].todo

\* evaluate_condition(): a reading without the metric counts as safe.
Holds(e, t) == task[e].kind \in Breaches[t]

\* fire() calls the responders, a dry run calls none.
Called(t) == IF t \in DryRun THEN {} ELSE Responders[t]

Decide(e, t) ==
  task' = [task EXCEPT ![e] =
             [task[e] EXCEPT !.pc = "respond", !.trigger = t, !.todo = @ \ {t},
                             !.left = Called(t), !.ok = {}, !.failed = {}]]

NextTrigger(e, t) ==
  task' = [task EXCEPT ![e] = [task[e] EXCEPT !.pc = "loop", !.todo = @ \ {t},
                                                  !.trigger = Never, !.at = Never, !.seen = Never]]

\* A trigger without a duration fires at once.
Pass(e, t) ==
  /\ Looping(e, t) /\ ~Gated(t)
  /\ Decide(e, t)
  /\ UNCHANGED <<now, redis, database, readings, history, lost>>

\* Mutant: a reading back to safe leaves the window open.
ResetNothing(e, t) ==
  /\ Looping(e, t) /\ Gated(t) /\ ~Holds(e, t)
  /\ Cleared(e, <<t, task[e].scope>>, task[e].kind \in Measures[t])
  /\ NextTrigger(e, t)
  /\ UNCHANGED <<now, redis, database, readings, lost>>

\* reset_duration_state()
Reset(e, t) ==
  /\ Looping(e, t) /\ Gated(t) /\ ~Holds(e, t)
  /\ window' = [window EXCEPT ![Key(t, task[e].scope)] = Empty]
  /\ Cleared(e, <<t, task[e].scope>>, task[e].kind \in Measures[t])
  /\ NextTrigger(e, t)
  /\ UNCHANGED <<now, jobs, database, readings, lost>>

\* should_fire_with_duration(), as far as the GET.
Look(e, t) ==
  /\ Looping(e, t) /\ Gated(t) /\ Holds(e, t)
  /\ task' = [task EXCEPT ![e] =
                [task[e] EXCEPT !.pc = "gate", !.trigger = t, !.at = now,
                                !.seen = FirstTrue(Key(t, task[e].scope))]]
  /\ BreachSeen(e, <<t, task[e].scope>>)
  /\ UNCHANGED <<now, redis, database, readings, lost>>

KeyHeld(e) == Key(task[e].trigger, task[e].scope)
Elapsed(e) == task[e].at - task[e].seen

\* SETEX.  After a silence longer than the window lives, the count restarts.
Open(e) ==
  LET k == At(e)
      since(h) == IF h[k] # Never /\ task[e].at >= h[k] + Ttl(k[1]) THEN task[e].at ELSE h[k]
  IN /\ Gate(e) /\ task[e].seen = Never
     /\ window' = [window EXCEPT ![KeyHeld(e)] =
                     [since |-> task[e].at, expires |-> now + Ttl(task[e].trigger)]]
     /\ streak' = [streak EXCEPT ![k] = since(streak)]
     /\ breach' = [breach EXCEPT ![k] = since(breach)]
     /\ NextTrigger(e, task[e].trigger)
     /\ UNCHANGED <<now, jobs, database, readings, disturbed, lost>>

Wait(e) ==
  /\ Gate(e) /\ task[e].seen # Never /\ Elapsed(e) < Duration[task[e].trigger]
  /\ NextTrigger(e, task[e].trigger)
  /\ UNCHANGED <<now, redis, database, readings, history, lost>>

\* DEL: the next breach is timed from scratch.
Close(e) ==
  /\ Gate(e) /\ task[e].seen # Never /\ Elapsed(e) >= Duration[task[e].trigger]
  /\ window' = [window EXCEPT ![KeyHeld(e)] = Empty]
  /\ Cleared(e, At(e), TRUE)
  /\ Decide(e, task[e].trigger)
  /\ UNCHANGED <<now, jobs, database, readings, lost>>

-----------------------------------------------------------------------------
\* fire()

Responding(e, r) == task[e].pc = "respond" /\ r \in task[e].left

\* A job is in Redis at once, a row is part of the transaction.  A responder
\* that raises may have done its work, or some of it, before.
Answer(e, r, done, ok) ==
  LET outcome == <<task[e].id, task[e].trigger, r>> IN
  /\ Responding(e, r)
  /\ jobs' = IF done /\ r \in Queued THEN jobs \cup {outcome} ELSE jobs
  /\ task' = [task EXCEPT ![e] =
                [task[e] EXCEPT !.left = @ \ {r},
                                !.ok = IF ok THEN @ \cup {r} ELSE @,
                                !.failed = IF ok THEN @ ELSE @ \cup {r},
                                !.wrote = IF done /\ r \notin Queued THEN @ \cup {outcome} ELSE @]]
  /\ UNCHANGED <<now, window, database, readings, history, lost>>

Succeed(e, r) == Answer(e, r, TRUE, TRUE)

\* Mutant: the error of a responder goes unnoticed.
FailUnnoticed(e, r) == \E done \in BOOLEAN : Answer(e, r, done, TRUE)

\* "responder failures must not abort the chain"
Fail(e, r) == \E done \in BOOLEAN : Answer(e, r, done, FALSE)

\* The row of the execution is complete; its audit row comes with it.
Record(e) ==
  /\ task[e].pc = "respond" /\ task[e].left = {}
  /\ task' = [task EXCEPT ![e] =
                [task[e] EXCEPT !.pc = "loop", !.trigger = Never, !.at = Never, !.seen = Never,
                                !.ok = {}, !.failed = {},
                                !.made = @ \cup {[id |-> task[e].id, trigger |-> task[e].trigger,
                                                  ok |-> task[e].ok, failed |-> task[e].failed]}]]
  /\ UNCHANGED <<now, redis, database, readings, history, lost>>

Commit(e) ==
  /\ task[e].pc = "loop" /\ task[e].todo = {}
  /\ executions' = executions \cup task[e].made
  /\ effects' = effects \cup task[e].wrote
  /\ task' = [task EXCEPT ![e] = Idle]
  /\ UNCHANGED <<now, redis, readings, history, lost>>

\* Mutant: the responders' rows survive the rollback.
AbandonKeeping(e) ==
  /\ task[e] # Idle
  /\ effects' = effects \cup task[e].wrote
  /\ lost' = lost \cup {task[e].id}
  /\ task' = [task EXCEPT ![e] = Idle]
  /\ UNCHANGED <<now, redis, executions, readings, history>>

\* A database error (which poisons the session, so that the except clause of
\* fire() raises too), a failed commit or a crash: rollback, but not of Redis.
Abandon(e) ==
  /\ task[e] # Idle
  /\ lost' = lost \cup {task[e].id}
  /\ disturbed' = IF Gate(e) THEN disturbed \cup {At(e)}
                             ELSE disturbed
  /\ task' = [task EXCEPT ![e] = Idle]
  /\ UNCHANGED <<now, redis, database, readings, streak, breach>>

Evaluate(e) ==
  \/ \E k \in Kinds, s \in Scopes : Take(e, k, s)
  \/ \E t \in Triggers : Pass(e, t) \/ Reset(e, t) \/ Look(e, t)
  \/ Open(e) \/ Wait(e) \/ Close(e)
  \/ \E t \in Triggers : \E r \in Responders[t] : Succeed(e, r) \/ Fail(e, r)
  \/ Record(e) \/ Commit(e) \/ Abandon(e)

Next == Tick \/ \E e \in Evaluators : Evaluate(e)

Spec == Init /\ [][Next]_vars

-----------------------------------------------------------------------------

Effects == {o \in (0 .. MaxReadings) \X Triggers \X UNION {Responders[t] : t \in Triggers} :
              o[3] \in Responders[o[2]]}
Rows == {o \in Effects : o[3] \notin Queued}
Execution ==
  [id : 0 .. MaxReadings, trigger : Triggers,
   ok : SUBSET UNION {Responders[t] : t \in Triggers},
   failed : SUBSET UNION {Responders[t] : t \in Triggers}]

\* Types, and that a dry run leaves neither jobs nor rows of responders.
TypeOK ==
  /\ now \in Times
  /\ \A k \in Keys : window[k] = Empty \/ window[k].since <= now
  /\ jobs \subseteq {o \in Effects \ Rows : o[2] \notin DryRun}
  /\ executions \subseteq Execution
  /\ effects \subseteq {o \in Rows : o[2] \notin DryRun}
  /\ readings \in 0 .. MaxReadings
  /\ streak \in [Keys -> Times \cup {Never}] /\ breach \in [Keys -> Times \cup {Never}]
  /\ disturbed \subseteq Keys /\ lost \subseteq 0 .. MaxReadings

(* A trigger with a duration only fires when every reading evaluated for it *)
(* in the scope since that long ago was a breach and it has not fired in    *)
(* between, unless evaluations of the window overlapped or were abandoned.  *)
AlarmIsDue ==
  [][\A e \in Evaluators : \A k \in Keys \ disturbed :
       Gate(e) /\ At(e) = k /\ task'[e].pc = "respond"
         => streak[k] # Never /\ task[e].at - streak[k] >= Duration[k[1]]]_vars

(* Conversely, a breaching reading that does not fire comes too early, or   *)
(* so late that the window of the streak has expired in silence.            *)
NoAlarmMissed ==
  [][\A e \in Evaluators : \A k \in Keys \ disturbed :
       Gate(e) /\ At(e) = k /\ task'[e].pc = "loop"
         => \/ task[e].at - streak[k] < Duration[k[1]]
            \/ task[e].at >= streak[k] + Ttl(k[1])]_vars

(* What an execution reports as done is done: its rows were committed with  *)
(* it, its jobs are in the queue.                                           *)
ReportedIsDone ==
  \A x \in executions : \A r \in x.ok : <<x.id, x.trigger, r>> \in effects \cup jobs

Reported(o) ==
  \E x \in executions : x.id = o[1] /\ x.trigger = o[2] /\ o[3] \in x.ok \cup x.failed

(* Every row a responder wrote, and every job, is accounted for by an       *)
(* execution; only jobs of an evaluation that is under way or was rolled    *)
(* back are not.                                                            *)
NothingUnreported ==
  /\ \A o \in effects : Reported(o)
  /\ \A o \in jobs :
       \/ Reported(o)
       \/ o[1] \in lost
       \/ \E e \in Evaluators : task[e] # Idle /\ task[e].id = o[1]

(* "only fires after the metric has continuously breached the threshold for *)
(* 30s ... reset when the condition flips back to safe": a reading of a     *)
(* metric that has been in breach that long fires.                          *)
SustainedBreachFires ==
  [][\A e \in Evaluators : \A k \in Keys \ disturbed :
       Gate(e) /\ At(e) = k /\ task'[e].pc = "loop"
         => \/ task[e].at - breach[k] < Duration[k[1]]
            \/ task[e].at >= breach[k] + Ttl(k[1])]_vars
=============================================================================
