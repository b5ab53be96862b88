------------------------ MODULE TriggerEngineProofs ------------------------
(***************************************************************************)
(* Proofs about TriggerEngine, for any evaluators, triggers, scopes and    *)
(* durations: what an execution reports is done and what is done is        *)
(* reported, and a window that nobody disturbed fires exactly when it is   *)
(* due.                                                                    *)
(*                                                                         *)
(* ReportInv follows a row or a job from the responder that made it to the *)
(* execution that reports it.  WindowInv relates the window in Redis, what *)
(* an evaluator has read of it, and the history of the breaches.           *)
(***************************************************************************)
EXTENDS TriggerEngine, TLAPS

Everybody == UNION {Responders[t] : t \in Triggers}

Task ==
  [pc : {"loop", "gate", "respond"}, id : 0 .. MaxReadings, kind : Kinds, scope : Scopes,
   todo : SUBSET Triggers, trigger : Triggers \cup {Never},
   at : Times \cup {Never}, seen : Nat \cup {Never},
   left : SUBSET Everybody, ok : SUBSET Everybody, failed : SUBSET Everybody,
   made : SUBSET Execution, wrote : SUBSET Rows]
Window == [since : Nat, expires : Nat]

\* Where an evaluator is, beyond the types.
TaskOK(e) ==
  task[e] # Idle =>
    /\ \A t \in task[e].todo : task[e].scope \in ScopesOf[t]
    /\ task[e].pc = "gate" =>
         /\ task[e].trigger \in Triggers /\ Gated(task[e].trigger) /\ At(e) \in Keys
         /\ task[e].at \in Times /\ task[e].at <= now
    /\ task[e].pc = "respond" =>
         task[e].trigger \in Triggers /\ task[e].left \subseteq Called(task[e].trigger)
    /\ \A o \in task[e].wrote : o[2] \notin DryRun

Types ==
  /\ now \in Times /\ readings \in 0 .. MaxReadings
  /\ window \in [Keys -> {Empty} \cup Window]
  /\ \A k \in Keys : window[k] # Empty => window[k].since <= now
  /\ task \in [Evaluators -> {Idle} \cup Task] /\ \A e \in Evaluators : TaskOK(e)
  /\ jobs \subseteq {o \in Effects \ Rows : o[2] \notin DryRun}
  /\ executions \subseteq Execution
  /\ effects \subseteq {o \in Rows : o[2] \notin DryRun}
  /\ streak \in [Keys -> Times \cup {Never}] /\ breach \in [Keys -> Times \cup {Never}]
  /\ disturbed \subseteq Keys /\ lost \subseteq 0 .. MaxReadings

\* What an evaluator will report of a row or a job: in an execution that it has
\* made, or in the one that its responders are at.
InMade(e, o) ==
  \E x \in task[e].made : x.id = o[1] /\ x.trigger = o[2] /\ o[3] \in x.ok \cup x.failed
InHand(e, o) ==
  /\ task[e].pc = "respond"
  /\ o[1] = task[e].id /\ o[2] = task[e].trigger /\ o[3] \in task[e].ok \cup task[e].failed
WillReport(e, o) == task[e] # Idle /\ task[e].id = o[1] /\ (InMade(e, o) \/ InHand(e, o))

\* An evaluator has done what it will report as done, and will report what it has
\* written.
HandOK(e) ==
  task[e] # Idle =>
    /\ \A x \in task[e].made : \A r \in x.ok :
         <<x.id, x.trigger, r>> \in task[e].wrote \cup jobs
    /\ task[e].pc = "respond" => \A r \in task[e].ok :
         <<task[e].id, task[e].trigger, r>> \in task[e].wrote \cup jobs
    /\ \A o \in task[e].wrote : WillReport(e, o)

JobOK(o) == Reported(o) \/ o[1] \in lost \/ \E e \in Evaluators : WillReport(e, o)

ReportInv ==
  /\ \A e \in Evaluators : HandOK(e)
  /\ \A o \in effects : Reported(o)
  /\ \A o \in jobs : JobOK(o)
  /\ ReportedIsDone

Within(e, k) == Gate(e) /\ At(e) = k

\* The window and the history agree between two evaluations ...
Agrees(k) ==
  IF window[k] = Empty THEN streak[k] = Never
  ELSE /\ streak[k] = window[k].since
       /\ window[k].expires >= window[k].since + Ttl(k[1])

\* ... and an evaluator between GET and SETEX or DEL has read what is there.
HasRead(e, k) ==
  /\ streak[k] \in Nat /\ streak[k] <= task[e].at
  /\ IF task[e].seen = Never
       THEN streak[k] = task[e].at \/ task[e].at >= streak[k] + Ttl(k[1])
       ELSE task[e].seen = streak[k] /\ window[k] # Empty /\ Agrees(k)

\* At most one evaluator is at an undisturbed window.
KeyOK(k) ==
  /\ \A e, o \in Evaluators : Within(e, k) /\ Within(o, k) => e = o
  /\ \A e \in Evaluators : Within(e, k) => HasRead(e, k)
  /\ (\A e \in Evaluators : ~Within(e, k)) => Agrees(k)

WindowInv == \A k \in Keys \ disturbed : KeyOK(k)

IInv == Types /\ ReportInv /\ WindowInv

-----------------------------------------------------------------------------

LEMMA Tasks ==
  ASSUME Types, NEW e \in Evaluators
  PROVE  /\ task[e] = Idle \/ task[e] \in Task
         /\ task[e] = Idle <=> task[e].pc = "idle"
         /\ task[e] \in Task => task[e] # Idle
  BY DEF Types, Idle, Task

LEMMA TaskChanges ==
  ASSUME Types, NEW e \in Evaluators, NEW new \in {Idle} \cup Task,
         task' = [task EXCEPT ![e] = new]
  PROVE  /\ task' \in [Evaluators -> {Idle} \cup Task] /\ task'[e] = new
         /\ \A o \in Evaluators : o # e => task'[o] = task[o]
  BY DEF Types

\* What an evaluator keeps from a trigger to the next.
Keeps(e) ==
  /\ task'[e].id = task[e].id /\ task'[e].kind = task[e].kind
  /\ task'[e].scope = task[e].scope
  /\ task'[e].made = task[e].made /\ task'[e].wrote = task[e].wrote

Others(e) == \A o \in Evaluators : o # e => task'[o] = task[o]

LEMMA CalledIsAnybody ==
  ASSUME NEW t \in Triggers
  PROVE  Called(t) \in SUBSET Everybody /\ Responders[t] \in SUBSET Everybody
  BY DEF Called, Everybody

LEMMA DecideChanges ==
  ASSUME Types, NEW e \in Evaluators, task[e] \in Task, NEW t \in Triggers, Decide(e, t)
  PROVE  /\ task' \in [Evaluators -> {Idle} \cup Task] /\ task'[e] \in Task
         /\ Others(e) /\ Keeps(e)
         /\ task'[e].pc = "respond" /\ task'[e].trigger = t
         /\ task'[e].todo = task[e].todo \ {t} /\ task'[e].left = Called(t)
         /\ task'[e].ok = {} /\ task'[e].failed = {}
  <1> DEFINE new == [task[e] EXCEPT !.pc = "respond", !.trigger = t, !.todo = @ \ {t},
                                    !.left = Called(t), !.ok = {}, !.failed = {}]
  <1>1. /\ new \in Task /\ new.pc = "respond" /\ new.trigger = t
        /\ new.todo = task[e].todo \ {t} /\ new.left = Called(t)
        /\ new.ok = {} /\ new.failed = {}
        /\ new.id = task[e].id /\ new.kind = task[e].kind /\ new.scope = task[e].scope
        /\ new.made = task[e].made /\ new.wrote = task[e].wrote
    BY CalledIsAnybody DEF Task
  <1>2. task' = [task EXCEPT ![e] = new]
    BY Zenon DEF Decide
  <1> HIDE DEF new
  <1> QED
    BY <1>1, <1>2, TaskChanges DEF Keeps, Others

LEMMA NextTriggerChanges ==
  ASSUME Types, NEW e \in Evaluators, task[e] \in Task, NEW t \in Triggers, NextTrigger(e, t)
  PROVE  /\ task' \in [Evaluators -> {Idle} \cup Task] /\ task'[e] \in Task
         /\ Others(e) /\ Keeps(e)
         /\ task'[e].pc = "loop" /\ task'[e].todo = task[e].todo \ {t}
  <1> DEFINE new == [task[e] EXCEPT !.pc = "loop", !.todo = @ \ {t},
                                    !.trigger = Never, !.at = Never, !.seen = Never]
  <1>1. /\ new \in Task /\ new.pc = "loop" /\ new.todo = task[e].todo \ {t}
        /\ new.id = task[e].id /\ new.kind = task[e].kind /\ new.scope = task[e].scope
        /\ new.made = task[e].made /\ new.wrote = task[e].wrote
    BY DEF Task
  <1>2. task' = [task EXCEPT ![e] = new]
    BY Zenon DEF NextTrigger
  <1> HIDE DEF new
  <1> QED
    BY <1>1, <1>2, TaskChanges DEF Keeps, Others

(* The window of a trigger in scope is one of the keys.                     *)
LEMMA KeyInScope ==
  ASSUME Types, NEW e \in Evaluators, NEW t \in Triggers, Looping(e, t)
  PROVE  /\ task[e] \in Task /\ <<t, task[e].scope>> \in Keys
         /\ Key(t, task[e].scope) = <<t, task[e].scope>>
  <1>1. task[e] \in Task
    BY Tasks DEF Looping
  <1>2. task[e].scope \in Scopes /\ task[e].scope \in ScopesOf[t]
    BY <1>1, Tasks DEF Task, Looping, Types, TaskOK
  <1> QED
    BY <1>1, <1>2 DEF Keys, Key

LEMMA LookChanges ==
  ASSUME Types, NEW e \in Evaluators, NEW t \in Triggers, Look(e, t)
  PROVE  /\ task' \in [Evaluators -> {Idle} \cup Task] /\ task'[e] \in Task
         /\ Others(e) /\ Keeps(e)
         /\ task'[e].pc = "gate" /\ task'[e].todo = task[e].todo /\ task'[e].trigger = t
         /\ task'[e].at = now /\ task'[e].seen = FirstTrue(<<t, task[e].scope>>)
         /\ task[e] \in Task /\ <<t, task[e].scope>> \in Keys
  <1> DEFINE k == <<t, task[e].scope>>
             new == [task[e] EXCEPT !.pc = "gate", !.trigger = t, !.at = now,
                                    !.seen = FirstTrue(k)]
  <1>1. task[e] \in Task /\ k \in Keys /\ Key(t, task[e].scope) = k
    BY KeyInScope DEF Look
  <1>2. FirstTrue(k) \in Nat \cup {Never}
    <2>1. window[k] # Empty => window[k] \in Window
      BY <1>1 DEF Types
    <2> QED
      BY <2>1 DEF FirstTrue, Window
  <1>3. now \in Times
    BY DEF Types
  <1> HIDE DEF k
  <1>4. /\ new \in Task /\ new.pc = "gate" /\ new.trigger = t /\ new.todo = task[e].todo
        /\ new.at = now /\ new.seen = FirstTrue(k)
        /\ new.id = task[e].id /\ new.kind = task[e].kind /\ new.scope = task[e].scope
        /\ new.made = task[e].made /\ new.wrote = task[e].wrote
    BY <1>1, <1>2, <1>3 DEF Task
  <1>5. task' = [task EXCEPT ![e] = new]
    BY <1>1 DEF Look
  <1> HIDE DEF new
  <1> QED
    BY <1>1, <1>4, <1>5, TaskChanges DEF Keeps, Others, k

LEMMA TakeChanges ==
  ASSUME Types, NEW e \in Evaluators, NEW k \in Kinds, NEW s \in Scopes, Take(e, k, s)
  PROVE  /\ task' \in [Evaluators -> {Idle} \cup Task] /\ task'[e] \in Task /\ Others(e)
         /\ task'[e].pc = "loop" /\ task'[e].todo = Relevant(k, s) /\ task'[e].scope = s
         /\ task'[e].made = {} /\ task'[e].wrote = {} /\ task[e] = Idle
  <1> DEFINE new == [pc |-> "loop", id |-> readings, kind |-> k, scope |-> s,
                     todo |-> Relevant(k, s),
                     trigger |-> Never, at |-> Never, seen |-> Never,
                     left |-> {}, ok |-> {}, failed |-> {},
                     made |-> {}, wrote |-> {}]
  <1>1. task' = [task EXCEPT ![e] = new] /\ task[e] = Idle
    BY DEF Take
  <1>2. readings \in 0 .. MaxReadings /\ Relevant(k, s) \in SUBSET Triggers
    BY DEF Types, Relevant
  <1>3. /\ new \in Task /\ new.pc = "loop" /\ new.todo = Relevant(k, s) /\ new.scope = s
        /\ new.made = {} /\ new.wrote = {}
    BY <1>2 DEF Task
  <1> HIDE DEF new
  <1> QED
    BY <1>1, <1>3, TaskChanges DEF Others

Outcome(e, r) == <<task[e].id, task[e].trigger, r>>

\* What one responder changes.
Answered(e, r, done, ok) ==
  /\ task' \in [Evaluators -> {Idle} \cup Task] /\ task'[e] \in Task /\ Others(e)
  /\ task[e] \in Task /\ r \in task[e].left /\ task[e].pc = "respond"
  /\ task[e].trigger \in Triggers \ DryRun /\ r \in Responders[task[e].trigger]
  /\ Outcome(e, r) \in Effects /\ (r \notin Queued => Outcome(e, r) \in Rows)
  /\ task'[e].pc = "respond" /\ task'[e].todo = task[e].todo
  /\ task'[e].id = task[e].id /\ task'[e].trigger = task[e].trigger
  /\ task'[e].scope = task[e].scope /\ task'[e].made = task[e].made
  /\ task'[e].left = task[e].left \ {r}
  /\ task'[e].ok = (IF ok THEN task[e].ok \cup {r} ELSE task[e].ok)
  /\ task'[e].failed = (IF ok THEN task[e].failed ELSE task[e].failed \cup {r})
  /\ task'[e].wrote = (IF done /\ r \notin Queued THEN task[e].wrote \cup {Outcome(e, r)}
                                                ELSE task[e].wrote)
  /\ jobs' = (IF done /\ r \in Queued THEN jobs \cup {Outcome(e, r)} ELSE jobs)

LEMMA AnswerChanges ==
  ASSUME Types, NEW e \in Evaluators, NEW r, NEW done \in BOOLEAN, NEW ok \in BOOLEAN,
         Answer(e, r, done, ok)
  PROVE  Answered(e, r, done, ok)
  <1> DEFINE Ok == IF ok THEN task[e].ok \cup {r} ELSE task[e].ok
             Failed == IF ok THEN task[e].failed ELSE task[e].failed \cup {r}
             Wrote == IF done /\ r \notin Queued THEN task[e].wrote \cup {Outcome(e, r)}
                                                 ELSE task[e].wrote
             new == [task[e] EXCEPT !.left = @ \ {r}, !.ok = Ok, !.failed = Failed,
                                    !.wrote = Wrote]
  <1>1. task[e] \in Task /\ r \in task[e].left /\ task[e].pc = "respond"
    BY Tasks DEF Answer, Responding
  <1>2. task[e].trigger \in Triggers /\ r \in Called(task[e].trigger)
    BY <1>1, Tasks DEF Types, TaskOK
  <1>3. task[e].trigger \in Triggers \ DryRun /\ r \in Responders[task[e].trigger]
    BY <1>2 DEF Called
  <1>4. r \in Everybody /\ task[e].id \in 0 .. MaxReadings
    BY <1>1, <1>3 DEF Everybody, Task
  <1>5. Outcome(e, r) \in Effects /\ (r \notin Queued => Outcome(e, r) \in Rows)
    BY <1>3, <1>4 DEF Effects, Rows, Outcome, Everybody
  <1>6. /\ Ok \in SUBSET Everybody /\ Failed \in SUBSET Everybody /\ Wrote \in SUBSET Rows
    BY <1>1, <1>4, <1>5 DEF Task
  <1>7. task' = [task EXCEPT ![e] = new]
    BY DEF Answer, Outcome
  <1> HIDE DEF Ok, Failed, Wrote
  <1>8. /\ new \in Task /\ new.pc = "respond" /\ new.todo = task[e].todo
        /\ new.id = task[e].id /\ new.trigger = task[e].trigger
        /\ new.scope = task[e].scope /\ new.made = task[e].made
        /\ new.left = task[e].left \ {r} /\ new.ok = Ok /\ new.failed = Failed
        /\ new.wrote = Wrote
    BY <1>1, <1>6 DEF Task
  <1>9. jobs' = IF done /\ r \in Queued THEN jobs \cup {Outcome(e, r)} ELSE jobs
    BY DEF Answer, Outcome
  <1> HIDE DEF new
  <1> QED
    BY <1>1, <1>3, <1>5, <1>7, <1>8, <1>9, TaskChanges
       DEF Answered, Others, Ok, Failed, Wrote

NewExecution(e) == [id |-> task[e].id, trigger |-> task[e].trigger,
                    ok |-> task[e].ok, failed |-> task[e].failed]

LEMMA RecordChanges ==
  ASSUME Types, NEW e \in Evaluators, Record(e)
  PROVE  /\ task' \in [Evaluators -> {Idle} \cup Task] /\ task'[e] \in Task /\ Others(e)
         /\ task[e] \in Task /\ task[e].pc = "respond"
         /\ task'[e].pc = "loop" /\ task'[e].todo = task[e].todo
         /\ task'[e].id = task[e].id /\ task'[e].scope = task[e].scope
         /\ task'[e].wrote = task[e].wrote
         /\ task'[e].made = task[e].made \cup {NewExecution(e)}
  <1> DEFINE Made == task[e].made \cup {NewExecution(e)}
             new == [task[e] EXCEPT !.pc = "loop", !.trigger = Never, !.at = Never,
                                    !.seen = Never, !.ok = {}, !.failed = {}, !.made = Made]
  <1>1. task[e] \in Task /\ task[e].pc = "respond"
    BY Tasks DEF Record
  <1>2. task[e].trigger \in Triggers
    BY <1>1, Tasks DEF Types, TaskOK
  <1>3. NewExecution(e) \in Execution
    BY <1>1, <1>2 DEF NewExecution, Execution, Task, Everybody
  <1>4. Made \in SUBSET Execution
    BY <1>1, <1>3 DEF Task
  <1>5. task' = [task EXCEPT ![e] = new]
    BY DEF Record, NewExecution
  <1> HIDE DEF Made
  <1>6. /\ new \in Task /\ new.pc = "loop" /\ new.todo = task[e].todo /\ new.id = task[e].id
        /\ new.scope = task[e].scope /\ new.wrote = task[e].wrote /\ new.made = Made
    BY <1>1, <1>4 DEF Task
  <1> HIDE DEF new
  <1> QED
    BY <1>1, <1>5, <1>6, TaskChanges DEF Others, Made

LEMMA EndChanges ==
  ASSUME Types, NEW e \in Evaluators, task' = [task EXCEPT ![e] = Idle]
  PROVE  task' \in [Evaluators -> {Idle} \cup Task] /\ task'[e] = Idle /\ Others(e)
  BY TaskChanges DEF Others

-----------------------------------------------------------------------------

HistoryTypes ==
  /\ streak \in [Keys -> Times \cup {Never}] /\ breach \in [Keys -> Times \cup {Never}]
  /\ disturbed \subseteq Keys

RedisTypes ==
  /\ window \in [Keys -> {Empty} \cup Window]
  /\ \A k \in Keys : window[k] # Empty => window[k].since <= now
  /\ jobs \subseteq {o \in Effects \ Rows : o[2] \notin DryRun}

DatabaseTypes ==
  /\ executions \subseteq Execution
  /\ effects \subseteq {o \in Rows : o[2] \notin DryRun}
  /\ readings \in 0 .. MaxReadings /\ lost \subseteq 0 .. MaxReadings

TaskTypes ==
  /\ now \in Times
  /\ task \in [Evaluators -> {Idle} \cup Task] /\ \A e \in Evaluators : TaskOK(e)

LEMMA TypesParts == Types <=> TaskTypes /\ RedisTypes /\ DatabaseTypes /\ HistoryTypes
  BY DEF Types, TaskTypes, RedisTypes, DatabaseTypes, HistoryTypes

(* The window a gate is at is one of the keys, read no later than now.      *)
LEMMA AtGate ==
  ASSUME Types, NEW e \in Evaluators, Gate(e)
  PROVE  /\ task[e] \in Task /\ task[e].trigger \in Triggers /\ Gated(task[e].trigger)
         /\ At(e) \in Keys /\ KeyHeld(e) = At(e) /\ At(e)[1] = task[e].trigger
         /\ task[e].at \in Times /\ task[e].at <= now
         /\ task[e].seen \in Nat \cup {Never}
  <1>1. task[e] \in Task
    BY Tasks DEF Gate
  <1>2. task[e].seen \in Nat \cup {Never}
    BY <1>1 DEF Task
  <1> QED
    BY <1>1, <1>2, Tasks DEF Types, TaskOK, Gate, At, KeyHeld, Key

LEMMA StepOfHistory ==
  ASSUME Types, NEW e, NEW k \in Keys,
         \/ BreachSeen(e, k)
         \/ \E ofMetric \in BOOLEAN : Cleared(e, k, ofMetric)
  PROVE  HistoryTypes'
  <1>1. now \in Times
    BY DEF Types
  <1>2. disturbed' \subseteq Keys
    BY DEF BreachSeen, Cleared, Types
  <1>3. CASE BreachSeen(e, k)
    BY <1>1, <1>2, <1>3 DEF BreachSeen, HistoryTypes, Types
  <1>4. CASE \E ofMetric \in BOOLEAN : Cleared(e, k, ofMetric)
    BY <1>2, <1>4 DEF Cleared, HistoryTypes, Types
  <1> QED
    BY <1>3, <1>4

(* One evaluator's step leaves the others where they are.                   *)
LEMMA StepOfTask ==
  ASSUME Types, NEW e \in Evaluators, now' = now, Others(e),
         task' \in [Evaluators -> {Idle} \cup Task], TaskOK(e)'
  PROVE  TaskTypes'
  <1>1. ASSUME NEW o \in Evaluators, o # e
        PROVE  TaskOK(o)'
    <2>1. task'[o] = task[o] /\ TaskOK(o)
      BY <1>1 DEF Others, Types
    <2> QED
      BY <2>1 DEF TaskOK, At
  <1> QED
    BY <1>1 DEF TaskTypes, Types

LEMMA Closing ==
  ASSUME Types, NEW k \in Keys, window' = [window EXCEPT ![k] = Empty],
         jobs' = jobs, now' = now
  PROVE  RedisTypes'
  BY DEF RedisTypes, Types

LEMMA TypesStep ==
  ASSUME Types, Next
  PROVE  Types'
  <1>1. SUFFICES TaskTypes' /\ RedisTypes' /\ DatabaseTypes' /\ HistoryTypes'
    <2>1. (TaskTypes /\ RedisTypes /\ DatabaseTypes /\ HistoryTypes)' => Types'
      BY DEF Types, TaskTypes, RedisTypes, DatabaseTypes, HistoryTypes
    <2> QED
      BY <2>1
  <1>2. TaskTypes /\ RedisTypes /\ DatabaseTypes /\ HistoryTypes
    BY TypesParts
  <1>3. UNCHANGED <<now, window, jobs>> => RedisTypes'
    BY <1>2 DEF RedisTypes
  <1>4. UNCHANGED <<executions, effects, readings, lost>> => DatabaseTypes'
    BY <1>2 DEF DatabaseTypes
  <1>5. UNCHANGED history => HistoryTypes'
    BY <1>2 DEF HistoryTypes, history
  <1>6. CASE Tick
    <2>1. now' = now + 1 /\ now' \in Times /\ now \in Nat
      BY <1>2, <1>6, TimeAssumption DEF Tick, TaskTypes, Times
    <2>2. DatabaseTypes' /\ HistoryTypes'
      BY <1>4, <1>5, <1>6 DEF Tick, database
    <2>3. RedisTypes'
      <3>1. ASSUME NEW k \in Keys, window[k] # Empty
            PROVE  window[k].since <= now'
        <4>1. window[k] \in Window /\ window[k].since <= now
          BY <1>2, <3>1 DEF RedisTypes
        <4>2. window[k].since \in Nat
          BY <4>1 DEF Window
        <4> QED
          BY <2>1, <4>1, <4>2
      <3> QED
        BY <1>2, <1>6, <3>1 DEF Tick, redis, RedisTypes
    <2>4. ASSUME NEW e \in Evaluators
          PROVE  TaskOK(e)'
      <3>1. task'[e] = task[e] /\ TaskOK(e)
        BY <1>2, <1>6 DEF Tick, TaskTypes
      <3>2. task[e] # Idle /\ task[e].pc = "gate" => task[e].at \in Nat
        BY <3>1, TimeAssumption DEF TaskOK, Times
      <3> QED
        BY <2>1, <3>1, <3>2 DEF TaskOK, At
    <2>5. TaskTypes'
      BY <1>2, <1>6, <2>1, <2>4 DEF Tick, TaskTypes
    <2> QED
      BY <2>2, <2>3, <2>5
  <1>7. ASSUME NEW e \in Evaluators, NEW k \in Kinds, NEW s \in Scopes, Take(e, k, s)
        PROVE  TaskTypes' /\ RedisTypes' /\ DatabaseTypes' /\ HistoryTypes'
    <2>1. TaskOK(e)'
      BY <1>7, TakeChanges DEF TaskOK, Relevant
    <2>2. TaskTypes'
      BY <1>7, <2>1, TakeChanges, StepOfTask DEF Take
    <2>3. DatabaseTypes'
      BY <1>2, <1>7, ReadingsAssumption DEF Take, DatabaseTypes, database
    <2> QED
      BY <1>3, <1>5, <1>7, <2>2, <2>3 DEF Take, redis
  <1>8. ASSUME NEW e \in Evaluators, NEW t \in Triggers, Looping(e, t), Decide(e, t), now' = now
        PROVE  TaskTypes'
    <2>1. task[e] \in Task /\ \A u \in task[e].todo : task[e].scope \in ScopesOf[u]
      BY <1>8, KeyInScope, Tasks DEF Types, TaskOK
    <2>2. TaskOK(e)'
      BY <1>8, <2>1, DecideChanges, Tasks DEF TaskOK, Keeps, Types
    <2> QED
      BY <1>8, <2>1, <2>2, DecideChanges, StepOfTask
  <1>9. ASSUME NEW e \in Evaluators, NEW t \in Triggers, task[e] \in Task, now' = now,
               NextTrigger(e, t) \/ (Decide(e, t) /\ t \in Triggers)
        PROVE  TaskTypes'
    <2>1. \A u \in task[e].todo : task[e].scope \in ScopesOf[u]
      BY <1>9, Tasks DEF Types, TaskOK
    <2>2. TaskOK(e)'
      BY <1>9, <2>1, DecideChanges, NextTriggerChanges, Tasks DEF TaskOK, Keeps, Types
    <2> QED
      BY <1>9, <2>2, DecideChanges, NextTriggerChanges, StepOfTask
  <1>10. ASSUME NEW e \in Evaluators, NEW t \in Triggers, Pass(e, t)
         PROVE  TaskTypes' /\ RedisTypes' /\ DatabaseTypes' /\ HistoryTypes'
    BY <1>3, <1>4, <1>5, <1>8, <1>10 DEF Pass, redis, database
  <1>11. ASSUME NEW e \in Evaluators, NEW t \in Triggers, Reset(e, t)
         PROVE  TaskTypes' /\ RedisTypes' /\ DatabaseTypes' /\ HistoryTypes'
    <2>1. task[e] \in Task /\ <<t, task[e].scope>> \in Keys
          /\ Key(t, task[e].scope) = <<t, task[e].scope>>
      BY <1>11, KeyInScope DEF Reset
    <2>2. TaskTypes'
      BY <1>9, <1>11, <2>1 DEF Reset
    <2>3. HistoryTypes'
      <3>1. (task[e].kind \in Measures[t]) \in BOOLEAN
        OBVIOUS
      <3> QED
        BY <1>11, <2>1, <3>1, StepOfHistory DEF Reset
    <2>4. RedisTypes'
      BY <1>11, <2>1, Closing DEF Reset
    <2> QED
      BY <1>4, <1>11, <2>2, <2>3, <2>4 DEF Reset, database
  <1>12. ASSUME NEW e \in Evaluators, NEW t \in Triggers, Look(e, t)
         PROVE  TaskTypes' /\ RedisTypes' /\ DatabaseTypes' /\ HistoryTypes'
    <2>1. /\ task[e] \in Task /\ <<t, task[e].scope>> \in Keys /\ Gated(t) /\ now' = now
          /\ now \in Times
      BY <1>12, LookChanges DEF Look, Types
    <2>2. \A u \in task[e].todo : task[e].scope \in ScopesOf[u]
      BY <2>1, Tasks DEF Types, TaskOK
    <2>3. now <= now
      BY <2>1, TimeAssumption DEF Times
    <2>4. At(e)' = <<t, task[e].scope>>
      BY <1>12, LookChanges DEF At, Keeps
    <2>5. \A o \in task[e].wrote : o[2] \notin DryRun
      BY <2>1, Tasks DEF Types, TaskOK
    <2>6. TaskOK(e)'
      BY <1>12, <2>1, <2>2, <2>3, <2>4, <2>5, LookChanges DEF TaskOK, Keeps, Gated
    <2>7. TaskTypes'
      BY <1>12, <2>1, <2>6, LookChanges, StepOfTask
    <2>8. HistoryTypes'
      BY <1>12, <2>1, StepOfHistory DEF Look
    <2> QED
      BY <1>3, <1>4, <1>12, <2>7, <2>8 DEF Look, redis, database
  <1>13. ASSUME NEW e \in Evaluators, Open(e)
         PROVE  TaskTypes' /\ RedisTypes' /\ DatabaseTypes' /\ HistoryTypes'
    <2>1. /\ task[e] \in Task /\ task[e].trigger \in Triggers /\ At(e) \in Keys
          /\ KeyHeld(e) = At(e) /\ task[e].at \in Times /\ task[e].at <= now
      BY <1>13, AtGate DEF Open
    <2>2. TaskTypes'
      BY <1>9, <1>13, <2>1 DEF Open
    <2>3. Ttl(task[e].trigger) \in Nat /\ now \in Nat /\ task[e].at \in Nat
      <3>1. Duration[task[e].trigger] \in Nat
        BY <2>1, TriggersAssumption
      <3> QED
        BY <2>1, <3>1, TimeAssumption DEF Ttl, Types, Times
    <2>4. [since |-> task[e].at, expires |-> now + Ttl(task[e].trigger)] \in Window
      BY <2>3 DEF Window
    <2>5. RedisTypes'
      <3> DEFINE new == [since |-> task[e].at, expires |-> now + Ttl(task[e].trigger)]
      <3>1. window' = [window EXCEPT ![At(e)] = new] /\ jobs' = jobs /\ now' = now
        BY <1>13, <2>1 DEF Open
      <3>2. new \in Window /\ new.since <= now
        BY <2>1, <2>4
      <3> HIDE DEF new
      <3> QED
        BY <1>2, <3>1, <3>2 DEF RedisTypes
    <2>6. HistoryTypes'
      <3>1. PICK a, b \in Times \cup {Never} :
              streak' = [streak EXCEPT ![At(e)] = a] /\ breach' = [breach EXCEPT ![At(e)] = b]
        <4>1. streak[At(e)] \in Times \cup {Never} /\ breach[At(e)] \in Times \cup {Never}
          BY <2>1 DEF Types
        <4> QED
          BY <1>13, <2>1, <4>1 DEF Open
      <3>2. disturbed' = disturbed
        BY <1>13 DEF Open
      <3> QED
        BY <1>2, <3>1, <3>2 DEF HistoryTypes
    <2> QED
      BY <1>4, <1>13, <2>2, <2>5, <2>6 DEF Open, database
  <1>14. ASSUME NEW e \in Evaluators, Wait(e)
         PROVE  TaskTypes' /\ RedisTypes' /\ DatabaseTypes' /\ HistoryTypes'
    BY <1>3, <1>4, <1>5, <1>9, <1>14, AtGate DEF Wait, redis, database
  <1>15. ASSUME NEW e \in Evaluators, Close(e)
         PROVE  TaskTypes' /\ RedisTypes' /\ DatabaseTypes' /\ HistoryTypes'
    <2>1. /\ task[e] \in Task /\ task[e].trigger \in Triggers /\ At(e) \in Keys
          /\ KeyHeld(e) = At(e)
      BY <1>15, AtGate DEF Close
    <2>2. TaskTypes'
      BY <1>9, <1>15, <2>1 DEF Close
    <2>3. RedisTypes'
      BY <1>15, <2>1, Closing DEF Close
    <2>4. HistoryTypes'
      BY <1>15, <2>1, StepOfHistory DEF Close
    <2> QED
      BY <1>4, <1>15, <2>2, <2>3, <2>4 DEF Close, database
  <1>16. ASSUME NEW e \in Evaluators, NEW r, NEW done \in BOOLEAN, NEW ok \in BOOLEAN,
                Answer(e, r, done, ok)
         PROVE  TaskTypes' /\ RedisTypes' /\ DatabaseTypes' /\ HistoryTypes'
    <2> DEFINE o == Outcome(e, r)
    <2>0. Answered(e, r, done, ok)
      BY <1>16, AnswerChanges
    <2>1. /\ task[e] \in Task /\ task[e].pc = "respond" /\ o \in Effects
          /\ task[e].trigger \in Triggers \ DryRun
      BY <2>0 DEF Answered
    <2>2. o[2] = task[e].trigger /\ o[2] \notin DryRun
      BY <2>1 DEF Outcome
    <2>3. /\ \A t \in task[e].todo : task[e].scope \in ScopesOf[t]
          /\ task[e].left \subseteq Called(task[e].trigger)
          /\ \A x \in task[e].wrote : x[2] \notin DryRun
      BY <2>1, Tasks DEF Types, TaskOK
    <2> HIDE DEF o
    <2>4. \A x \in task'[e].wrote : x[2] \notin DryRun
      <3>1. task'[e].wrote \subseteq task[e].wrote \cup {o}
        BY <2>0 DEF Answered, o
      <3> QED
        BY <2>2, <2>3, <3>1
    <2>5. /\ task'[e].pc = "respond" /\ task'[e].todo = task[e].todo
          /\ task'[e].scope = task[e].scope /\ task'[e].trigger = task[e].trigger
          /\ task'[e].left \subseteq task[e].left
      BY <2>0 DEF Answered
    <2>6. TaskOK(e)'
      BY <2>1, <2>3, <2>4, <2>5 DEF TaskOK
    <2>7. TaskTypes'
      BY <1>16, <2>6, <2>0, StepOfTask DEF Answer, Answered
    <2>8. RedisTypes'
      <3>1. window' = window /\ now' = now
        BY <1>16 DEF Answer
      <3>2. r \in Queued => o \in Effects \ Rows
        <4>1. o[3] = r
          BY DEF o, Outcome
        <4> QED
          BY <2>1, <4>1 DEF Rows
      <3>3. jobs' \subseteq jobs \cup {o} /\ (r \notin Queued => jobs' = jobs)
        BY <2>0 DEF Answered, o
      <3>4. jobs' \subseteq {x \in Effects \ Rows : x[2] \notin DryRun}
        BY <1>2, <2>2, <3>2, <3>3 DEF RedisTypes
      <3> QED
        BY <1>2, <3>1, <3>4 DEF RedisTypes
    <2> QED
      BY <1>4, <1>5, <1>16, <2>7, <2>8 DEF Answer, database
  <1>17. ASSUME NEW e \in Evaluators, Record(e)
         PROVE  TaskTypes' /\ RedisTypes' /\ DatabaseTypes' /\ HistoryTypes'
    <2>1. TaskOK(e)'
      BY <1>17, RecordChanges, Tasks DEF TaskOK, Types
    <2>2. TaskTypes'
      BY <1>17, <2>1, RecordChanges, StepOfTask DEF Record
    <2> QED
      BY <1>3, <1>4, <1>5, <1>17, <2>2 DEF Record, redis, database
  <1>18. ASSUME NEW e \in Evaluators, task' = [task EXCEPT ![e] = Idle], now' = now
         PROVE  TaskTypes'
    <2>1. TaskOK(e)'
      BY <1>18, EndChanges DEF TaskOK
    <2> QED
      BY <1>18, <2>1, EndChanges, StepOfTask
  <1>19. ASSUME NEW e \in Evaluators, Commit(e)
         PROVE  TaskTypes' /\ RedisTypes' /\ DatabaseTypes' /\ HistoryTypes'
    <2>1. task[e] \in Task
      BY <1>19, Tasks DEF Commit
    <2>2. \A o \in task[e].wrote : o[2] \notin DryRun
      BY <2>1, Tasks DEF Types, TaskOK
    <2>3. task[e].made \subseteq Execution /\ task[e].wrote \subseteq Rows
      BY <2>1 DEF Task
    <2>4. DatabaseTypes'
      BY <1>2, <1>19, <2>2, <2>3 DEF Commit, DatabaseTypes
    <2> QED
      BY <1>3, <1>5, <1>18, <1>19, <2>4 DEF Commit, redis
  <1>20. ASSUME NEW e \in Evaluators, Abandon(e)
         PROVE  TaskTypes' /\ RedisTypes' /\ DatabaseTypes' /\ HistoryTypes'
    <2>1. task[e] \in Task /\ task[e].id \in 0 .. MaxReadings
      BY <1>20, Tasks DEF Abandon, Task
    <2>2. DatabaseTypes'
      BY <1>2, <1>20, <2>1 DEF Abandon, DatabaseTypes, database
    <2>3. HistoryTypes'
      BY <1>2, <1>20, AtGate DEF Abandon, HistoryTypes
    <2> QED
      BY <1>3, <1>18, <1>20, <2>2, <2>3 DEF Abandon, redis
  <1> QED
    BY <1>6, <1>7, <1>10, <1>11, <1>12, <1>13, <1>14, <1>15, <1>16, <1>17, <1>19, <1>20
       DEF Next, Evaluate, Succeed, Fail

-----------------------------------------------------------------------------

(* What a step of one evaluator owes to the reports.                        *)
LEMMA StepOfReports ==
  ASSUME Types, ReportInv, NEW e \in Evaluators, Others(e), HandOK(e)',
         jobs \subseteq jobs', executions \subseteq executions', lost \subseteq lost',
         effects \subseteq effects',
         \A o : WillReport(e, o) => WillReport(e, o)' \/ Reported(o)' \/ o[1] \in lost',
         \A o \in jobs' \ jobs : WillReport(e, o)',
         \A o \in effects' \ effects : Reported(o)',
         \A x \in executions' \ executions : \A r \in x.ok :
            <<x.id, x.trigger, r>> \in effects' \cup jobs'
  PROVE  ReportInv'
  <1>1. ASSUME NEW o \in Evaluators
        PROVE  HandOK(o)'
    <2>1. CASE o = e
      BY <2>1
    <2>2. CASE o # e
      <3>1. task'[o] = task[o] /\ HandOK(o)
        BY <2>2 DEF Others, ReportInv
      <3>2. ASSUME NEW x, WillReport(o, x)
            PROVE  WillReport(o, x)'
        BY <3>1, <3>2 DEF WillReport, InMade, InHand
      <3> QED
        BY <3>1, <3>2 DEF HandOK
    <2> QED
      BY <2>1, <2>2
  <1>2. ASSUME NEW o, Reported(o)
        PROVE  Reported(o)'
    BY <1>2 DEF Reported
  <1>3. \A o \in effects' : Reported(o)'
    BY <1>2 DEF ReportInv
  <1>4. ASSUME NEW o \in jobs'
        PROVE  JobOK(o)'
    <2>1. CASE o \in jobs' \ jobs
      BY <2>1 DEF JobOK
    <2>2. CASE o \in jobs
      <3>1. JobOK(o)
        BY <2>2 DEF ReportInv
      <3>2. CASE Reported(o) \/ o[1] \in lost
        BY <1>2, <3>2 DEF JobOK
      <3>3. ASSUME NEW a \in Evaluators, WillReport(a, o)
            PROVE  JobOK(o)'
        <4>1. CASE a = e
          BY <3>3, <4>1 DEF JobOK
        <4>2. CASE a # e
          <5>1. task'[a] = task[a]
            BY <4>2 DEF Others
          <5>2. WillReport(a, o)'
            BY <3>3, <5>1 DEF WillReport, InMade, InHand
          <5> QED
            BY <5>2 DEF JobOK
        <4> QED
          BY <4>1, <4>2
      <3> QED
        BY <3>1, <3>2, <3>3 DEF JobOK
    <2> QED
      BY <2>1, <2>2
  <1>5. ReportedIsDone'
    BY DEF ReportInv, ReportedIsDone
  <1> QED
    BY <1>1, <1>3, <1>4, <1>5 DEF ReportInv

(* Steps to and from the gate neither do nor report anything.               *)
LEMMA StepBetween ==
  ASSUME Types, ReportInv, NEW e \in Evaluators, task[e] \in Task, Others(e), Keeps(e),
         task[e].pc # "respond", task'[e] \in Task,
         task'[e].pc = "respond" => task'[e].ok = {},
         jobs' = jobs, UNCHANGED database, lost' = lost
  PROVE  ReportInv'
  <1>1. task[e] # Idle /\ HandOK(e)
    BY Tasks DEF ReportInv
  <1>2. task'[e] # Idle
    BY DEF Task, Idle
  <1>3. ASSUME NEW o, WillReport(e, o)
        PROVE  WillReport(e, o)'
    BY <1>2, <1>3 DEF WillReport, InMade, InHand, Keeps
  <1>4. HandOK(e)'
    BY <1>1, <1>3 DEF HandOK, Keeps
  <1> QED
    BY <1>3, <1>4, StepOfReports DEF database

LEMMA AnswerReports ==
  ASSUME Types, ReportInv, NEW e \in Evaluators, NEW r, NEW done \in BOOLEAN,
         NEW ok \in BOOLEAN, Answer(e, r, done, ok), ok => done
  PROVE  ReportInv'
  <1>0. PICK o : o = Outcome(e, r)
    OBVIOUS
  <1>1. Answered(e, r, done, ok)
    BY AnswerChanges
  <1>2. task[e] \in Task /\ task[e] # Idle /\ task[e].pc = "respond" /\ HandOK(e)
    BY <1>1, Tasks DEF Answered, ReportInv
  <1>3. /\ task'[e] # Idle /\ task'[e].pc = "respond" /\ task'[e].made = task[e].made
        /\ task'[e].id = task[e].id /\ task'[e].trigger = task[e].trigger
        /\ Others(e)
    BY <1>1 DEF Answered, Task, Idle
  <1>4. task'[e].ok \cup task'[e].failed = task[e].ok \cup task[e].failed \cup {r}
    BY <1>1 DEF Answered
  <1>5. /\ task[e].wrote \subseteq task'[e].wrote /\ jobs \subseteq jobs'
        /\ task'[e].wrote \subseteq task[e].wrote \cup {o} /\ jobs' \subseteq jobs \cup {o}
        /\ done => o \in task'[e].wrote \cup jobs'
    BY <1>0, <1>1 DEF Answered
  <1>6. task'[e].ok = task[e].ok \/ (ok /\ task'[e].ok = task[e].ok \cup {r})
    BY <1>1 DEF Answered
  <1>7. o = <<task[e].id, task[e].trigger, r>> /\ o[1] = task[e].id /\ o[2] = task[e].trigger
        /\ o[3] = r
    BY <1>0 DEF Outcome
  <1>8. WillReport(e, o)'
    BY <1>3, <1>4, <1>7 DEF WillReport, InHand
  <1>9. ASSUME NEW x, WillReport(e, x)
        PROVE  WillReport(e, x)'
    BY <1>3, <1>4, <1>9 DEF WillReport, InHand, InMade
  <1>10. HandOK(e)'
    <2>1. \A x \in task'[e].made : \A y \in x.ok :
            <<x.id, x.trigger, y>> \in task'[e].wrote \cup jobs'
      BY <1>2, <1>3, <1>5 DEF HandOK
    <2>2. \A y \in task'[e].ok :
            <<task'[e].id, task'[e].trigger, y>> \in task'[e].wrote \cup jobs'
      BY <1>2, <1>3, <1>5, <1>6, <1>7 DEF HandOK
    <2>3. \A x \in task'[e].wrote : WillReport(e, x)'
      BY <1>2, <1>5, <1>8, <1>9 DEF HandOK
    <2> QED
      BY <2>1, <2>2, <2>3 DEF HandOK
  <1>11. executions' = executions /\ effects' = effects /\ lost' = lost
    BY DEF Answer, database
  <1> QED
    BY <1>3, <1>5, <1>8, <1>9, <1>10, <1>11, StepOfReports

LEMMA RecordReports ==
  ASSUME Types, ReportInv, NEW e \in Evaluators, Record(e)
  PROVE  ReportInv'
  <1>1. /\ task'[e] \in Task /\ Others(e) /\ task[e] \in Task /\ task[e].pc = "respond"
        /\ task'[e].pc = "loop" /\ task'[e].id = task[e].id
        /\ task'[e].wrote = task[e].wrote
        /\ task'[e].made = task[e].made \cup {NewExecution(e)}
    BY RecordChanges
  <1>2. task[e] # Idle /\ task'[e] # Idle /\ HandOK(e)
    BY <1>1, Tasks DEF ReportInv, Task, Idle
  <1>3. jobs' = jobs /\ executions' = executions /\ effects' = effects /\ lost' = lost
    BY DEF Record, redis, database
  <1>4. /\ NewExecution(e).id = task[e].id /\ NewExecution(e).trigger = task[e].trigger
        /\ NewExecution(e).ok = task[e].ok /\ NewExecution(e).failed = task[e].failed
    BY DEF NewExecution
  <1>5. ASSUME NEW o, WillReport(e, o)
        PROVE  WillReport(e, o)'
    BY <1>1, <1>2, <1>4, <1>5 DEF WillReport, InHand, InMade
  <1>6. HandOK(e)'
    BY <1>1, <1>2, <1>3, <1>4, <1>5 DEF HandOK
  <1> QED
    BY <1>1, <1>3, <1>5, <1>6, StepOfReports

LEMMA CommitReports ==
  ASSUME Types, ReportInv, NEW e \in Evaluators, Commit(e)
  PROVE  ReportInv'
  <1>1. task' = [task EXCEPT ![e] = Idle]
    BY DEF Commit
  <1>2. Others(e) /\ task'[e] = Idle
    BY <1>1, EndChanges
  <1>3. task[e].pc = "loop" /\ task[e] # Idle /\ HandOK(e)
    BY Tasks DEF Commit, ReportInv, Idle
  <1>4. /\ executions' = executions \cup task[e].made /\ effects' = effects \cup task[e].wrote
        /\ jobs' = jobs /\ lost' = lost
    BY DEF Commit, redis
  <1>5. ASSUME NEW o, WillReport(e, o)
        PROVE  Reported(o)'
    <2>1. InMade(e, o)
      BY <1>3, <1>5 DEF WillReport, InHand
    <2> QED
      BY <1>4, <2>1 DEF InMade, Reported
  <1>6. \A o \in effects' \ effects : Reported(o)'
    BY <1>3, <1>4, <1>5 DEF HandOK
  <1>7. \A x \in executions' \ executions : \A r \in x.ok :
          <<x.id, x.trigger, r>> \in effects' \cup jobs'
    BY <1>3, <1>4 DEF HandOK
  <1>8. HandOK(e)'
    BY <1>2 DEF HandOK
  <1> QED
    BY <1>2, <1>4, <1>5, <1>6, <1>7, <1>8, StepOfReports

LEMMA AbandonReports ==
  ASSUME Types, ReportInv, NEW e \in Evaluators, Abandon(e)
  PROVE  ReportInv'
  <1>1. task' = [task EXCEPT ![e] = Idle]
    BY DEF Abandon
  <1>2. Others(e) /\ task'[e] = Idle
    BY <1>1, EndChanges
  <1>3. /\ jobs' = jobs /\ executions' = executions /\ effects' = effects
        /\ lost' = lost \cup {task[e].id}
    BY DEF Abandon, redis, database
  <1>4. ASSUME NEW o, WillReport(e, o)
        PROVE  o[1] \in lost'
    BY <1>3, <1>4 DEF WillReport
  <1>5. HandOK(e)'
    BY <1>2 DEF HandOK
  <1> QED
    BY <1>2, <1>3, <1>4, <1>5, StepOfReports


LEMMA ReportStep ==
  ASSUME Types, ReportInv, Next
  PROVE  ReportInv'
  <1>1. CASE Tick
    <2>1. UNCHANGED <<task, jobs, executions, effects, lost>>
      BY <1>1 DEF Tick, redis, database
    <2> QED
      BY <2>1 DEF ReportInv, HandOK, JobOK, Reported, ReportedIsDone, WillReport, InMade, InHand
  <1>2. ASSUME NEW e \in Evaluators, NEW k \in Kinds, NEW s \in Scopes, Take(e, k, s)
        PROVE  ReportInv'
    <2>1. /\ Others(e) /\ task'[e].pc = "loop" /\ task'[e].made = {} /\ task'[e].wrote = {}
          /\ task[e] = Idle
      BY <1>2, TakeChanges
    <2>2. jobs' = jobs /\ executions' = executions /\ effects' = effects /\ lost' = lost
      BY <1>2 DEF Take, redis, database
    <2>3. HandOK(e)'
      BY <2>1 DEF HandOK
    <2>4. \A o : ~WillReport(e, o)
      BY <2>1 DEF WillReport
    <2> QED
      BY <2>1, <2>2, <2>3, <2>4, StepOfReports
  <1>3. ASSUME NEW e \in Evaluators, NEW t \in Triggers, task[e] \in Task,
               task[e].pc # "respond", Decide(e, t) \/ NextTrigger(e, t),
               jobs' = jobs, UNCHANGED database, lost' = lost
        PROVE  ReportInv'
    <2>1. /\ task'[e] \in Task /\ Others(e) /\ Keeps(e)
          /\ task'[e].pc = "respond" => task'[e].ok = {}
      BY <1>3, DecideChanges, NextTriggerChanges
    <2> QED
      BY <1>3, <2>1, StepBetween
  <1>4. ASSUME NEW e \in Evaluators, NEW t \in Triggers, Pass(e, t) \/ Reset(e, t)
        PROVE  ReportInv'
    <2>1. Looping(e, t) /\ task[e].pc = "loop"
      BY <1>4 DEF Pass, Reset, Looping
    <2>2. task[e] \in Task
      BY <2>1, KeyInScope
    <2>3. /\ Decide(e, t) \/ NextTrigger(e, t)
          /\ jobs' = jobs /\ UNCHANGED database /\ lost' = lost
      BY <1>4 DEF Pass, Reset, redis
    <2> QED
      BY <1>3, <2>1, <2>2, <2>3
  <1>5. ASSUME NEW e \in Evaluators, NEW t \in Triggers, Look(e, t)
        PROVE  ReportInv'
    <2>1. /\ task'[e] \in Task /\ Others(e) /\ Keeps(e) /\ task'[e].pc = "gate"
          /\ task[e] \in Task
      BY <1>5, LookChanges
    <2>2. task[e].pc = "loop" /\ jobs' = jobs /\ UNCHANGED database /\ lost' = lost
      BY <1>5 DEF Look, Looping, redis
    <2> QED
      BY <2>1, <2>2, StepBetween
  <1>6. ASSUME NEW e \in Evaluators, Open(e) \/ Wait(e) \/ Close(e)
        PROVE  ReportInv'
    <2>1. Gate(e) /\ jobs' = jobs /\ UNCHANGED database /\ lost' = lost
      BY <1>6 DEF Open, Wait, Close, redis
    <2>2. task[e] \in Task /\ task[e].trigger \in Triggers /\ task[e].pc = "gate"
      BY <2>1, AtGate DEF Gate
    <2>3. Decide(e, task[e].trigger) \/ NextTrigger(e, task[e].trigger)
      BY <1>6 DEF Open, Wait, Close
    <2> QED
      BY <1>3, <2>1, <2>2, <2>3
  <1>7. ASSUME NEW e \in Evaluators, NEW r, Succeed(e, r) \/ Fail(e, r)
        PROVE  ReportInv'
    BY <1>7, AnswerReports DEF Succeed, Fail
  <1> QED
    BY <1>1, <1>2, <1>4, <1>5, <1>6, <1>7, RecordReports, CommitReports, AbandonReports
       DEF Next, Evaluate

-----------------------------------------------------------------------------

(* Nothing changes at a window where nobody comes or goes.                  *)
LEMMA Elsewhere ==
  ASSUME NEW e \in Evaluators, NEW k \in Keys, KeyOK(k), Others(e),
         window'[k] = window[k], streak'[k] = streak[k], ~Within(e, k), ~Within(e, k)'
  PROVE  KeyOK(k)'
  <1>1. ASSUME NEW o \in Evaluators
        PROVE  /\ Within(o, k)' <=> Within(o, k)
               /\ Within(o, k) => task'[o] = task[o]
    BY <1>1 DEF Within, Gate, At, Others
  <1>2. Agrees(k)' <=> Agrees(k)
    BY DEF Agrees
  <1>3. ASSUME NEW o \in Evaluators, Within(o, k)'
        PROVE  HasRead(o, k)'
    <2>1. task'[o] = task[o] /\ HasRead(o, k)
      BY <1>1, <1>3 DEF KeyOK
    <2> QED
      BY <1>2, <2>1 DEF HasRead
  <1> QED
    BY <1>1, <1>2, <1>3 DEF KeyOK

(* A window nobody is at agrees with the history, whoever has just left.    *)
LEMMA Alone ==
  ASSUME NEW k, Agrees(k)', \A e \in Evaluators : ~Within(e, k)'
  PROVE  KeyOK(k)'
  BY DEF KeyOK

LEMMA ClearedWindow ==
  ASSUME Types, WindowInv, NEW e \in Evaluators, NEW k \in Keys, NEW ofMetric \in BOOLEAN,
         Cleared(e, k, ofMetric), window' = [window EXCEPT ![k] = Empty], Others(e),
         ~Gate(e)', Gate(e) => At(e) = k
  PROVE  WindowInv'
  <1>1. ASSUME NEW o \in Keys \ disturbed', o # k
        PROVE  KeyOK(o)'
    <2>1. o \in Keys \ disturbed /\ KeyOK(o)
      BY <1>1 DEF Cleared, WindowInv
    <2>2. window'[o] = window[o] /\ streak'[o] = streak[o]
      BY <1>1 DEF Cleared, Types
    <2>3. ~Within(e, o) /\ ~Within(e, o)'
      BY <1>1 DEF Within
    <2> QED
      BY <2>1, <2>2, <2>3, Elsewhere
  <1>2. ASSUME k \notin disturbed'
        PROVE  KeyOK(k)'
    <2>1. ~Overlapped(e, k)
      BY <1>2 DEF Cleared
    <2>2. \A o \in Evaluators : ~Within(o, k)'
      BY <2>1 DEF Overlapped, Others, Within, Gate, At
    <2>3. window'[k] = Empty /\ streak'[k] = Never
      BY DEF Types, Cleared
    <2>4. Agrees(k)'
      BY <2>3 DEF Agrees
    <2> QED
      BY <2>2, <2>4, Alone
  <1> QED
    BY <1>1, <1>2 DEF WindowInv

(* Steps that neither come to a gate nor leave one.                         *)
LEMMA AwayFromGates ==
  ASSUME Types, WindowInv, NEW e \in Evaluators, Others(e), ~Gate(e), ~Gate(e)',
         window' = window, streak' = streak, disturbed' = disturbed
  PROVE  WindowInv'
  BY Elsewhere DEF WindowInv, Within


LEMMA LookAtWindow ==
  ASSUME Types, WindowInv, NEW e \in Evaluators, NEW t \in Triggers, Look(e, t)
  PROVE  WindowInv'
  <1>1. PICK k : k = <<t, task[e].scope>>
    OBVIOUS
  <1>2. /\ Others(e) /\ Keeps(e) /\ task'[e].pc = "gate" /\ task'[e].trigger = t
        /\ task'[e].at = now /\ task'[e].seen = FirstTrue(k) /\ k \in Keys
    BY <1>1, LookChanges
  <1>3. task[e].pc = "loop" /\ window' = window /\ BreachSeen(e, k) /\ now' = now
    BY <1>1 DEF Look, Looping, redis
  <1>4. At(e)' = k /\ Gate(e)' /\ ~Gate(e)
    BY <1>1, <1>2, <1>3 DEF At, Gate, Keeps
  <1>5. ASSUME NEW o \in Keys \ disturbed', o # k
        PROVE  KeyOK(o)'
    <2>1. o \in Keys \ disturbed /\ KeyOK(o)
      BY <1>3, <1>5 DEF BreachSeen, WindowInv
    <2>2. window'[o] = window[o] /\ streak'[o] = streak[o]
      BY <1>3, <1>5 DEF BreachSeen, Types
    <2>3. ~Within(e, o) /\ ~Within(e, o)'
      BY <1>4, <1>5 DEF Within
    <2> QED
      BY <1>2, <2>1, <2>2, <2>3, Elsewhere
  <1>6. ASSUME k \notin disturbed'
        PROVE  KeyOK(k)'
    <2>1. ~Overlapped(e, k) /\ k \notin disturbed
      BY <1>3, <1>6 DEF BreachSeen
    <2>2. ASSUME NEW o \in Evaluators, o # e
          PROVE  ~Within(o, k) /\ ~Within(o, k)'
      BY <1>2, <2>1, <2>2 DEF Overlapped, Others, Within, Gate, At
    <2>3. ~Within(e, k)
      BY <1>4 DEF Within
    <2>4. Agrees(k)
      BY <1>2, <2>1, <2>2, <2>3 DEF WindowInv, KeyOK
    <2>5. streak'[k] = IF streak[k] = Never THEN now ELSE streak[k]
      BY <1>2, <1>3 DEF BreachSeen, Types
    <2>6. now \in Nat
      BY TimeAssumption DEF Types, Times
    <2>7. HasRead(e, k)'
      <3>1. CASE window[k] = Empty
        <4>1. task'[e].seen = Never /\ streak'[k] = now
          BY <1>2, <2>4, <2>5, <3>1 DEF Agrees, FirstTrue
        <4> QED
          BY <1>2, <2>6, <4>1 DEF HasRead
      <3>2. CASE window[k] # Empty
        <4>1. window[k] \in Window /\ window[k].since <= now
          BY <1>2, <3>2 DEF Types
        <4>2. /\ streak[k] = window[k].since /\ streak[k] \in Nat
              /\ window[k].expires \in Nat /\ window[k].expires >= streak[k] + Ttl(k[1])
          BY <2>4, <3>2, <4>1 DEF Agrees, Window
        <4>3. streak'[k] = streak[k] /\ streak[k] # Never
          BY <2>5, <4>2, TimeAssumption
        <4>4. Agrees(k)'
          BY <1>3, <2>4, <4>3 DEF Agrees
        <4>5. Ttl(k[1]) \in Nat
          <5>1. k[1] \in Triggers
            BY <1>2 DEF Keys
          <5> QED
            BY <5>1, TriggersAssumption, TimeAssumption DEF Ttl
        <4>6. CASE now < window[k].expires
          <5>1. task'[e].seen = streak'[k]
            BY <1>2, <3>2, <4>2, <4>3, <4>6 DEF FirstTrue
          <5> QED
            BY <1>2, <1>3, <3>2, <4>1, <4>2, <4>3, <4>4, <5>1 DEF HasRead
        <4>7. CASE ~(now < window[k].expires)
          <5>1. task'[e].seen = Never
            BY <1>2, <4>7 DEF FirstTrue
          <5>2. task'[e].at >= streak'[k] + Ttl(k[1]) /\ streak'[k] <= task'[e].at
            BY <1>2, <2>6, <4>1, <4>2, <4>3, <4>5, <4>7
          <5> QED
            BY <4>2, <4>3, <5>1, <5>2 DEF HasRead
        <4> QED
          BY <4>6, <4>7
      <3> QED
        BY <3>1, <3>2
    <2>8. Within(e, k)'
      BY <1>4 DEF Within
    <2> QED
      BY <2>2, <2>7, <2>8 DEF KeyOK
  <1> QED
    BY <1>5, <1>6 DEF WindowInv

(* What an evaluator that is alone at an undisturbed window knows.          *)
LEMMA AloneAtGate ==
  ASSUME WindowInv, NEW e \in Evaluators, NEW k \in Keys \ disturbed, Within(e, k),
         Others(e), ~Gate(e)'
  PROVE  HasRead(e, k) /\ \A o \in Evaluators : ~Within(o, k)'
  BY DEF WindowInv, KeyOK, Within, Gate, At, Others

LEMMA OpenWindow ==
  ASSUME Types, WindowInv, NEW e \in Evaluators, Open(e)
  PROVE  WindowInv'
  <1>1. PICK k : k = At(e)
    OBVIOUS
  <1>2. /\ Gate(e) /\ task[e] \in Task /\ task[e].trigger \in Triggers /\ k \in Keys
        /\ KeyHeld(e) = k /\ k[1] = task[e].trigger
        /\ task[e].at \in Times /\ task[e].at <= now
    BY <1>1, AtGate DEF Open
  <1>3. Others(e) /\ ~Gate(e)'
    BY <1>2, NextTriggerChanges DEF Open, Gate
  <1>4. disturbed' = disturbed /\ task[e].seen = Never
    BY DEF Open
  <1>5. ASSUME NEW o \in Keys \ disturbed', o # k
        PROVE  KeyOK(o)'
    <2>1. KeyOK(o)
      BY <1>4, <1>5 DEF WindowInv
    <2>2. window'[o] = window[o] /\ streak'[o] = streak[o]
      BY <1>1, <1>2, <1>5 DEF Open, Types
    <2>3. ~Within(e, o) /\ ~Within(e, o)'
      BY <1>1, <1>3, <1>5 DEF Within
    <2> QED
      BY <1>3, <2>1, <2>2, <2>3, Elsewhere
  <1>6. ASSUME k \notin disturbed'
        PROVE  KeyOK(k)'
    <2>1. HasRead(e, k) /\ \A o \in Evaluators : ~Within(o, k)'
      BY <1>1, <1>2, <1>3, <1>4, <1>6, AloneAtGate DEF Within
    <2>2. /\ streak[k] \in Nat /\ streak[k] # Never
          /\ streak[k] = task[e].at \/ task[e].at >= streak[k] + Ttl(k[1])
      BY <1>4, <2>1, TimeAssumption DEF HasRead
    <2>3. streak'[k] = task[e].at
      BY <1>1, <1>2, <2>2 DEF Open, Types
    <2>4. window'[k] = [since |-> task[e].at, expires |-> now + Ttl(k[1])]
      BY <1>2 DEF Open, Types
    <2>5. task[e].at \in Nat /\ task[e].at # Never /\ now \in Nat /\ Ttl(k[1]) \in Nat
      BY <1>2, TimeAssumption, TriggersAssumption DEF Types, Times, Ttl
    <2>6. /\ window'[k].since = task[e].at /\ window'[k].expires = now + Ttl(k[1])
          /\ window'[k] # Empty
      BY <2>4, <2>5 DEF Empty
    <2>7. Agrees(k)'
      BY <1>2, <2>3, <2>5, <2>6 DEF Agrees
    <2> QED
      BY <2>1, <2>7, Alone
  <1> QED
    BY <1>5, <1>6 DEF WindowInv

LEMMA WaitAtWindow ==
  ASSUME Types, WindowInv, NEW e \in Evaluators, Wait(e)
  PROVE  WindowInv'
  <1>1. task[e] \in Task /\ task[e].trigger \in Triggers /\ Gate(e)
    BY AtGate DEF Wait
  <1>2. Others(e) /\ ~Gate(e)'
    BY <1>1, NextTriggerChanges DEF Wait, Gate
  <1>3. UNCHANGED <<window, streak, disturbed>> /\ task[e].seen # Never
    BY DEF Wait, redis, history
  <1>4. ASSUME NEW k \in Keys \ disturbed
        PROVE  KeyOK(k)'
    <2>1. CASE Within(e, k)
      <3>1. HasRead(e, k) /\ \A o \in Evaluators : ~Within(o, k)'
        BY <1>2, <2>1, AloneAtGate
      <3>2. Agrees(k)'
        BY <1>3, <3>1 DEF HasRead, Agrees
      <3> QED
        BY <3>1, <3>2, Alone
    <2>2. CASE ~Within(e, k)
      <3>1. KeyOK(k) /\ ~Within(e, k)'
        BY <1>2 DEF WindowInv, Within
      <3> QED
        BY <1>2, <1>3, <2>2, <3>1, Elsewhere
    <2> QED
      BY <2>1, <2>2
  <1> QED
    BY <1>3, <1>4 DEF WindowInv

LEMMA AbandonWindow ==
  ASSUME Types, WindowInv, NEW e \in Evaluators, Abandon(e)
  PROVE  WindowInv'
  <1>1. Others(e) /\ task'[e] = Idle
    BY EndChanges DEF Abandon
  <1>2. window' = window /\ streak' = streak /\ ~Gate(e)'
    BY <1>1 DEF Abandon, redis, Gate, Idle
  <1>3. ASSUME NEW k \in Keys \ disturbed'
        PROVE  KeyOK(k)'
    <2>1. k \in Keys \ disturbed /\ ~Within(e, k)
      BY <1>3 DEF Abandon, Within
    <2>2. KeyOK(k) /\ ~Within(e, k)'
      BY <1>2, <2>1 DEF WindowInv, Within
    <2> QED
      BY <1>1, <1>2, <2>1, <2>2, Elsewhere
  <1> QED
    BY <1>3 DEF WindowInv

LEMMA WindowStep ==
  ASSUME Types, WindowInv, Next
  PROVE  WindowInv'
  <1>1. CASE Tick
    <2>1. UNCHANGED <<task, window, streak, disturbed>>
      BY <1>1 DEF Tick, redis, history
    <2> QED
      BY <2>1 DEF WindowInv, KeyOK, Within, Gate, At, HasRead, Agrees
  <1>2. ASSUME NEW e \in Evaluators, NEW k \in Kinds, NEW s \in Scopes, Take(e, k, s)
        PROVE  WindowInv'
    <2>1. Others(e) /\ ~Gate(e) /\ ~Gate(e)'
      BY <1>2, TakeChanges DEF Gate, Idle
    <2> QED
      BY <1>2, <2>1, AwayFromGates DEF Take, redis, history
  <1>3. ASSUME NEW e \in Evaluators, NEW t \in Triggers, Pass(e, t)
        PROVE  WindowInv'
    <2>1. Decide(e, t) /\ task[e] \in Task /\ ~Gate(e)
      BY <1>3, KeyInScope DEF Pass, Looping, Gate
    <2>2. Others(e) /\ ~Gate(e)'
      BY <2>1, DecideChanges DEF Gate
    <2> QED
      BY <1>3, <2>1, <2>2, AwayFromGates DEF Pass, redis, history
  <1>4. ASSUME NEW e \in Evaluators, NEW t \in Triggers, Reset(e, t)
        PROVE  WindowInv'
    <2>1. /\ task[e] \in Task /\ <<t, task[e].scope>> \in Keys /\ ~Gate(e)
          /\ Key(t, task[e].scope) = <<t, task[e].scope>>
      BY <1>4, KeyInScope DEF Reset, Looping, Gate
    <2>2. Others(e) /\ ~Gate(e)'
      BY <1>4, <2>1, NextTriggerChanges DEF Reset, Gate
    <2>3. (task[e].kind \in Measures[t]) \in BOOLEAN
      OBVIOUS
    <2> QED
      BY <1>4, <2>1, <2>2, <2>3, ClearedWindow DEF Reset
  <1>5. ASSUME NEW e \in Evaluators, Close(e)
        PROVE  WindowInv'
    <2>1. /\ task[e] \in Task /\ task[e].trigger \in Triggers /\ At(e) \in Keys
          /\ KeyHeld(e) = At(e)
      BY <1>5, AtGate DEF Close
    <2>2. Others(e) /\ ~Gate(e)'
      BY <1>5, <2>1, DecideChanges DEF Close, Gate
    <2> QED
      BY <1>5, <2>1, <2>2, ClearedWindow DEF Close
  <1>6. ASSUME NEW e \in Evaluators, NEW r, NEW done \in BOOLEAN, NEW ok \in BOOLEAN,
               Answer(e, r, done, ok)
        PROVE  WindowInv'
    <2>1. Answered(e, r, done, ok)
      BY <1>6, AnswerChanges
    <2>2. Others(e) /\ ~Gate(e) /\ ~Gate(e)'
      BY <2>1 DEF Answered, Gate
    <2> QED
      BY <1>6, <2>2, AwayFromGates DEF Answer, history
  <1>7. ASSUME NEW e \in Evaluators, Record(e) \/ Commit(e)
        PROVE  WindowInv'
    <2>1. ~Gate(e)
      BY <1>7 DEF Record, Commit, Gate
    <2>2. ASSUME Record(e)
          PROVE  Others(e) /\ ~Gate(e)'
      BY <2>2, RecordChanges DEF Gate
    <2>3. ASSUME Commit(e)
          PROVE  Others(e) /\ ~Gate(e)'
      BY <2>3, EndChanges DEF Commit, Gate, Idle
    <2>4. Others(e) /\ ~Gate(e)'
      BY <1>7, <2>2, <2>3
    <2> QED
      BY <1>7, <2>1, <2>4, AwayFromGates DEF Record, Commit, redis, history
  <1> QED
    BY <1>1, <1>2, <1>3, <1>4, <1>5, <1>6, <1>7, LookAtWindow, OpenWindow, WaitAtWindow,
       AbandonWindow DEF Next, Evaluate, Succeed, Fail


-----------------------------------------------------------------------------

LEMMA InitIInv == Init => IInv
  <1> SUFFICES ASSUME Init
               PROVE  IInv
    OBVIOUS
  <1>1. /\ now = 0 /\ readings = 0 /\ jobs = {} /\ executions = {} /\ effects = {}
        /\ disturbed = {} /\ lost = {}
        /\ window = [k \in Keys |-> Empty] /\ task = [e \in Evaluators |-> Idle]
        /\ streak = [k \in Keys |-> Never] /\ breach = [k \in Keys |-> Never]
    BY DEF Init
  <1>2. \A e \in Evaluators : task[e] = Idle /\ ~Gate(e)
    BY <1>1 DEF Gate, Idle
  <1>3. 0 \in Times /\ 0 \in 0 .. MaxReadings
    BY TimeAssumption, ReadingsAssumption DEF Times
  <1>4. Types
    BY <1>1, <1>2, <1>3 DEF Types, TaskOK
  <1>5. ReportInv
    BY <1>1, <1>2 DEF ReportInv, HandOK, ReportedIsDone
  <1>6. WindowInv
    BY <1>1, <1>2 DEF WindowInv, KeyOK, Within, Agrees
  <1> QED
    BY <1>4, <1>5, <1>6 DEF IInv

LEMMA StepIInv == IInv /\ [Next]_vars => IInv'
  <1> SUFFICES ASSUME IInv, [Next]_vars
               PROVE  IInv'
    OBVIOUS
  <1>1. CASE Next
    BY <1>1, TypesStep, ReportStep, WindowStep DEF IInv
  <1>2. CASE UNCHANGED vars
    <2>1. UNCHANGED <<now, window, jobs, task, executions, effects, readings, streak, breach,
                      disturbed, lost>>
      BY <1>2 DEF vars, redis, database, history
    <2>2. Types'
      BY <2>1 DEF IInv, Types, TaskOK, At
    <2>3. ReportInv'
      BY <2>1 DEF IInv, ReportInv, HandOK, JobOK, Reported, ReportedIsDone, WillReport,
                  InMade, InHand
    <2>4. WindowInv'
      BY <2>1 DEF IInv, WindowInv, KeyOK, Within, Gate, At, HasRead, Agrees
    <2> QED
      BY <2>2, <2>3, <2>4 DEF IInv
  <1> QED
    BY <1>1, <1>2

THEOREM IInvHolds == Spec => []IInv
  BY InitIInv, StepIInv, PTL DEF Spec

(* Everything has its type, and a dry run leaves neither jobs nor rows of   *)
(* responders behind.                                                       *)
THEOREM TypeCorrect == Spec => []TypeOK
  <1>1. IInv => TypeOK
    BY DEF IInv, Types, TypeOK
  <1> QED
    BY <1>1, IInvHolds, PTL

(* What an execution reports as done is done, for any number of evaluators  *)
(* and whatever they abandon.                                               *)
THEOREM ReportsAreTrue == Spec => []ReportedIsDone
  <1>1. IInv => ReportedIsDone
    BY DEF IInv, ReportInv
  <1> QED
    BY <1>1, IInvHolds, PTL

(* Rows and jobs of responders are accounted for by an execution, except    *)
(* jobs of an evaluation that is under way or was rolled back.              *)
THEOREM ReportsAreComplete == Spec => []NothingUnreported
  <1>1. IInv => NothingUnreported
    BY DEF IInv, ReportInv, JobOK, WillReport, NothingUnreported
  <1> QED
    BY <1>1, IInvHolds, PTL

(* Each step moves one evaluator at most.                                   *)
LEMMA OneMoves ==
  ASSUME Types, NEW e \in Evaluators, Evaluate(e)
  PROVE  Others(e)
  <1>1. PICK new : task' = [task EXCEPT ![e] = new]
    BY Zenon DEF Evaluate, Take, Pass, Reset, Look, Open, Wait, Close, Decide, NextTrigger,
                 Succeed, Fail, Answer, Record, Commit, Abandon
  <1> QED
    BY <1>1 DEF Others, Types

(* How an evaluator leaves the gate, if it is not rolled back.              *)
LEMMA LeavingGate ==
  ASSUME Types, Next, NEW e \in Evaluators, Gate(e), task'[e].pc \in {"loop", "respond"}
  PROVE  \/ Open(e) /\ task'[e].pc = "loop"
         \/ Wait(e) /\ task'[e].pc = "loop"
         \/ Close(e) /\ task'[e].pc = "respond"
  <1>1. task[e].pc = "gate" /\ task[e] \in Task /\ task[e].trigger \in Triggers
        /\ task'[e] # task[e]
    BY AtGate DEF Gate
  <1>2. ~Tick
    BY <1>1 DEF Tick
  <1>3. \A o \in Evaluators : Evaluate(o) => o = e
    BY <1>1, OneMoves DEF Others
  <1>4. Evaluate(e)
    BY <1>2, <1>3 DEF Next
  <1>5. Open(e) \/ Wait(e) \/ Close(e) \/ Abandon(e)
    <2>1. /\ \A t : ~Looping(e, t)
          /\ \A r : ~Responding(e, r)
          /\ ~Record(e) /\ ~Commit(e) /\ task[e] # Idle
      BY <1>1, Tasks DEF Looping, Responding, Record, Commit
    <2> QED
      BY <1>4, <2>1 DEF Evaluate, Take, Pass, Reset, Look, Succeed, Fail, Answer
  <1>6. ~Abandon(e)
    BY EndChanges DEF Abandon, Idle
  <1>7. Open(e) \/ Wait(e) => task'[e].pc = "loop"
    BY <1>1, NextTriggerChanges DEF Open, Wait
  <1>8. Close(e) => task'[e].pc = "respond"
    BY <1>1, DecideChanges DEF Close
  <1> QED
    BY <1>5, <1>6, <1>7, <1>8

(* At an undisturbed window the evaluator has read what the history says,   *)
(* which decides about the alarm.                                           *)
LEMMA Decisions ==
  ASSUME IInv, Next, NEW e \in Evaluators, NEW k \in Keys \ disturbed, Gate(e), At(e) = k
  PROVE  /\ task'[e].pc = "respond" =>
              streak[k] # Never /\ task[e].at - streak[k] >= Duration[k[1]]
         /\ task'[e].pc = "loop" =>
              \/ task[e].at - streak[k] < Duration[k[1]]
              \/ task[e].at >= streak[k] + Ttl(k[1])
  <1>1. /\ k[1] = task[e].trigger /\ task[e].trigger \in Triggers /\ Gated(k[1])
        /\ task[e].at \in Nat
    BY AtGate, TimeAssumption DEF IInv, Times
  <1>2. HasRead(e, k)
    BY DEF IInv, WindowInv, KeyOK, Within
  <1>3. streak[k] \in Nat /\ streak[k] # Never
    BY <1>2, TimeAssumption DEF HasRead
  <1>4. Duration[k[1]] \in Nat /\ Duration[k[1]] > 0
    BY <1>1, TriggersAssumption DEF Gated
  <1>5. ASSUME task'[e].pc = "respond"
        PROVE  task[e].at - streak[k] >= Duration[k[1]]
    <2>1. Close(e)
      BY <1>5, LeavingGate DEF IInv
    <2>2. task[e].seen = streak[k]
      BY <1>2, <2>1 DEF Close, HasRead
    <2> QED
      BY <1>1, <2>1, <2>2 DEF Close, Elapsed
  <1>6. ASSUME task'[e].pc = "loop"
        PROVE  \/ task[e].at - streak[k] < Duration[k[1]]
               \/ task[e].at >= streak[k] + Ttl(k[1])
    <2>1. Open(e) \/ Wait(e)
      BY <1>6, LeavingGate DEF IInv
    <2>2. CASE Open(e)
      <3>1. streak[k] = task[e].at \/ task[e].at >= streak[k] + Ttl(k[1])
        BY <1>2, <2>2 DEF Open, HasRead
      <3> QED
        BY <1>1, <1>3, <1>4, <3>1
    <2>3. CASE Wait(e)
      <3>1. task[e].seen = streak[k]
        BY <1>2, <2>3 DEF Wait, HasRead
      <3> QED
        BY <1>1, <2>3, <3>1 DEF Wait, Elapsed
    <2> QED
      BY <2>1, <2>2, <2>3
  <1> QED
    BY <1>3, <1>5, <1>6

(* A trigger with a duration fires only after a breach that long, as far as *)
(* its window was not disturbed.                                            *)
THEOREM AlarmsAreDue == Spec => AlarmIsDue
  <1>1. IInv /\ [Next]_vars =>
          [\A e \in Evaluators : \A k \in Keys \ disturbed :
             Gate(e) /\ At(e) = k /\ task'[e].pc = "respond"
               => streak[k] # Never /\ task[e].at - streak[k] >= Duration[k[1]]]_vars
    BY Decisions
  <1> QED
    BY <1>1, IInvHolds, PTL DEF Spec, AlarmIsDue

(* And a breach that long fires, unless the window has expired in silence.  *)
THEOREM AlarmsAreNotMissed == Spec => NoAlarmMissed
  <1>1. IInv /\ [Next]_vars =>
          [\A e \in Evaluators : \A k \in Keys \ disturbed :
             Gate(e) /\ At(e) = k /\ task'[e].pc = "loop"
               => \/ task[e].at - streak[k] < Duration[k[1]]
                  \/ task[e].at >= streak[k] + Ttl(k[1])]_vars
    BY Decisions
  <1> QED
    BY <1>1, IInvHolds, PTL DEF Spec, NoAlarmMissed
=============================================================================
