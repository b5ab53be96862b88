--------------------------- MODULE ReadingStream ---------------------------
(***************************************************************************)
(* Readings on their way from the devices over the MQTT bridge and a Redis *)
(* Stream to the trigger workers.  The bridge subscribes whenever it has   *)
(* connected and XADDs what it can parse, with a bound on the length; each *)
(* worker reads a batch of new entries for the consumer group, evaluates   *)
(* and commits one entry after the other and XACKs it.  An entry whose     *)
(* handler failed, or whose worker died, stays pending.                    *)
(*                                                                         *)
(* The MQTT session, the stream, the group and its pending list are        *)
(* external: modelled from the calls the code makes of them.  The bridge   *)
(* without a stream (MQTT_USE_STREAM off) is left out.                     *)
(***************************************************************************)
EXTENDS Naturals, FiniteSetsExt

CONSTANTS
  Workers,      \* trigger-worker processes of the consumer group
  MaxLen,       \* MAX_LEN: the length the stream is trimmed to, approximately
  Batch,        \* DEFAULT_BATCH: entries per XREADGROUP
  MaxReadings,  \* bound: readings published
  MaxFailures,  \* bound: handler failures and failed XACKs
  MaxCrashes,   \* bound: worker crashes
  MaxDrops      \* bound: how often the bridge loses the broker

ASSUME LenAssumption == MaxLen \in Nat \ {0} /\ Batch \in Nat \ {0}
ASSUME BoundAssumption ==
  MaxReadings \in Nat /\ {MaxFailures, MaxCrashes, MaxDrops} \subseteq Nat

VARIABLES
  head,       \* the entries published so far; their ids count from 1
  floor,      \* entries up to this one have been trimmed
  delivered,  \* last-delivered-id of the consumer group
  pending,    \* the pending entries of the group
  acked,      \* the entries that were XACKed
  missed,     \* history: entries trimmed before any worker read them
  batch,      \* the entries each worker has read and not finished
  stage,      \* how far each worker is with the first of them
  jobs,       \* history: how often an entry's responders enqueued RQ jobs
  committed,  \* history: how often an entry's evaluation was committed
  failures, crashes,
  bridge,     \* is the bridge "down", connected but "deaf", or "listening"?
  drops

vars == <<head, floor, delivered, pending, acked, missed, batch, stage, jobs,
          committed, failures, crashes, bridge, drops>>
line == <<bridge, drops>>

Ids == 1 .. MaxReadings
Published == 1 .. head

Current(w) == Min(batch[w])

Init ==
  /\ head = 0
  /\ floor = 0
  /\ delivered = 0
  /\ pending = {}
  /\ acked = {}
  /\ missed = {}
  /\ batch = [w \in Workers |-> {}]
  /\ stage = [w \in Workers |-> "idle"]
  /\ jobs = [e \in Ids |-> 0]
  /\ committed = [e \in Ids |-> 0]
  /\ failures = 0
  /\ crashes = 0
  /\ bridge = "down" /\ drops = 0

\* A message on a topic factory/<line>/<device>/<metric> or on another one; its
\* payload is a number, something else, or an object with the keys "value" and
\* <metric>, each of them a number, something else, or not there.
Message(topic, payload, value, metric) ==
  [topic |-> topic, payload |-> payload, value |-> value, metric |-> metric]

Messages == {
  Message("factory", "number", "none", "none"), Message("factory", "other", "none", "none"),
  Message("factory", "object", "number", "none"), Message("factory", "object", "none", "number"),
  Message("factory", "object", "other", "number"), Message("other", "number", "none", "none")}

\* The metric's key only counts when there is no value, not when it is no number.
parse_message(m) ==
  /\ m.topic = "factory"
  /\ \/ m.payload = "number"
     \/ m.payload = "object" /\ m.value = "number"
     \/ m.payload = "object" /\ m.value = "none" /\ m.metric = "number"

\* Mutant: the topics are subscribed once, and not when the bridge reconnects.
OnFirstConnect == IF drops = 0 THEN "listening" ELSE "deaf"

\* on_connect(): a new session has no subscriptions.
OnConnect == "listening"

Connect ==
  /\ bridge = "down"
  /\ bridge' = OnConnect
  /\ UNCHANGED <<head, floor, delivered, pending, acked, missed, batch, stage, jobs,
                 committed, failures, crashes, drops>>

\* The broker, the network or the bridge itself is gone for a while.
Disconnect ==
  /\ bridge # "down" /\ drops < MaxDrops
  /\ bridge' = "down" /\ drops' = drops + 1
  /\ UNCHANGED <<head, floor, delivered, pending, acked, missed, batch, stage, jobs,
                 committed, failures, crashes>>

\* XADD ... MAXLEN ~ n may leave more entries than n.
publish_reading ==
  /\ head < MaxReadings
  /\ head' = head + 1
  /\ \E keep \in MaxLen .. MaxReadings :
       floor' = IF head + 1 - keep > floor THEN head + 1 - keep ELSE floor

\* enqueue_message().
Publish(m) ==
  /\ bridge = "listening" /\ parse_message(m)
  /\ publish_reading
  /\ UNCHANGED <<delivered, pending, acked, missed, batch, stage, jobs,
                 committed, failures, crashes, line>>

\* A message that nobody hears, that cannot be parsed, or whose XADD fails: the
\* bridge goes on, and MQTT has acknowledged it.
Forget(m) == UNCHANGED vars

\* Mutant: the group is asked for everything that is not acknowledged.
NewOrPending == {e \in Published : e \notin acked /\ e > floor}

\* The entries that nobody of the group has been given.
New == {e \in Published : e > delivered /\ e > floor}

\* XREADGROUP with ">": the next entries nobody of the group has been given.
Read(w) ==
  /\ stage[w] = "idle"
  /\ New # {}
  /\ LET last == IF Cardinality(New) <= Batch THEN Max(New)
                                              ELSE Min(New) + Batch - 1
         got == {e \in New : e <= last}
     IN /\ batch' = [batch EXCEPT ![w] = got]
        /\ pending' = pending \cup got
        /\ delivered' = last
        /\ missed' = missed \cup {e \in Published : delivered < e /\ e <= floor}
  /\ stage' = [stage EXCEPT ![w] = "taken"]
  /\ UNCHANGED <<head, floor, acked, jobs, committed, failures, crashes, line>>

\* The block timeout elapsed: loop again.
PollEmpty(w) ==
  /\ stage[w] = "idle"
  /\ New = {}
  /\ UNCHANGED vars

\* evaluate(): the responders enqueue their RQ jobs right away.
Evaluate(w) ==
  /\ stage[w] = "taken"
  /\ jobs' = [jobs EXCEPT ![Current(w)] = @ + 1]
  /\ stage' = [stage EXCEPT ![w] = "evaluated"]
  /\ UNCHANGED <<head, floor, delivered, pending, acked, missed, batch,
                 committed, failures, crashes, line>>

Commit(w) ==
  /\ stage[w] = "evaluated"
  /\ committed' = [committed EXCEPT ![Current(w)] = @ + 1]
  /\ stage' = [stage EXCEPT ![w] = "committed"]
  /\ UNCHANGED <<head, floor, delivered, pending, acked, missed, batch, jobs,
                 failures, crashes, line>>

\* Mutant: one entry is worked on, the rest of the batch is dropped.
AdvanceToNextRead(w) ==
  /\ batch' = [batch EXCEPT ![w] = {}]
  /\ stage' = [stage EXCEPT ![w] = "idle"]

\* On to the next entry of the batch.
Advance(w) ==
  LET rest == batch[w] \ {Current(w)} IN
  /\ batch' = [batch EXCEPT ![w] = rest]
  /\ stage' = [stage EXCEPT ![w] = IF rest = {} THEN "idle" ELSE "taken"]

Ack(w) ==
  /\ stage[w] = "committed"
  /\ acked' = acked \cup {Current(w)}
  /\ pending' = pending \ {Current(w)}
  /\ Advance(w)
  /\ UNCHANGED <<head, floor, delivered, missed, jobs, committed, failures, crashes, line>>

\* Mutant: XACK in a finally clause, also after a failure.
FailAndAck(w) ==
  /\ stage[w] # "idle"
  /\ failures < MaxFailures
  /\ failures' = failures + 1
  /\ acked' = acked \cup {Current(w)}
  /\ pending' = pending \ {Current(w)}
  /\ Advance(w)
  /\ UNCHANGED <<head, floor, delivered, missed, jobs, committed, crashes, line>>

\* The handler rolled back and raised, or XACK itself raised: no XACK.
Fail(w) ==
  /\ stage[w] # "idle"
  /\ failures < MaxFailures
  /\ failures' = failures + 1
  /\ Advance(w)
  /\ UNCHANGED <<head, floor, delivered, pending, acked, missed, jobs,
                 committed, crashes, line>>

\* The process dies and is started again, under the same consumer name.
Crash(w) ==
  /\ stage[w] # "idle"
  /\ crashes < MaxCrashes
  /\ crashes' = crashes + 1
  /\ batch' = [batch EXCEPT ![w] = {}]
  /\ stage' = [stage EXCEPT ![w] = "idle"]
  /\ UNCHANGED <<head, floor, delivered, pending, acked, missed, jobs,
                 committed, failures, line>>

Work(w) == Read(w) \/ Evaluate(w) \/ Commit(w) \/ Ack(w)

Next ==
  \/ Connect \/ Disconnect
  \/ \E m \in Messages : Publish(m) \/ Forget(m)
  \/ \E w \in Workers : Work(w) \/ PollEmpty(w) \/ Fail(w) \/ Crash(w)

Spec == Init /\ [][Next]_vars

\* A worker keeps going, and loop_forever() connects again; readings, failures
\* and crashes come as they like.
FairSpec == Spec /\ WF_vars(Connect) /\ \A w \in Workers : WF_vars(Work(w))

-----------------------------------------------------------------------------

TypeOK ==
  /\ head \in 0 .. MaxReadings
  /\ floor \in 0 .. head /\ delivered \in 0 .. head
  /\ pending \cup acked \cup missed \subseteq 1 .. delivered
  /\ batch \in [Workers -> SUBSET pending]
  /\ \A w \in Workers : stage[w] = "idle" <=> batch[w] = {}

(* Every entry behind the group's cursor is in one place: acknowledged once *)
(* its evaluation is in the database, still pending, or trimmed before      *)
(* anybody read it; whichever worker crashed or failed in between.          *)
Accounted ==
  /\ pending \cup acked \cup missed = 1 .. delivered
  /\ pending \cap acked = {}
  /\ (pending \cup acked) \cap missed = {}
  /\ \A e \in acked : committed[e] = 1

(* No reading is evaluated or committed twice, and no two workers hold the  *)
(* same entry: what the workers do amounts to at most one evaluation.       *)
EvaluatedAtMostOnce ==
  /\ \A e \in Ids : committed[e] <= jobs[e] /\ jobs[e] <= 1
  /\ \A v, w \in Workers : v # w => batch[v] \cap batch[w] = {}

(* Every published reading is settled in the end: acknowledged, trimmed, or *)
(* left pending with nobody at work on it, which takes a failure or a crash *)
(* of a worker.                                                             *)
EventuallySettled ==
  \A e \in Ids :
    (e \in Published) ~>
      \/ e \in acked \cup missed
      \/ /\ e \in pending /\ failures + crashes > 0
         /\ \A w \in Workers : e \notin batch[w]

(* However often the broker is lost, the bridge hears the devices again.    *)
ListensAgain == []<>(bridge = "listening")

(* "deliveries are at-least-once and survive worker restarts" (stream.py):  *)
(* every published reading is processed in the end, or trimmed.             *)
EventuallyProcessed ==
  \A e \in Ids : (e \in Published) ~> (e \in acked \cup missed)
=============================================================================
