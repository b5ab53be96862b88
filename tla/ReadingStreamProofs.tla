------------------------ MODULE ReadingStreamProofs ------------------------
(***************************************************************************)
(* Proofs about ReadingStream, for any number of workers, any batch and    *)
(* any length of the stream: every entry the group was given is accounted  *)
(* for and no reading is evaluated twice, whatever fails, crashes or is    *)
(* trimmed.                                                                *)
(*                                                                         *)
(* Entries are handed out in intervals of ids, and a worker takes the      *)
(* first of its batch at each turn: IInv follows an entry from the stream  *)
(* through a batch and says how far its evaluation is.                     *)
(***************************************************************************)
EXTENDS ReadingStream, FiniteSetTheorems, TLAPS

Stages == {"idle", "taken", "evaluated", "committed"}
Interval(S) == \E lo, hi \in Nat : lo <= hi /\ S = lo .. hi

MoreTypes ==
  /\ stage \in [Workers -> Stages]
  /\ jobs \in [Ids -> Nat] /\ committed \in [Ids -> Nat]

\* Batches are intervals of ids, and no entry is in two of them.
BatchInv ==
  /\ \A w \in Workers : stage[w] # "idle" => Interval(batch[w])
  /\ \A v, w \in Workers : v # w => batch[v] \cap batch[w] = {}

Untouched(e) == jobs[e] = 0 /\ committed[e] = 0

\* How far the evaluation of an entry is: not begun before it is delivered nor
\* while it is behind another one of its batch, and as far as its worker's stage.
ProgressInv ==
  /\ \A e \in Ids : e > delivered => Untouched(e)
  /\ \A w \in Workers : \A e \in batch[w] :
       /\ e # Current(w) \/ stage[w] = "taken" => Untouched(e)
       /\ e = Current(w) /\ stage[w] = "evaluated" => jobs[e] = 1 /\ committed[e] = 0
       /\ e = Current(w) /\ stage[w] = "committed" => jobs[e] = 1 /\ committed[e] = 1
  /\ \A e \in Ids : committed[e] <= jobs[e] /\ jobs[e] <= 1

IInv == TypeOK /\ MoreTypes /\ Accounted /\ BatchInv /\ ProgressInv

-----------------------------------------------------------------------------

(* An interval's least and greatest elements are its ends.                  *)
LEMMA EndsOfInterval ==
  ASSUME NEW lo \in Nat, NEW hi \in Nat, lo <= hi
  PROVE  Min(lo .. hi) = lo /\ Max(lo .. hi) = hi
  <1>1. \A x \in lo .. hi : (\A y \in lo .. hi : x <= y) => x = lo
    OBVIOUS
  <1>2. \A x \in lo .. hi : (\A y \in lo .. hi : x >= y) => x = hi
    OBVIOUS
  <1>3. lo \in lo .. hi /\ hi \in lo .. hi
    OBVIOUS
  <1> QED
    BY <1>1, <1>2, <1>3 DEF Min, Max

(* A worker that is not idle is at the first entry of its batch; the rest   *)
(* is empty or an interval again.                                           *)
LEMMA AtFirstEntry ==
  ASSUME IInv, NEW w \in Workers, stage[w] # "idle"
  PROVE  /\ Current(w) \in batch[w] /\ Current(w) \in Ids /\ Current(w) \in pending
         /\ \A e \in batch[w] : e # Current(w) => Current(w) < e
         /\ LET rest == batch[w] \ {Current(w)} IN rest # {} => Interval(rest)
  <1>1. PICK lo \in Nat, hi \in Nat : lo <= hi /\ batch[w] = lo .. hi
    BY DEF IInv, BatchInv, Interval
  <1>2. Current(w) = lo
    BY <1>1, EndsOfInterval DEF Current
  <1>3. batch[w] \subseteq pending /\ pending \subseteq Ids
    BY BoundAssumption DEF IInv, TypeOK, Ids
  <1>4. batch[w] \ {lo} = lo + 1 .. hi
    BY <1>1
  <1>5. batch[w] \ {lo} # {} => lo + 1 <= hi
    BY <1>4
  <1> QED
    BY <1>1, <1>2, <1>3, <1>4, <1>5 DEF Interval

(* XREADGROUP hands out an interval of the ids behind the group's cursor    *)
(* and passes over the ids that were trimmed.                               *)
LEMMA ReadIsInterval ==
  ASSUME IInv, New # {}
  PROVE  LET last == IF Cardinality(New) <= Batch THEN Max(New) ELSE Min(New) + Batch - 1
             got == {e \in New : e <= last}
             passed == {e \in Published : delivered < e /\ e <= floor}
         IN /\ last \in delivered + 1 .. head
            /\ Interval(got) /\ got # {}
            /\ got \cap 1 .. delivered = {}
            /\ got \cap passed = {}
            /\ got \cup passed = delivered + 1 .. last
            /\ passed \cap 1 .. delivered = {}
  <1> DEFINE last == IF Cardinality(New) <= Batch THEN Max(New) ELSE Min(New) + Batch - 1
             got == {e \in New : e <= last}
             passed == {e \in Published : delivered < e /\ e <= floor}
             first == IF delivered < floor THEN floor + 1 ELSE delivered + 1
  <1>1. head \in Nat /\ floor \in Nat /\ delivered \in Nat /\ floor <= head
        /\ Batch \in Nat /\ Batch > 0
    BY BoundAssumption, LenAssumption DEF IInv, TypeOK
  <1>2. first \in Nat /\ first > delivered /\ first > floor /\ first > 0
        /\ (first = floor + 1 \/ first = delivered + 1)
    BY <1>1
  <1> HIDE DEF first
  <1>3. New = first .. head
    <2>1. \A e \in 1 .. head : e > delivered /\ e > floor <=> e >= first
      BY <1>1, <1>2
    <2> QED
      BY <1>1, <1>2, <2>1 DEF New, Published
  <1>4. first <= head
    BY <1>1, <1>2, <1>3
  <1>5. Min(New) = first /\ Max(New) = head /\ Cardinality(New) = head - first + 1
    BY <1>1, <1>2, <1>3, <1>4, EndsOfInterval, FS_Interval
  <1>6. last \in first .. head
    BY <1>1, <1>2, <1>4, <1>5
  <1> HIDE DEF last
  <1>7. got = first .. last
    BY <1>1, <1>2, <1>3, <1>6
  <1>8. passed = delivered + 1 .. first - 1
    BY <1>1, <1>2 DEF Published
  <1> QED
    BY <1>1, <1>2, <1>6, <1>7, <1>8 DEF Interval, last

LEMMA InitInv == Init => IInv
  <1> SUFFICES ASSUME Init PROVE IInv
    OBVIOUS
  <1>1. TypeOK
    BY BoundAssumption DEF Init, TypeOK
  <1>2. MoreTypes
    BY DEF Init, MoreTypes, Stages
  <1>3. Accounted
    BY DEF Init, Accounted
  <1>4. BatchInv
    BY DEF Init, BatchInv
  <1>5. ProgressInv
    BY DEF Init, ProgressInv, Untouched
  <1> QED
    BY <1>1, <1>2, <1>3, <1>4, <1>5 DEF IInv

(* A worker reads the next entries.                                         *)
LEMMA ReadStep ==
  ASSUME IInv, NEW w \in Workers, Read(w)
  PROVE  IInv'
  <1> DEFINE last == IF Cardinality(New) <= Batch THEN Max(New) ELSE Min(New) + Batch - 1
             got == {e \in New : e <= last}
             passed == {e \in Published : delivered < e /\ e <= floor}
  <1>1. /\ stage[w] = "idle" /\ stage' = [stage EXCEPT ![w] = "taken"]
        /\ batch' = [batch EXCEPT ![w] = got]
        /\ pending' = pending \cup got
        /\ delivered' = last
        /\ missed' = missed \cup passed
        /\ UNCHANGED <<head, floor, acked, jobs, committed>>
    BY DEF Read
  <1>2. /\ last \in delivered + 1 .. head
        /\ Interval(got) /\ got # {}
        /\ got \cap 1 .. delivered = {}
        /\ got \cap passed = {}
        /\ got \cup passed = delivered + 1 .. last
        /\ passed \cap 1 .. delivered = {}
    BY ReadIsInterval DEF Read
  <1> HIDE DEF last, got, passed
  <1>3. head \in Nat /\ delivered \in Nat /\ head <= MaxReadings /\ last \in Nat
    BY <1>2, BoundAssumption DEF IInv, TypeOK
  <1>4. 1 .. last = 1 .. delivered \cup delivered + 1 .. last
    BY <1>2, <1>3
  <1>5. \A v \in Workers : batch[v] \subseteq 1 .. delivered
    BY DEF IInv, TypeOK
  <1>6. TypeOK'
    <2>1. batch' \in [Workers -> SUBSET pending']
      BY <1>1 DEF IInv, TypeOK
    <2>2. (pending \cup acked \cup missed)' \subseteq 1 .. delivered'
      BY <1>1, <1>2, <1>4 DEF IInv, TypeOK
    <2>3. \A v \in Workers : stage'[v] = "idle" <=> batch'[v] = {}
      BY <1>1, <1>2 DEF IInv, TypeOK, MoreTypes
    <2> QED
      BY <1>1, <1>2, <1>3, <2>1, <2>2, <2>3 DEF IInv, TypeOK
  <1>7. MoreTypes'
    BY <1>1 DEF IInv, MoreTypes, Stages
  <1>8. Accounted'
    <2>1. pending \cup acked \cup missed = 1 .. delivered
      BY DEF IInv, Accounted
    <2> QED
      BY <1>1, <1>2, <1>4, <2>1 DEF IInv, Accounted
  <1>9. BatchInv'
    BY <1>1, <1>2, <1>5 DEF IInv, BatchInv, MoreTypes, TypeOK
  <1>10. ProgressInv'
    <2>1. \A e \in Ids : e > delivered' => Untouched(e)'
      BY <1>1, <1>2, <1>3 DEF IInv, ProgressInv, Untouched, Ids
    <2>2. \A e \in got : Untouched(e)'
      <3>1. got \subseteq delivered + 1 .. last
        BY <1>2
      <3>2. \A e \in got : e \in Ids /\ e > delivered
        BY <1>2, <1>3, <3>1, BoundAssumption DEF Ids
      <3> QED
        BY <1>1, <3>2 DEF IInv, ProgressInv, Untouched
    <2>3. \A v \in Workers \ {w} : batch'[v] = batch[v] /\ stage'[v] = stage[v]
                                   /\ Current(v)' = Current(v)
      BY <1>1 DEF IInv, MoreTypes, TypeOK, Current
    <2>4. batch'[w] = got /\ stage'[w] = "taken"
      BY <1>1 DEF IInv, MoreTypes, TypeOK
    <2> QED
      BY <1>1, <2>1, <2>2, <2>3, <2>4 DEF IInv, ProgressInv, Untouched
  <1> QED
    BY <1>6, <1>7, <1>8, <1>9, <1>10 DEF IInv

(* evaluate() and the commit that follows it.                               *)
LEMMA EvaluateStep ==
  ASSUME IInv, NEW w \in Workers, Evaluate(w) \/ Commit(w)
  PROVE  IInv'
  <1> DEFINE cur == Current(w)
  <1>1. stage[w] # "idle" /\ UNCHANGED <<head, floor, delivered, pending, acked, missed, batch>>
    BY DEF Evaluate, Commit
  <1>2. cur \in batch[w] /\ cur \in Ids /\ cur \in pending
    BY <1>1, AtFirstEntry
  <1>3. \A v \in Workers : Current(v)' = Current(v)
    BY <1>1 DEF Current
  <1>4. cur \notin acked
    BY <1>2 DEF IInv, Accounted
  <1>5. \A v \in Workers \ {w} : cur \notin batch[v]
    BY <1>2 DEF IInv, BatchInv
  <1>6. cur <= delivered /\ delivered \in Nat /\ cur \in Nat
    BY <1>2 DEF IInv, TypeOK, Ids
  <1>7. /\ stage' \in [Workers -> Stages] /\ stage'[w] # "idle"
        /\ jobs' \in [Ids -> Nat] /\ committed' \in [Ids -> Nat]
        /\ \A v \in Workers \ {w} : stage'[v] = stage[v]
        /\ \A e \in Ids \ {cur} : jobs'[e] = jobs[e] /\ committed'[e] = committed[e]
    BY <1>2 DEF IInv, MoreTypes, Stages, Evaluate, Commit
  <1>8. /\ committed'[cur] <= jobs'[cur] /\ jobs'[cur] <= 1
        /\ \/ stage'[w] = "evaluated" /\ jobs'[cur] = 1 /\ committed'[cur] = 0
           \/ stage'[w] = "committed" /\ jobs'[cur] = 1 /\ committed'[cur] = 1
    <2>1. CASE Evaluate(w)
      <3>1. jobs[cur] = 0 /\ committed[cur] = 0
        BY <1>2, <2>1 DEF IInv, ProgressInv, Untouched, Evaluate
      <3> QED
        BY <1>2, <2>1, <3>1 DEF IInv, MoreTypes, Evaluate
    <2>2. CASE Commit(w)
      <3>1. jobs[cur] = 1 /\ committed[cur] = 0
        BY <1>2, <2>2 DEF IInv, ProgressInv, Commit
      <3> QED
        BY <1>2, <2>2, <3>1 DEF IInv, MoreTypes, Commit
    <2> QED
      BY <2>1, <2>2
  <1> HIDE DEF cur
  <1>9. TypeOK'
    BY <1>1, <1>7 DEF IInv, TypeOK
  <1>10. Accounted'
    <2>1. acked \subseteq Ids
      BY BoundAssumption DEF IInv, TypeOK, Ids
    <2> QED
      BY <1>1, <1>4, <1>7, <2>1 DEF IInv, Accounted
  <1>11. BatchInv'
    BY <1>1, <1>7 DEF IInv, BatchInv
  <1>12. ProgressInv'
    <2>1. \A e \in Ids : e > delivered' => Untouched(e)'
      BY <1>1, <1>6, <1>7 DEF IInv, ProgressInv, Untouched
    <2>2. \A v \in Workers : batch[v] \subseteq Ids
      BY BoundAssumption DEF IInv, TypeOK, Ids
    <2>3. ASSUME NEW v \in Workers, NEW e \in batch[v]
          PROVE  /\ e # Current(v) \/ stage'[v] = "taken" => Untouched(e)'
                 /\ e = Current(v) /\ stage'[v] = "evaluated" => jobs'[e] = 1 /\ committed'[e] = 0
                 /\ e = Current(v) /\ stage'[v] = "committed" => jobs'[e] = 1 /\ committed'[e] = 1
      <3>1. CASE v = w /\ e = cur
        BY <1>8, <3>1 DEF cur
      <3>2. CASE v = w /\ e # cur
        <4>1. e # Current(v) /\ e \in Ids
          BY <2>2, <3>2 DEF cur
        <4>2. Untouched(e)
          BY <4>1 DEF IInv, ProgressInv
        <4>3. Untouched(e)'
          BY <1>7, <3>2, <4>1, <4>2 DEF Untouched
        <4> QED
          BY <4>1, <4>3
      <3>3. CASE v # w
        <4>1. e # cur
          BY <1>5, <3>3
        <4>2. /\ e \in Ids /\ stage'[v] = stage[v]
              /\ jobs'[e] = jobs[e] /\ committed'[e] = committed[e]
          BY <1>7, <2>2, <3>3, <4>1
        <4> QED
          BY <4>2 DEF IInv, ProgressInv, Untouched
      <3> QED
        BY <3>1, <3>2, <3>3
    <2>4. \A e \in Ids : committed'[e] <= jobs'[e] /\ jobs'[e] <= 1
      BY <1>7, <1>8 DEF IInv, ProgressInv
    <2> QED
      BY <1>1, <1>3, <2>1, <2>3, <2>4 DEF ProgressInv, Untouched
  <1> QED
    BY <1>7, <1>9, <1>10, <1>11, <1>12 DEF IInv, MoreTypes

(* What a worker gives up does not disturb the other batches: XACK, a       *)
(* failed handler and a crash take entries out of its batch only.           *)
LEMMA LeaveStep ==
  ASSUME IInv, NEW w \in Workers, Ack(w) \/ Fail(w) \/ Crash(w)
  PROVE  IInv'
  <1> DEFINE cur == Current(w)
             rest == batch'[w]
  <1>1. /\ stage[w] # "idle"
        /\ UNCHANGED <<head, floor, delivered, missed, jobs, committed>>
        /\ \/ batch' = [batch EXCEPT ![w] = batch[w] \ {cur}]
           \/ batch' = [batch EXCEPT ![w] = {}]
        /\ stage' = [stage EXCEPT ![w] = IF rest = {} THEN "idle" ELSE "taken"]
    BY DEF Ack, Fail, Crash, Advance, IInv, TypeOK
  <1>2. /\ cur \in batch[w] /\ cur \in Ids /\ cur \in pending
        /\ batch[w] \ {cur} # {} => Interval(batch[w] \ {cur})
    BY <1>1, AtFirstEntry
  <1>3. /\ rest \in {batch[w] \ {cur}, {}}
        /\ stage' \in [Workers -> Stages]
        /\ stage'[w] = IF rest = {} THEN "idle" ELSE "taken"
        /\ DOMAIN batch' = Workers
        /\ \A v \in Workers \ {w} : batch'[v] = batch[v] /\ stage'[v] = stage[v]
    BY <1>1 DEF IInv, TypeOK, MoreTypes, Stages
  <1>4. \/ pending' = pending /\ acked' = acked
        \/ /\ pending' = pending \ {cur} /\ acked' = acked \cup {cur}
           /\ committed[cur] = 1 /\ cur \notin batch'[w]
    <2>1. CASE Ack(w)
      <3>1. committed[cur] = 1
        BY <1>2, <2>1 DEF IInv, ProgressInv, Ack
      <3>2. cur \notin batch'[w]
        BY <1>3
      <3> QED
        BY <2>1, <3>1, <3>2 DEF Ack
    <2>2. CASE Fail(w) \/ Crash(w)
      BY <2>2 DEF Fail, Crash
    <2> QED
      BY <2>1, <2>2
  <1>5. \A v \in Workers \ {w} : cur \notin batch[v]
    BY <1>2 DEF IInv, BatchInv
  <1>6. \A v \in Workers : batch'[v] \subseteq batch[v] /\ batch'[v] \subseteq pending'
    BY <1>3, <1>4, <1>5 DEF IInv, TypeOK
  <1>7. rest # {} => \A e \in rest : e # cur /\ e \in Ids /\ Untouched(e)
    <2>1. \A e \in batch[w] : e \in Ids
      BY BoundAssumption DEF IInv, TypeOK, Ids
    <2>2. \A e \in batch[w] : e # cur => Untouched(e)
      BY DEF IInv, ProgressInv
    <2>3. rest \subseteq batch[w] \ {cur}
      BY <1>3
    <2> HIDE DEF rest, cur
    <2> QED
      BY <2>1, <2>2, <2>3
  <1> HIDE DEF cur, rest
  <1>8. TypeOK'
    <2>1. pending' \cup acked' = pending \cup acked
      BY <1>2, <1>4
    <2>2. (pending \cup acked \cup missed)' \subseteq 1 .. delivered'
      BY <1>1, <2>1 DEF IInv, TypeOK
    <2>3. batch' \in [Workers -> SUBSET pending']
      <3>1. DOMAIN batch' = Workers /\ batch' = [v \in Workers |-> batch'[v]]
        BY <1>1 DEF IInv, TypeOK
      <3> QED
        BY <1>6, <3>1
    <2>4. \A v \in Workers : stage'[v] = "idle" <=> batch'[v] = {}
      BY <1>3 DEF IInv, TypeOK, rest
    <2> QED
      BY <1>1, <2>2, <2>3, <2>4 DEF IInv, TypeOK
  <1>9. MoreTypes'
    BY <1>1, <1>3 DEF IInv, MoreTypes
  <1>10. Accounted'
    BY <1>1, <1>2, <1>4 DEF IInv, Accounted
  <1>11. BatchInv'
    <2>1. \A v \in Workers : stage'[v] # "idle" => Interval(batch'[v])
      BY <1>2, <1>3 DEF IInv, BatchInv, rest
    <2> QED
      BY <1>6, <2>1 DEF IInv, BatchInv
  <1>12. ProgressInv'
    <2>1. \A v \in Workers \ {w} : Current(v)' = Current(v)
      BY <1>3 DEF Current
    <2>2. \A e \in Ids : Untouched(e)' <=> Untouched(e)
      BY <1>1 DEF Untouched
    <2>3. ASSUME NEW v \in Workers, NEW e \in batch'[v]
          PROVE  /\ e # Current(v)' \/ stage'[v] = "taken" => Untouched(e)'
                 /\ e = Current(v)' /\ stage'[v] = "evaluated" => jobs'[e] = 1 /\ committed'[e] = 0
                 /\ e = Current(v)' /\ stage'[v] = "committed" => jobs'[e] = 1 /\ committed'[e] = 1
      <3>1. CASE v = w
        <4>1. Untouched(e)' /\ stage'[v] \in {"idle", "taken"}
          BY <1>3, <1>7, <2>2, <3>1 DEF rest
        <4> QED
          BY <4>1
      <3>2. CASE v # w
        BY <1>1, <1>3, <2>1, <3>2 DEF IInv, ProgressInv, Untouched
      <3> QED
        BY <3>1, <3>2
    <2> QED
      BY <1>1, <2>2, <2>3 DEF IInv, ProgressInv
  <1> QED
    BY <1>8, <1>9, <1>10, <1>11, <1>12 DEF IInv

(* Steps of the bridge, and polls that find nothing, touch no entry the     *)
(* group was given; a reading that is published is behind all the others.   *)
LEMMA BridgeStep ==
  ASSUME IInv, \/ Connect \/ Disconnect \/ UNCHANGED vars
               \/ \E m \in Messages : Publish(m) \/ Forget(m)
               \/ \E w \in Workers : PollEmpty(w)
  PROVE  IInv'
  <1>1. /\ UNCHANGED <<delivered, pending, acked, missed, batch, stage, jobs, committed>>
        /\ \/ UNCHANGED <<head, floor>>
           \/ publish_reading
    BY DEF Connect, Disconnect, Publish, Forget, PollEmpty, vars
  <1>2. TypeOK'
    <2>1. CASE UNCHANGED <<head, floor>>
      BY <1>1, <2>1 DEF IInv, TypeOK
    <2>2. CASE publish_reading
      BY <1>1, <2>2, LenAssumption, BoundAssumption DEF IInv, TypeOK, publish_reading
    <2> QED
      BY <1>1, <2>1, <2>2
  <1>3. MoreTypes' /\ Accounted'
    BY <1>1 DEF IInv, MoreTypes, Accounted
  <1>4. BatchInv' /\ ProgressInv'
    BY <1>1 DEF IInv, BatchInv, ProgressInv, Untouched, Current
  <1> QED
    BY <1>2, <1>3, <1>4 DEF IInv

LEMMA Invariance == Spec => []IInv
  <1>1. IInv /\ [Next]_vars => IInv'
    BY ReadStep, EvaluateStep, LeaveStep, BridgeStep DEF Next, Work
  <1> QED
    BY InitInv, <1>1, PTL DEF Spec

(* Cursor, floor, lists and batches keep their types, and a worker is idle  *)
(* exactly when its batch is empty.                                         *)
THEOREM TypeCorrect == Spec => []TypeOK
  BY Invariance, PTL DEF IInv

(* Whatever handlers fail and workers crash, every entry the group was      *)
(* given is acknowledged after its commit, pending, or was trimmed unread.  *)
THEOREM EntriesAreAccounted == Spec => []Accounted
  BY Invariance, PTL DEF IInv

(* No reading is evaluated or committed twice, and no two workers hold the  *)
(* same one.                                                                *)
THEOREM NothingIsEvaluatedTwice == Spec => []EvaluatedAtMostOnce
  <1>1. IInv => EvaluatedAtMostOnce
    BY DEF IInv, ProgressInv, BatchInv, EvaluatedAtMostOnce
  <1> QED
    BY Invariance, <1>1, PTL
=============================================================================
