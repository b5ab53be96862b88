--------------------------- MODULE MessagesProofs ---------------------------
(***************************************************************************)
(* Proofs about the messages of the program: when TrainingReminders queues *)
(* them, and what becomes of them as jobs (ResponderJobs).                 *)
(*                                                                         *)
(* Reminders, for any links, days and parts of a day: each kind goes out   *)
(* once, one goes out on a day, and the last one before the link expires.  *)
(* IInv says that what was due earlier is marked, and what is due now once *)
(* a pass has looked at it, so that each kind is sent in the very part of  *)
(* the day at which it becomes due.                                        *)
(*                                                                         *)
(* Jobs, for any retry policy and number of administrators: attempts are   *)
(* bounded, nothing undelivered drops out of sight, and a job that was     *)
(* rejected for good is not run by itself.                                 *)
(***************************************************************************)
EXTENDS TrainingReminders, ResponderJobs, FiniteSetTheorems, TLAPS

Pass == [running : BOOLEAN, todo : SUBSET Links, marked : SUBSET (Links \X Kinds),
         seen : SUBSET Links]

Types ==
    /\ TypeOK
    /\ issued \in [Links -> Nat] /\ expires \in [Links -> Nat] /\ pass \in Pass
    /\ sent \in [Links -> [Kinds \X Lanes -> Nat]] /\ told \in [Links -> SUBSET (Kinds \X Nat)]

\* The parts of a day at which a reminder is due for the first time.
When(l, days) == issued[l] + days * Parts
LastDay(l) == Day(expires[l]) * Parts

Marked(l, kind) == kind \in marks[l] \/ <<l, kind>> \in pass.marked

\* A link is marked once in a pass, and lives for whole days.
LinkOK(l) ==
    /\ IF status[l] = "none"
         THEN l \notin pass.todo
         ELSE issued[l] <= now /\ \E ttl \in Nat \ {0} : expires[l] = issued[l] + ttl * Parts
    /\ l \in pass.todo => expires[l] > now /\ \A k \in Kinds : <<l, k>> \notin pass.marked
    /\ l \in starting => status[l] # "none" /\ expires[l] > now
    /\ l \notin active => l \in gap
LinkInv ==
    /\ \A l \in Links : LinkOK(l)
    /\ ~pass.running => pass.marked = {} /\ pass.todo = {}

\* A message more than the deaths has left its mark.
SentInv ==
    \A l \in Links, k \in Kinds, lane \in Lanes :
        sent[l][<<k, lane>>] <= 1 + deaths /\ (~Marked(l, k) => sent[l][<<k, lane>>] <= deaths)

\* What was due before this part of a day is marked, of a submitted link too that
\* a start request may open again ...
InUse(l) == status[l] \in OpenStates \/ l \in starting
Watched(l) == InUse(l) \/ l \in pass.todo
CaughtUp(l) ==
    /\ now > When(l, FirstAfter) /\ When(l, FirstAfter) < expires[l] => "3d" \in marks[l]
    /\ now > When(l, SecondAfter) /\ When(l, SecondAfter) < expires[l] => "7d" \in marks[l]
    /\ now > LastDay(l) /\ LastDay(l) < expires[l] => "final" \in marks[l]

\* ... and what is due in it, once a pass has looked.
LookedAt(l) == l \in pass.seen /\ l \notin pass.todo
Done(l) ==
    /\ now = When(l, FirstAfter) => Marked(l, "3d")
    /\ now = When(l, SecondAfter) => Marked(l, "7d")
    /\ now >= LastDay(l) => Marked(l, "final")
DoneInv ==
    \A l \in Links \ gap : /\ Watched(l) => CaughtUp(l)
                           /\ InUse(l) /\ expires[l] > now /\ LookedAt(l) => Done(l)

\* Each kind of reminder has its day.
DayOf(l, kind) ==
    CASE kind = "3d" -> Day(When(l, FirstAfter))
      [] kind = "7d" -> Day(When(l, SecondAfter))
      [] kind = "final" -> Day(expires[l])
ToldOK(l, x) ==
    /\ status[l] # "none" /\ x[2] = DayOf(l, x[1])
    /\ x[1] = "3d" => When(l, FirstAfter) < expires[l]
    /\ x[1] = "7d" => When(l, SecondAfter) < expires[l]
ToldInv == \A l \in Links \ gap : \A x \in told[l] : ToldOK(l, x)

\* Without an outage a mark is a message.
NoticeInv ==
    outages = 0 => \A l \in Links, k \in Kinds :
        Marked(l, k) => \E day \in 0..Day(now) : <<k, day>> \in told[l]

IInv == Types /\ LinkInv /\ SentInv /\ DoneInv /\ ToldInv /\ NoticeInv

-----------------------------------------------------------------------------

(* The parts of a day and the two ages, as the code has them.               *)
LEMMA PartsType == Parts \in Nat \ {0} /\ FirstAfter \in Nat \ {0} /\ SecondAfter \in Nat \ {0}
                   /\ FirstAfter < SecondAfter
  BY RemindersAssumption

(* The bounds of a run and the lives of links.                              *)
LEMMA BoundsType == /\ Horizon \in Nat /\ MaxOutages \in Nat /\ MaxDeaths \in Nat
                    /\ \A l \in Links : \A ttl \in Ttls[l] : ttl \in Nat \ {0}
  BY RemindersAssumption

(* A moment lies within its day.                                            *)
LEMMA DayBounds ==
  ASSUME NEW t \in Nat
  PROVE  Day(t) \in Nat /\ Day(t) * Parts <= t /\ t < Day(t) * Parts + Parts
  <1>1. \A p \in Nat \ {0} : t \div p \in Nat /\ (t \div p) * p <= t /\ t < (t \div p) * p + p
    OBVIOUS
  <1> QED
    BY <1>1, PartsType DEF Day

(* A moment lies within one day only.                                       *)
LEMMA OneDay ==
  ASSUME NEW p \in Nat \ {0}, NEW t \in Nat, NEW q \in Nat, NEW r \in Nat,
         q * p <= t, t < q * p + p, r * p <= t, t < r * p + p
  PROVE  q = r
  OBVIOUS

(* A day has Parts parts.                                                   *)
LEMMA DayShift ==
  ASSUME NEW t \in Nat, NEW n \in Nat
  PROVE  t + n * Parts \in Nat /\ Day(t + n * Parts) = Day(t) + n
  <1> DEFINE u == t + n * Parts  d == Day(t)  e == Day(u)
  <1>1. \A p, m \in Nat : m * p \in Nat
    OBVIOUS
  <1>2. u \in Nat
    BY <1>1, PartsType
  <1>3. d \in Nat /\ d * Parts <= t /\ t < d * Parts + Parts
    BY DayBounds
  <1>4. e \in Nat /\ e * Parts <= u /\ u < e * Parts + Parts
    BY <1>2, DayBounds
  <1>5. \A p \in Nat : (d + n) * p = d * p + n * p
    BY <1>3
  <1>6. (d + n) * Parts <= u /\ u < (d + n) * Parts + Parts
    BY <1>1, <1>3, <1>5, PartsType
  <1> HIDE DEF u, d, e
  <1>7. e = d + n
    BY <1>2, <1>3, <1>4, <1>6, OneDay, PartsType
  <1> QED
    BY <1>2, <1>7 DEF u, d, e

(* Numbers compare as their multiples do.                                   *)
LEMMA Factor ==
  ASSUME NEW p \in Nat \ {0}, NEW m \in Nat, NEW n \in Nat
  PROVE  m < n <=> m * p < n * p
  OBVIOUS

(* The last day of a link is the one it expires on.                         *)
LEMMA OnLastDay ==
  ASSUME NEW e \in Nat, NEW t \in Nat, t < e
  PROVE  /\ Day(e) * Parts \in Nat /\ Day(e) * Parts <= e
         /\ Day(e) = Day(t) <=> Day(e) * Parts <= t
  <1>1. \A p, m \in Nat : m * p \in Nat
    OBVIOUS
  <1>2. /\ Day(e) \in Nat /\ Day(e) * Parts <= e /\ e < Day(e) * Parts + Parts
        /\ Day(t) \in Nat /\ Day(t) * Parts <= t /\ t < Day(t) * Parts + Parts
    BY DayBounds
  <1>3. ASSUME Day(e) * Parts <= t
        PROVE  Day(e) = Day(t)
    <2>1. \A d, f, x \in Nat, p \in Nat \ {0} :
            f * p <= x /\ x < f * p + p /\ d * p <= x /\ x < d * p + p => d = f
      BY OneDay
    <2>2. t < Day(e) * Parts + Parts
      BY <1>1, <1>2, PartsType
    <2> HIDE DEF Day
    <2> QED
      BY <1>2, <1>3, <2>1, <2>2, PartsType
  <1>4. Day(e) = Day(t) => Day(e) * Parts <= t
    BY <1>2
  <1> QED
    BY <1>1, <1>2, <1>3, <1>4, PartsType

(* A later moment is on the same or a later day.                            *)
LEMMA DaysGrow ==
  ASSUME NEW t \in Nat
  PROVE  Day(t) <= Day(t + 1)
  <1>1. /\ Day(t) \in Nat /\ Day(t) * Parts <= t /\ t < Day(t) * Parts + Parts
        /\ Day(t + 1) \in Nat /\ t + 1 < Day(t + 1) * Parts + Parts
    BY DayBounds
  <1>2. \A d, f \in Nat, p \in Nat \ {0} : d * p <= t /\ t + 1 < f * p + p => d <= f
    <2> SUFFICES ASSUME NEW d \in Nat, NEW f \in Nat, NEW p \in Nat \ {0},
                        d * p <= t, t + 1 < f * p + p, f + 1 <= d
                 PROVE  FALSE
      OBVIOUS
    <2>1. (f + 1) * p = f * p + p /\ (f + 1) * p <= d * p
      OBVIOUS
    <2>2. f * p \in Nat /\ d * p \in Nat
      OBVIOUS
    <2> QED
      BY <2>1, <2>2
  <1> QED
    BY <1>1, <1>2, PartsType

(* The times of a link.                                                     *)
LEMMA Times ==
  ASSUME Types, NEW l \in Links, LinkOK(l), status[l] # "none"
  PROVE  /\ expires[l] \in Nat /\ now \in Nat
         /\ When(l, FirstAfter) \in Nat /\ When(l, SecondAfter) \in Nat /\ LastDay(l) \in Nat
         /\ When(l, FirstAfter) < When(l, SecondAfter) /\ LastDay(l) <= expires[l]
         /\ Day(When(l, FirstAfter)) < Day(When(l, SecondAfter))
         /\ When(l, FirstAfter) < expires[l] => Day(When(l, FirstAfter)) < Day(expires[l])
         /\ When(l, SecondAfter) < expires[l] => Day(When(l, SecondAfter)) < Day(expires[l])
         /\ Day(expires[l]) \in Nat /\ Day(When(l, FirstAfter)) \in Nat
         /\ Day(When(l, SecondAfter)) \in Nat
         /\ now < expires[l] => (IsFinalDay(l) <=> now >= LastDay(l))
  <1>1. issued[l] \in Nat /\ expires[l] \in Nat /\ now \in Nat
    BY PartsType, BoundsType DEF Types, TypeOK
  <1>2. PICK ttl \in Nat \ {0} : expires[l] = issued[l] + ttl * Parts
    BY DEF LinkOK
  <1>3. Day(issued[l]) \in Nat /\ Day(expires[l]) = Day(issued[l]) + ttl
    BY <1>1, <1>2, DayShift, DayBounds
  <1>4. \A n \in Nat :
          /\ When(l, n) \in Nat /\ Day(When(l, n)) = Day(issued[l]) + n
          /\ When(l, n) < expires[l] => n < ttl
    <2> TAKE n \in Nat
    <2>1. When(l, n) \in Nat /\ Day(When(l, n)) = Day(issued[l]) + n
      BY <1>1, DayShift DEF When
    <2>2. n * Parts \in Nat /\ ttl * Parts \in Nat
      BY PartsType, \A p, m \in Nat : m * p \in Nat
    <2>3. When(l, n) < expires[l] => n * Parts < ttl * Parts
      BY <1>1, <1>2, <2>2 DEF When
    <2> QED
      BY <2>1, <2>3, Factor, PartsType
  <1>5. When(l, FirstAfter) < When(l, SecondAfter)
    <2>1. FirstAfter * Parts < SecondAfter * Parts
      BY Factor, PartsType
    <2>2. FirstAfter * Parts \in Nat /\ SecondAfter * Parts \in Nat
      BY PartsType, \A p, m \in Nat : m * p \in Nat
    <2> QED
      BY <1>1, <2>1, <2>2 DEF When
  <1>6. LastDay(l) \in Nat /\ LastDay(l) <= expires[l]
    <2>1. \A p, m \in Nat : m * p \in Nat
      OBVIOUS
    <2> QED
      BY <1>1, <1>3, <2>1, DayBounds, PartsType DEF LastDay
  <1>7. now < expires[l] => (IsFinalDay(l) <=> now >= LastDay(l))
    <2>1. now < expires[l] => (Day(expires[l]) = Day(now) <=> LastDay(l) <= now)
      BY <1>1, OnLastDay DEF LastDay
    <2> QED
      BY <1>1, <1>6, <2>1 DEF IsFinalDay
  <1> QED
    BY <1>1, <1>3, <1>4, <1>5, <1>6, <1>7, PartsType

-----------------------------------------------------------------------------

(* A pass finds one of the kinds due, or none.                              *)
LEMMA KindsOfClassify ==
  ASSUME NEW l \in Links, Classify(l) # "none"
  PROVE  Classify(l) \in Kinds /\ IsDue(l, Classify(l))
  BY DEF Classify, Kinds

\* What the worker does, and all that is done about a link.
Works(l) == LoadStart(l) \/ WriteStart(l) \/ Submit(l)
Acts(l) ==
    \/ \E ttl \in Ttls[l] : Issue(l, ttl)
    \/ Works(l) \/ SetActive(l) \/ Skip(l) \/ \E up \in SUBSET Lanes : Remind(l, up)

(* The steps, those of a link taken together.                               *)
LEMMA NextCases ==
  ASSUME [Next]_vars
  PROVE  \/ UNCHANGED vars \/ Tick \/ List \/ Commit \/ Die
         \/ \E l \in Links : Acts(l)
  BY DEF Next, Acts, Works

(* A pass is a record of its four fields.                                   *)
LEMMA PassFields ==
  ASSUME Types
  PROVE  /\ Idle \in Pass
         /\ pass = [running |-> pass.running, todo |-> pass.todo, marked |-> pass.marked,
                    seen |-> pass.seen]
         /\ pass.running \in BOOLEAN /\ pass.todo \subseteq Links
         /\ pass.marked \subseteq Links \X Kinds /\ pass.seen \subseteq Links
  BY DEF Types, Pass, Idle

(* What a step counts about the link it is about.                           *)
LEMMA CountedType ==
  ASSUME Types, NEW l \in Links, NEW up \in SUBSET Lanes, Remind(l, up)
  PROVE  /\ outages' \in 0..MaxOutages
         /\ outages' = 0 => outages = 0 /\ up = LanesOf(l)
         /\ LanesOf(l) # {}
  <1>1. IsFiniteSet(LanesOf(l) \ up)
    <2>1. IsFiniteSet(Lanes)
      <3>1. Lanes = ({} \cup {"sms"}) \cup {"email"}
        BY DEF Lanes
      <3>2. IsFiniteSet({} \cup {"sms"})
        BY FS_EmptySet, FS_AddElement
      <3> QED
        BY <3>1, <3>2, FS_AddElement
    <2>2. LanesOf(l) \ up \subseteq Lanes
      BY DEF LanesOf
    <2> QED
      BY <2>1, <2>2, FS_Subset
  <1>2. Cardinality(LanesOf(l) \ up) \in Nat
        /\ (Cardinality(LanesOf(l) \ up) = 0 <=> LanesOf(l) \ up = {})
    BY <1>1, FS_CardinalityType, FS_EmptySet
  <1>3. outages' = outages + Cardinality(LanesOf(l) \ up) /\ outages' <= MaxOutages
        /\ up \subseteq LanesOf(l)
    BY DEF Remind
  <1>4. outages \in Nat /\ MaxOutages \in Nat
    BY BoundsType DEF Types, TypeOK
  <1>5. LanesOf(l) # {}
    <2>1. CASE l \in HasEmail /\ Channel[l] # "sms"
      BY <2>1 DEF LanesOf, Lanes
    <2>2. CASE ~(l \in HasEmail /\ Channel[l] # "sms")
      <3>1. Channel[l] # "email" \/ l \notin HasEmail
        BY <2>2
      <3> QED
        BY <3>1 DEF LanesOf, Lanes
    <2> QED
      BY <2>1, <2>2
  <1>6. outages' \in 0..MaxOutages
    BY <1>2, <1>3, <1>4
  <1>7. outages' = 0 => outages = 0 /\ LanesOf(l) \ up = {}
    BY <1>2, <1>3, <1>4
  <1> QED
    BY <1>3, <1>5, <1>6, <1>7

(* Every step preserves the types.                                          *)
LEMMA TypesStep ==
  ASSUME Types, [Next]_vars
  PROVE  Types'
  <1> USE DEF Types, TypeOK
  <1>0. Idle \in Pass /\ MaxOutages \in Nat /\ MaxDeaths \in Nat /\ Horizon \in Nat /\ Parts \in Nat
    BY PassFields, PartsType, BoundsType
  <1>1. CASE UNCHANGED vars
    BY <1>1 DEF vars, link, history
  <1>2. CASE Tick
    <2>1. now' \in 0..Horizon
      BY <1>0, <1>2 DEF Tick
    <2>2. gap' \subseteq Links
      BY <1>2 DEF Tick
    <2>3. pass' \in Pass
      BY <1>0, <1>2 DEF Tick
    <2>4. UNCHANGED <<status, issued, expires, starting, active, marks, deaths, outages,
                      sent, told>>
      BY <1>2 DEF Tick, link
    <2> QED
      BY <2>1, <2>2, <2>3, <2>4
  <1>3. CASE List
    BY <1>3 DEF List, link, history, Pass
  <1>4. CASE Commit
    <2>1. marks' \in [Links -> SUBSET Kinds]
      BY <1>4 DEF Commit
    <2>2. pass' \in Pass
      BY <1>4 DEF Commit, Idle, Pass
    <2> QED
      BY <1>4, <2>1, <2>2 DEF Commit, link, history
  <1>5. CASE Die
    <2>1. deaths' \in 0..MaxDeaths
      BY <1>0, <1>5 DEF Die
    <2>2. pass' \in Pass
      BY <1>0, <1>5 DEF Die
    <2> QED
      BY <1>5, <2>1, <2>2 DEF Die, link, history
  <1>6. ASSUME NEW l \in Links, NEW ttl \in Ttls[l], Issue(l, ttl)
        PROVE  Types'
    <2>1. now + ttl * Parts \in Nat
      <3>1. \A p, m \in Nat : m * p \in Nat
        OBVIOUS
      <3>2. ttl \in Nat /\ now \in Nat
        BY <1>0, BoundsType
      <3>3. ttl * Parts \in Nat
        BY <1>0, <3>1, <3>2
      <3> QED
        BY <3>2, <3>3
    <2>2. issued' \in [Links -> Nat] /\ expires' \in [Links -> Nat]
      BY <1>0, <1>6, <2>1 DEF Issue
    <2>3. status' \in [Links -> OpenStates \cup {"none", "submitted"}]
      BY <1>6 DEF Issue, OpenStates
    <2> QED
      BY <1>6, <2>2, <2>3 DEF Issue, history
  <1>7. ASSUME NEW l \in Links, Works(l)
        PROVE  Types'
    <2>1. status' \in [Links -> OpenStates \cup {"none", "submitted"}]
      BY <1>7 DEF Works, LoadStart, WriteStart, Submit, OpenStates
    <2>2. starting' \subseteq Links
      BY <1>7 DEF Works, LoadStart, WriteStart, Submit
    <2>3. UNCHANGED <<now, issued, expires, active, marks, pass, deaths, outages, history>>
      BY <1>7 DEF Works, LoadStart, WriteStart, Submit
    <2> QED
      BY <2>1, <2>2, <2>3 DEF history
  <1>8. ASSUME NEW l \in Links, SetActive(l)
        PROVE  Types'
    BY <1>8 DEF SetActive, link
  <1>9. ASSUME NEW l \in Links, Skip(l)
        PROVE  Types'
    BY <1>9 DEF Skip, link, history, Pass
  <1>10. ASSUME NEW l \in Links, NEW up \in SUBSET Lanes, Remind(l, up)
         PROVE  Types'
    <2>1. Classify(l) \in Kinds
      BY <1>10, KindsOfClassify DEF Remind
    <2>2. pass' \in Pass
      <3>1. pass.marked \cup {<<l, Classify(l)>>} \subseteq Links \X Kinds
        BY <2>1 DEF Pass
      <3>2. pass' = [pass EXCEPT !.todo = @ \ {l}, !.marked = @ \cup {<<l, Classify(l)>>}]
        BY <1>10 DEF Remind
      <3> QED
        BY <3>1, <3>2 DEF Pass
    <2>3. Day(now) \in Nat
      BY <1>0, DayBounds
    <2>4. told' \in [Links -> SUBSET (Kinds \X Nat)]
      <3>1. <<Classify(l), Day(now)>> \in Kinds \X Nat
        BY <2>1, <2>3
      <3>2. told' = [told EXCEPT ![l] = IF up = {} THEN @
                       ELSE @ \cup {<<Classify(l), Day(now)>>}]
        BY <1>10 DEF Remind
      <3> QED
        BY <3>1, <3>2
    <2>5. sent' \in [Links -> [Kinds \X Lanes -> Nat]]
      <3>1. sent' = [sent EXCEPT ![l] = [x \in Kinds \X Lanes |->
                       IF x[1] = Classify(l) /\ x[2] \in up THEN @[x] + 1 ELSE @[x]]]
        BY <1>10 DEF Remind
      <3> QED
        BY <3>1
    <2>6. outages' \in 0..MaxOutages
      BY <1>10, CountedType
    <2> QED
      BY <1>10, <2>2, <2>4, <2>5, <2>6 DEF Remind, link
  <1> QED
    BY <1>1, <1>2, <1>3, <1>4, <1>5, <1>6, <1>7, <1>8, <1>9, <1>10, NextCases DEF Acts

(* Every step preserves what a pass knows of the links it lists.            *)
LEMMA LinkStep ==
  ASSUME Types, LinkInv, [Next]_vars
  PROVE  LinkInv'
  <1> USE DEF LinkInv, LinkOK
  <1>0. /\ now \in Nat /\ status \in [Links -> OpenStates \cup {"none", "submitted"}]
        /\ issued \in [Links -> Nat] /\ expires \in [Links -> Nat]
        /\ active \subseteq Links /\ pass \in Pass
    BY PartsType, BoundsType DEF Types, TypeOK
  <1>1. CASE UNCHANGED vars
    BY <1>1 DEF vars, link, history
  <1>2. CASE Tick
    BY <1>0, <1>2 DEF Tick, link, Idle
  <1>3. CASE List
    BY <1>0, <1>3 DEF List, link, history, Listed, OpenStates
  <1>4. CASE Commit
    BY <1>0, <1>4 DEF Commit, link, history, Idle
  <1>5. CASE Die
    BY <1>0, <1>5 DEF Die, link, history, Idle
  <1>6. ASSUME NEW l \in Links, NEW ttl \in Ttls[l], Issue(l, ttl)
        PROVE  LinkInv'
    <2>1. ttl \in Nat \ {0}
      BY BoundsType
    <2>2. LinkOK(l)'
      BY <1>0, <1>6, <2>1 DEF Issue, history
    <2>3. \A o \in Links \ {l} : LinkOK(o)'
      BY <1>0, <1>6 DEF Issue, history
    <2> QED
      BY <1>6, <2>2, <2>3 DEF Issue
  <1>7. ASSUME NEW l \in Links, Works(l)
        PROVE  LinkInv'
    <2>1. \A o \in Links : status'[o] = "none" <=> status[o] = "none"
      BY <1>0, <1>7 DEF Works, LoadStart, WriteStart, Submit, Listed, OpenStates
    <2>2. \A o \in starting' : o \in starting \/ Listed(o)
      BY <1>7 DEF Works, LoadStart, WriteStart, Submit
    <2>3. UNCHANGED <<now, issued, expires, active, pass, gap>>
      BY <1>7 DEF Works, LoadStart, WriteStart, Submit, history
    <2> QED
      BY <2>1, <2>2, <2>3 DEF Listed, OpenStates
  <1>8. ASSUME NEW l \in Links, SetActive(l)
        PROVE  LinkInv'
    BY <1>0, <1>8 DEF SetActive, link
  <1>9. ASSUME NEW l \in Links, Skip(l)
        PROVE  LinkInv'
    <2>1. pass'.todo = pass.todo \ {l} /\ pass'.marked = pass.marked
          /\ pass'.running = pass.running /\ pass.running
      BY <1>0, <1>9 DEF Skip, Pass
    <2> QED
      BY <1>9, <2>1 DEF Skip, link, history
  <1>10. ASSUME NEW l \in Links, NEW up \in SUBSET Lanes, Remind(l, up)
         PROVE  LinkInv'
    <2>1. pass'.todo = pass.todo \ {l} /\ pass'.marked = pass.marked \cup {<<l, Classify(l)>>}
          /\ pass'.running = pass.running /\ pass.running
      BY <1>0, <1>10 DEF Remind, Pass
    <2>2. UNCHANGED <<now, link, active, gap>>
      BY <1>10 DEF Remind
    <2> HIDE DEF LinkInv, LinkOK
    <2>3. ASSUME NEW o \in Links
          PROVE  LinkOK(o)'
      BY <2>1, <2>2 DEF LinkInv, LinkOK, link
    <2> QED
      BY <2>1, <2>3 DEF LinkInv
  <1> QED
    BY <1>1, <1>2, <1>3, <1>4, <1>5, <1>6, <1>7, <1>8, <1>9, <1>10, NextCases DEF Acts

(* Every step preserves the count of messages; a pass that dies pays for    *)
(* what it queued without a mark.                                           *)
LEMMA SentStep ==
  ASSUME Types, LinkInv, SentInv, [Next]_vars
  PROVE  SentInv'
  <1> USE DEF SentInv, Marked
  <1>0. /\ sent \in [Links -> [Kinds \X Lanes -> Nat]] /\ deaths \in Nat
        /\ pass \in Pass /\ marks \in [Links -> SUBSET Kinds]
    <2>1. deaths \in 0..MaxDeaths
      BY DEF Types, TypeOK
    <2>2. deaths \in Nat
      BY <2>1, BoundsType
    <2> QED
      BY <2>2 DEF Types, TypeOK
  <1>1. CASE UNCHANGED vars
    BY <1>1 DEF vars, link, history
  <1>2. CASE Tick
    BY <1>0, <1>2 DEF Tick, Idle, LinkInv
  <1>3. CASE List
    BY <1>0, <1>3 DEF List, history, LinkInv
  <1>4. CASE Commit
    <2>1. \A l \in Links, k \in Kinds : Marked(l, k) <=> Marked(l, k)'
      BY <1>0, <1>4 DEF Commit, Idle
    <2> QED
      BY <1>0, <1>4, <2>1 DEF Commit, history
  <1>5. CASE Die
    <2>1. sent' = sent /\ deaths' = deaths + 1 /\ marks' = marks
      BY <1>5 DEF Die, history
    <2>2. \A l \in Links, k \in Kinds, lane \in Lanes : sent[l][<<k, lane>>] \in Nat
      BY <1>0
    <2>3. ASSUME NEW l \in Links, NEW k \in Kinds, NEW lane \in Lanes
          PROVE  sent'[l][<<k, lane>>] <= deaths'
      <3>1. sent[l][<<k, lane>>] <= 1 + deaths
        OBVIOUS
      <3> QED
        BY <1>0, <2>1, <3>1
    <2>4. ASSUME NEW l \in Links, NEW k \in Kinds, NEW lane \in Lanes
          PROVE  sent'[l][<<k, lane>>] <= 1 + deaths'
      BY <1>0, <2>1, <2>2, <2>3
    <2> QED
      BY <2>3, <2>4
  <1>6. ASSUME NEW l \in Links,
               (\E ttl \in Ttls[l] : Issue(l, ttl)) \/ SetActive(l) \/ Skip(l)
               \/ Works(l)
        PROVE  SentInv'
    <2>1. UNCHANGED <<sent, deaths, marks>> /\ pass'.marked = pass.marked
      BY <1>0, <1>6 DEF Issue, SetActive, Skip, Works, LoadStart, WriteStart, Submit, history, Pass
    <2> QED
      BY <2>1
  <1>7. ASSUME NEW l \in Links, NEW up \in SUBSET Lanes, Remind(l, up)
        PROVE  SentInv'
    <2>1. PICK kind \in Kinds : kind = Classify(l) /\ IsDue(l, kind)
      BY <1>7, KindsOfClassify DEF Remind
    <2>2. ~Marked(l, kind)
      BY <1>7, <2>1 DEF IsDue, Kinds, Remind, LinkInv, LinkOK
    <2>3. UNCHANGED <<deaths, marks>> /\ pass'.marked = pass.marked \cup {<<l, kind>>}
      BY <1>0, <1>7, <2>1 DEF Remind, Pass
    <2>4. sent' = [sent EXCEPT ![l] = [x \in Kinds \X Lanes |->
                     IF x[1] = kind /\ x[2] \in up THEN @[x] + 1 ELSE @[x]]]
      BY <1>7, <2>1 DEF Remind
    <2>5. ASSUME NEW o \in Links, NEW k \in Kinds, NEW lane \in Lanes
          PROVE  /\ sent[o][<<k, lane>>] \in Nat
                 /\ ~(o = l /\ k = kind) => sent'[o][<<k, lane>>] = sent[o][<<k, lane>>]
                 /\ sent'[o][<<k, lane>>] <= sent[o][<<k, lane>>] + 1
                 /\ sent'[o][<<k, lane>>] \in Nat
      <3> DEFINE x == <<k, lane>>
      <3>1. x \in Kinds \X Lanes /\ x[1] = k /\ x[2] = lane
        OBVIOUS
      <3>2. sent'[l] = [y \in Kinds \X Lanes |->
              IF y[1] = kind /\ y[2] \in up THEN sent[l][y] + 1 ELSE sent[l][y]]
        BY <1>0, <2>4
      <3>3. o # l => sent'[o] = sent[o]
        BY <1>0, <2>4
      <3> HIDE DEF x
      <3>4. sent[o][x] \in Nat
        BY <1>0, <3>1
      <3>5. o = l => sent'[o][x] = IF k = kind /\ lane \in up THEN sent[l][x] + 1 ELSE sent[l][x]
        BY <3>1, <3>2
      <3>6. /\ ~(o = l /\ k = kind) => sent'[o][x] = sent[o][x]
            /\ sent'[o][x] <= sent[o][x] + 1 /\ sent'[o][x] \in Nat
        BY <3>3, <3>4, <3>5
      <3> QED
        BY <3>4, <3>6 DEF x
    <2>6. \A o \in Links, k \in Kinds : Marked(o, k) => Marked(o, k)'
      BY <2>3
    <2>7. Marked(l, kind)'
      BY <2>3 DEF Marked
    <2> HIDE DEF Marked
    <2>8. ASSUME NEW o \in Links, NEW k \in Kinds, NEW lane \in Lanes
          PROVE  /\ sent'[o][<<k, lane>>] <= 1 + deaths'
                 /\ ~Marked(o, k)' => sent'[o][<<k, lane>>] <= deaths'
      <3>1. CASE o = l /\ k = kind
        <4>1. sent[o][<<k, lane>>] <= deaths
          BY <2>2, <3>1
        <4>2. sent'[o][<<k, lane>>] <= sent[o][<<k, lane>>] + 1
              /\ sent[o][<<k, lane>>] \in Nat
          BY <2>5
        <4> QED
          BY <1>0, <2>3, <2>5, <2>7, <3>1, <4>1, <4>2
      <3>2. CASE ~(o = l /\ k = kind)
        BY <1>0, <2>3, <2>5, <2>6, <3>2
      <3> QED
        BY <3>1, <3>2
    <2> QED
      BY <2>8
  <1> QED
    BY <1>1, <1>2, <1>3, <1>4, <1>5, <1>6, <1>7, NextCases DEF Acts

-----------------------------------------------------------------------------

DoneOK(l) == l \notin gap => /\ Watched(l) => CaughtUp(l)
                             /\ InUse(l) /\ expires[l] > now /\ LookedAt(l) => Done(l)

SameTimes(l) == issued'[l] = issued[l] /\ expires'[l] = expires[l]

(* The times of a link follow from when it was issued and expires.          *)
LEMMA TimesStay ==
  ASSUME NEW l \in Links, SameTimes(l)
  PROVE  /\ When(l, FirstAfter)' = When(l, FirstAfter)
         /\ When(l, SecondAfter)' = When(l, SecondAfter)
         /\ LastDay(l)' = LastDay(l) /\ Day(expires[l])' = Day(expires[l])
  BY DEF When, LastDay, Day, SameTimes

(* A link about which a step forgets nothing.                               *)
LEMMA DoneStays ==
  ASSUME NEW l \in Links, DoneOK(l), SameTimes(l), now' = now, gap \subseteq gap',
         marks[l] \subseteq marks'[l], Watched(l)' => Watched(l),
         InUse(l)' /\ expires'[l] > now' /\ LookedAt(l)' =>
           InUse(l) /\ expires[l] > now /\ LookedAt(l) /\ \A k \in Kinds : Marked(l, k) => Marked(l, k)'
  PROVE  DoneOK(l)'
  <1>1. CaughtUp(l) => CaughtUp(l)'
    BY TimesStay DEF CaughtUp, SameTimes
  <1>2. ASSUME Done(l), \A k \in Kinds : Marked(l, k) => Marked(l, k)'
        PROVE  Done(l)'
    BY <1>2, TimesStay DEF Done, Kinds
  <1> QED
    BY <1>1, <1>2 DEF DoneOK

(* What a pass that looks at a link finds due is what is left to do today.  *)
LEMMA LookIsDone ==
  ASSUME Types, NEW l \in Links, LinkOK(l), status[l] # "none", expires[l] > now
  PROVE  /\ now = When(l, FirstAfter) => "3d" \in marks[l] \/ Classify(l) = "3d"
         /\ now = When(l, SecondAfter) => "7d" \in marks[l] \/ Classify(l) = "7d"
         /\ now >= LastDay(l) => "final" \in marks[l] \/ Classify(l) = "final"
  <1> DEFINE f == When(l, FirstAfter)  s == When(l, SecondAfter)  e == expires[l]
  <1>1. /\ e \in Nat /\ now \in Nat /\ f \in Nat /\ s \in Nat /\ f < s
        /\ f < e => Day(f) < Day(e)
        /\ s < e => Day(s) < Day(e)
        /\ Day(e) \in Nat /\ Day(f) \in Nat /\ Day(s) \in Nat
        /\ IsFinalDay(l) <=> now >= LastDay(l)
    BY Times
  <1>2. /\ After(l, FirstAfter) <=> now >= f
        /\ After(l, SecondAfter) <=> now >= s
        /\ IsFinalDay(l) <=> Day(e) = Day(now)
    BY DEF After, When, IsFinalDay
  <1> HIDE DEF f, s, e
  <1>3. e > now
    BY DEF e
  <1>4. CASE now = f
    <2>1. ~IsFinalDay(l) /\ ~After(l, SecondAfter) /\ After(l, FirstAfter)
      BY <1>1, <1>2, <1>3, <1>4
    <2> QED
      BY <1>1, <1>4, <2>1 DEF Classify, IsDue, f, s
  <1>5. CASE now = s
    <2>1. ~IsFinalDay(l) /\ After(l, SecondAfter)
      BY <1>1, <1>2, <1>3, <1>5
    <2> QED
      BY <1>1, <1>5, <2>1 DEF Classify, IsDue, f, s
  <1>6. now >= LastDay(l) => "final" \in marks[l] \/ Classify(l) = "final"
    BY <1>1 DEF Classify, IsDue
  <1> QED
    BY <1>4, <1>5, <1>6 DEF f, s

(* A new link has nothing due before tomorrow.                              *)
LEMMA NewLink ==
  ASSUME Types, NEW l \in Links, NEW ttl \in Ttls[l], Issue(l, ttl)
  PROVE  DoneOK(l)'
  <1>1. now \in Nat /\ ttl \in Nat \ {0} /\ now' = now
        /\ issued'[l] = now /\ expires'[l] = now + ttl * Parts
    BY BoundsType DEF Types, TypeOK, Issue
  <1>2. ASSUME NEW n \in Nat \ {0}
        PROVE  now + n * Parts \in Nat /\ now < now + n * Parts
    <2>1. \A m, p \in Nat \ {0} : m * p \in Nat /\ m * p > 0
      OBVIOUS
    <2> QED
      BY <1>1, <2>1, PartsType
  <1>3. now < Day(now + ttl * Parts) * Parts
    <2>1. Day(now + ttl * Parts) = Day(now) + ttl /\ Day(now) \in Nat
          /\ now < Day(now) * Parts + Parts
      BY <1>1, DayShift, DayBounds
    <2>2. \A d \in Nat, m, p \in Nat \ {0} : d * p + p <= (d + m) * p
      <3> TAKE d \in Nat, m \in Nat \ {0}, p \in Nat \ {0}
      <3>1. (d + m) * p = d * p + m * p /\ m * p >= p
        OBVIOUS
      <3>2. d * p \in Nat /\ m * p \in Nat
        OBVIOUS
      <3> QED
        BY <3>1, <3>2
    <2>3. \A d, m, p \in Nat : d * p \in Nat /\ (d + m) * p \in Nat
      OBVIOUS
    <2> HIDE DEF Day
    <2>4. Day(now) * Parts + Parts <= (Day(now) + ttl) * Parts
          /\ Day(now) * Parts \in Nat /\ (Day(now) + ttl) * Parts \in Nat
      BY <1>1, <2>1, <2>2, <2>3, PartsType
    <2> QED
      BY <1>1, <2>1, <2>4, PartsType
  <1>4. When(l, FirstAfter)' > now /\ When(l, SecondAfter)' > now
    <2>1. When(l, FirstAfter)' = now + FirstAfter * Parts
          /\ When(l, SecondAfter)' = now + SecondAfter * Parts
      BY <1>1 DEF When
    <2> QED
      BY <1>2, <2>1, PartsType
  <1>5. LastDay(l)' > now
    BY <1>1, <1>3 DEF LastDay, Day
  <1>6. When(l, FirstAfter)' \in Int /\ When(l, SecondAfter)' \in Int /\ LastDay(l)' \in Int
    <2>1. expires'[l] \in Nat /\ issued'[l] \in Nat
      BY <1>1, <1>2
    <2>2. \A p, m \in Nat : m * p \in Nat
      OBVIOUS
    <2>3. Day(expires'[l]) \in Nat
      BY <2>1, DayBounds
    <2> QED
      BY <2>1, <2>2, <2>3, PartsType DEF When, LastDay, Day
  <1> QED
    BY <1>1, <1>4, <1>5, <1>6 DEF DoneOK, CaughtUp, Done

(* Every step preserves that what was due is marked.                        *)
LEMMA DoneStep ==
  ASSUME Types, LinkInv, DoneInv, [Next]_vars
  PROVE  DoneInv'
  <1>0. /\ now \in Nat /\ status \in [Links -> OpenStates \cup {"none", "submitted"}]
        /\ issued \in [Links -> Nat] /\ expires \in [Links -> Nat]
        /\ active \subseteq Links /\ pass \in Pass /\ marks \in [Links -> SUBSET Kinds]
    BY PartsType, BoundsType DEF Types, TypeOK
  <1>a. \A l \in Links : DoneOK(l)
    BY DEF DoneInv, DoneOK
  <1>b. SUFFICES ASSUME NEW o \in Links
                 PROVE  DoneOK(o)'
    BY DEF DoneInv, DoneOK
  <1>c. DoneOK(o) /\ LinkOK(o)
    BY <1>a DEF LinkInv
  <1> USE DEF Watched, InUse, Listed, LookedAt, SameTimes
  <1>1. CASE UNCHANGED vars
    BY <1>c, <1>1, DoneStays DEF vars, link, history, Marked
  <1>2. CASE Tick
    <2>1. SameTimes(o) /\ now' = now + 1 /\ UNCHANGED <<status, marks>> /\ ~pass.running
          /\ starting = {} /\ starting' = {}
          /\ pass' = Idle /\ gap' = gap \cup {l \in Links : Listed(l) /\ l \notin pass.seen}
      BY <1>2 DEF Tick, link
    <2>2. ~LookedAt(o)' /\ (Watched(o)' => status[o] \in OpenStates)
      BY <2>1 DEF Idle
    <2>3. ASSUME o \notin gap', status[o] \in OpenStates
          PROVE  CaughtUp(o)'
      <3>1. CaughtUp(o)
        BY <1>c, <2>1, <2>3 DEF DoneOK
      <3>2. now < expires[o] => Done(o)
        BY <1>c, <2>1, <2>3 DEF DoneOK, LinkInv
      <3>3. pass.marked = {}
        BY <2>1 DEF LinkInv
      <3>4. status[o] # "none"
        BY <2>3 DEF OpenStates
      <3>5. /\ expires[o] \in Nat /\ When(o, FirstAfter) \in Nat
            /\ When(o, SecondAfter) \in Nat /\ LastDay(o) \in Nat
        BY <1>c, <3>4, Times
      <3>6. /\ now = When(o, FirstAfter) /\ When(o, FirstAfter) < expires[o] => "3d" \in marks[o]
            /\ now = When(o, SecondAfter) /\ When(o, SecondAfter) < expires[o] => "7d" \in marks[o]
            /\ now >= LastDay(o) /\ LastDay(o) < expires[o] => "final" \in marks[o]
        <4>1. now < expires[o] => (now >= LastDay(o) => "final" \in marks[o])
          BY <3>2, <3>3 DEF Done, Marked
        <4>2. ~(now < expires[o]) /\ LastDay(o) < expires[o] => "final" \in marks[o]
          BY <1>0, <3>1, <3>5 DEF CaughtUp
        <4> QED
          BY <3>2, <3>3, <4>1, <4>2 DEF Done, Marked
      <3>7. /\ now + 1 > When(o, FirstAfter) /\ When(o, FirstAfter) < expires[o] => "3d" \in marks[o]
            /\ now + 1 > When(o, SecondAfter) /\ When(o, SecondAfter) < expires[o] => "7d" \in marks[o]
            /\ now + 1 > LastDay(o) /\ LastDay(o) < expires[o] => "final" \in marks[o]
        BY <1>0, <3>1, <3>5, <3>6 DEF CaughtUp
      <3> QED
        BY <2>1, <3>7, TimesStay DEF CaughtUp
    <2> QED
      BY <2>2, <2>3 DEF DoneOK
  <1>3. CASE List
    <2>1. /\ UNCHANGED <<now, status, issued, expires, starting, marks, gap>> /\ ~pass.running
          /\ pass'.todo = {l \in Links : Listed(l)} /\ pass'.marked = {}
          /\ pass'.seen = {l \in Links : status[l] # "submitted"}
      BY <1>3 DEF List, link, history
    <2>2. ~(InUse(o)' /\ expires'[o] > now' /\ LookedAt(o)')
      BY <1>0, <1>c, <2>1 DEF LinkOK, OpenStates
    <2>3. Watched(o)' => Watched(o)
      BY <2>1
    <2> QED
      BY <1>c, <2>1, <2>2, <2>3, DoneStays
  <1>4. CASE Commit
    <2>1. /\ pass.running /\ pass.todo = {} /\ ~pass'.running /\ pass'.todo = {}
          /\ UNCHANGED <<now, status, issued, expires, starting, gap>> /\ pass'.seen = pass.seen
      BY <1>4 DEF Commit, link, history, Idle
    <2>2. marks'[o] = marks[o] \cup {k \in Kinds : <<o, k>> \in pass.marked}
      BY <1>4 DEF Commit
    <2>3. \A k \in Kinds : Marked(o, k) => Marked(o, k)'
      BY <2>2 DEF Marked
    <2> QED
      BY <1>c, <2>1, <2>2, <2>3, DoneStays
  <1>5. CASE Die
    BY <1>c, <1>5, DoneStays DEF Die, link, history, Idle
  <1>6. ASSUME NEW l \in Links, NEW ttl \in Ttls[l], Issue(l, ttl)
        PROVE  DoneOK(o)'
    <2>1. CASE o = l
      BY <1>6, <2>1, NewLink
    <2>2. CASE o # l
      BY <1>0, <1>c, <1>6, <2>2, DoneStays DEF Issue, history, Marked
    <2> QED
      BY <2>1, <2>2
  <1>7. ASSUME NEW l \in Links, Works(l)
        PROVE  DoneOK(o)'
    <2>1. UNCHANGED <<now, issued, expires, marks, pass, gap>>
          /\ (InUse(o)' => InUse(o))
      BY <1>0, <1>7 DEF Works, LoadStart, WriteStart, Submit, history, OpenStates
    <2> QED
      BY <1>c, <2>1, DoneStays DEF Marked
  <1>8. ASSUME NEW l \in Links, SetActive(l)
        PROVE  DoneOK(o)'
    BY <1>c, <1>8, DoneStays DEF SetActive, link, Marked
  <1>9. ASSUME NEW l \in Links, l \in pass.todo, pass.running, pass'.running,
               pass'.todo = pass.todo \ {l}, pass'.seen = pass.seen, UNCHANGED <<now, link, marks, gap>>,
               pass.marked \subseteq pass'.marked,
               o = l => \/ Classify(l) = "none" \/ l \notin active
                        \/ <<l, Classify(l)>> \in pass'.marked
        PROVE  DoneOK(o)'
    <2>1. UNCHANGED <<status, issued, expires, starting>>
      BY <1>9 DEF link
    <2>2. CASE o # l
      BY <1>c, <1>9, <2>1, <2>2, DoneStays DEF Marked
    <2>3. CASE o = l
      <3>1. SUFFICES ASSUME o \notin gap
                     PROVE  DoneOK(o)'
        BY <1>9 DEF DoneOK
      <3>2. status[o] # "none" /\ expires[o] > now /\ o \in active
        BY <1>c, <1>9, <2>3, <3>1 DEF LinkOK
      <3>3. /\ now = When(o, FirstAfter) => Marked(o, "3d")'
            /\ now = When(o, SecondAfter) => Marked(o, "7d")'
            /\ now >= LastDay(o) => Marked(o, "final")'
        BY <1>c, <1>9, <2>3, <3>2, LookIsDone DEF Marked
      <3>4. Done(o)'
        BY <1>9, <2>1, <3>3, TimesStay DEF Done
      <3>5. CaughtUp(o) => CaughtUp(o)'
        BY <1>9, <2>1, TimesStay DEF CaughtUp
      <3>6. Watched(o)
        BY <1>9, <2>3
      <3> QED
        BY <1>c, <3>1, <3>4, <3>5, <3>6 DEF DoneOK
    <2> QED
      BY <2>2, <2>3
  <1>10. ASSUME NEW l \in Links, Skip(l)
         PROVE  DoneOK(o)'
    <2>1. pass'.running /\ pass'.todo = pass.todo \ {l} /\ pass'.marked = pass.marked
          /\ pass'.seen = pass.seen
      BY <1>0, <1>10 DEF Skip, Pass
    <2> QED
      BY <1>9, <1>10, <2>1 DEF Skip, history
  <1>11. ASSUME NEW l \in Links, NEW up \in SUBSET Lanes, Remind(l, up)
         PROVE  DoneOK(o)'
    <2>1. pass'.running /\ pass'.todo = pass.todo \ {l} /\ pass'.seen = pass.seen
          /\ pass'.marked = pass.marked \cup {<<l, Classify(l)>>}
      BY <1>0, <1>11 DEF Remind, Pass
    <2> QED
      BY <1>9, <1>11, <2>1 DEF Remind
  <1> QED
    BY <1>1, <1>2, <1>3, <1>4, <1>5, <1>6, <1>7, <1>8, <1>10, <1>11, NextCases DEF Acts

(* Every step preserves that a kind is sent in the part of a day it becomes *)
(* due.                                                                     *)
LEMMA ToldStep ==
  ASSUME Types, LinkInv, DoneInv, ToldInv, [Next]_vars
  PROVE  ToldInv'
  <1>0. /\ now \in Nat /\ status \in [Links -> OpenStates \cup {"none", "submitted"}]
        /\ issued \in [Links -> Nat] /\ expires \in [Links -> Nat] /\ pass \in Pass
        /\ told \in [Links -> SUBSET (Kinds \X Nat)]
    BY PartsType, BoundsType DEF Types, TypeOK
  <1>1. ASSUME NEW o \in Links, gap \subseteq gap', told'[o] = told[o], SameTimes(o),
               status[o] # "none" => status'[o] # "none",
               NEW x \in told'[o], o \notin gap'
        PROVE  ToldOK(o, x)'
    <2>1. ToldOK(o, x)
      BY <1>1 DEF ToldInv
    <2>2. ToldOK(o, x)' <=>
            /\ status'[o] # "none" /\ x[2] = DayOf(o, x[1])'
            /\ x[1] = "3d" => When(o, FirstAfter)' < expires'[o]
            /\ x[1] = "7d" => When(o, SecondAfter)' < expires'[o]
      BY DEF ToldOK
    <2>3. DayOf(o, x[1])' = DayOf(o, x[1])
      BY <1>1, TimesStay DEF DayOf, When, SameTimes
    <2> QED
      BY <1>1, <2>1, <2>2, <2>3, TimesStay DEF ToldOK, SameTimes
  <1>2. ASSUME UNCHANGED <<issued, expires, status, told>>, gap \subseteq gap'
        PROVE  ToldInv'
    BY <1>1, <1>2 DEF ToldInv, SameTimes
  <1>3. CASE UNCHANGED vars \/ Tick \/ List \/ Commit \/ Die
    BY <1>2, <1>3 DEF vars, Tick, List, Commit, Die, link, history
  <1>4. ASSUME NEW l \in Links, NEW ttl \in Ttls[l], Issue(l, ttl)
        PROVE  ToldInv'
    <2>1. gap' = gap /\ told' = told
      BY <1>4 DEF Issue, history
    <2>2. l \notin gap => told[l] = {}
      BY <1>4 DEF Issue, ToldInv, ToldOK
    <2>3. \A o \in Links \ {l} : SameTimes(o) /\ status'[o] = status[o]
      BY <1>0, <1>4 DEF Issue, SameTimes
    <2> QED
      BY <1>1, <2>1, <2>2, <2>3 DEF ToldInv
  <1>5. ASSUME NEW l \in Links, Works(l)
        PROVE  ToldInv'
    <2>1. UNCHANGED <<issued, expires, told, gap>>
          /\ \A o \in Links : status[o] # "none" => status'[o] # "none"
      BY <1>0, <1>5 DEF Works, LoadStart, WriteStart, Submit, Listed, history, OpenStates
    <2> QED
      BY <1>1, <2>1 DEF ToldInv, SameTimes
  <1>6. ASSUME NEW l \in Links, SetActive(l) \/ Skip(l)
        PROVE  ToldInv'
    BY <1>2, <1>6 DEF SetActive, Skip, link, history
  <1>7. ASSUME NEW l \in Links, NEW up \in SUBSET Lanes, Remind(l, up)
        PROVE  ToldInv'
    <2>1. PICK kind \in Kinds : kind = Classify(l) /\ IsDue(l, kind)
      BY <1>7, KindsOfClassify DEF Remind
    <2>2. UNCHANGED <<now, status, issued, expires, gap, marks>> /\ l \in pass.todo
      BY <1>7 DEF Remind, link
    <2>3. told' = [told EXCEPT ![l] = IF up = {} THEN @ ELSE @ \cup {<<kind, Day(now)>>}]
      BY <1>7, <2>1 DEF Remind
    <2>4. \A o \in Links : SameTimes(o)
      BY <2>2 DEF SameTimes
    <2>5. ASSUME l \notin gap
          PROVE  ToldOK(l, <<kind, Day(now)>>)
      <3>1. LinkOK(l) /\ status[l] # "none" /\ expires[l] > now /\ CaughtUp(l)
        BY <2>2, <2>5 DEF LinkInv, LinkOK, DoneInv, Watched
      <3>2. /\ expires[l] \in Nat /\ When(l, FirstAfter) \in Nat
            /\ When(l, SecondAfter) \in Nat
        BY <3>1, Times
      <3>3. /\ After(l, FirstAfter) <=> now >= When(l, FirstAfter)
            /\ After(l, SecondAfter) <=> now >= When(l, SecondAfter)
        BY DEF After, When
      <3>4. CASE kind = "3d"
        <4>1. now >= When(l, FirstAfter) /\ "3d" \notin marks[l]
          BY <2>1, <3>3, <3>4 DEF IsDue
        <4>2. now = When(l, FirstAfter)
          BY <1>0, <3>1, <3>2, <4>1 DEF CaughtUp
        <4> QED
          BY <1>0, <3>1, <3>2, <3>4, <4>2 DEF ToldOK, DayOf
      <3>5. CASE kind = "7d"
        <4>1. now >= When(l, SecondAfter) /\ "7d" \notin marks[l]
          BY <2>1, <3>3, <3>5 DEF IsDue
        <4>2. now = When(l, SecondAfter)
          BY <1>0, <3>1, <3>2, <4>1 DEF CaughtUp
        <4> QED
          BY <1>0, <3>1, <3>2, <3>5, <4>2 DEF ToldOK, DayOf
      <3>6. CASE kind = "final"
        BY <2>1, <3>1, <3>6 DEF ToldOK, DayOf, IsDue, IsFinalDay
      <3> QED
        BY <3>4, <3>5, <3>6 DEF Kinds
    <2>6. ASSUME NEW o \in Links, NEW x, x \in told[o], o \notin gap
          PROVE  ToldOK(o, x)
      BY <2>6 DEF ToldInv
    <2>7. ASSUME NEW o \in Links, NEW x, ToldOK(o, x)
          PROVE  ToldOK(o, x)'
      <3>1. DayOf(o, x[1])' = DayOf(o, x[1])
        BY <2>4, TimesStay DEF DayOf, When, SameTimes
      <3>2. ToldOK(o, x)' <=>
              /\ status'[o] # "none" /\ x[2] = DayOf(o, x[1])'
              /\ x[1] = "3d" => When(o, FirstAfter)' < expires'[o]
              /\ x[1] = "7d" => When(o, SecondAfter)' < expires'[o]
        BY DEF ToldOK
      <3> QED
        BY <2>2, <2>4, <2>7, <3>1, <3>2, TimesStay DEF ToldOK
    <2>8. ASSUME NEW o \in Links, o \notin gap', NEW x \in told'[o]
          PROVE  ToldOK(o, x)'
      <3> DEFINE day == Day(now)
      <3>1. x \in told[o] \/ (o = l /\ x = <<kind, day>>)
        <4> HIDE DEF day
        <4>1. told' = [told EXCEPT ![l] = IF up = {} THEN @ ELSE @ \cup {<<kind, day>>}]
          BY <2>3 DEF day
        <4> QED
          BY <1>0, <2>8, <4>1
      <3>2. ToldOK(o, x)
        BY <2>2, <2>5, <2>6, <2>8, <3>1
      <3> QED
        BY <2>7, <3>2
    <2> QED
      BY <2>8 DEF ToldInv
  <1> QED
    BY <1>3, <1>4, <1>5, <1>6, <1>7, NextCases DEF Acts

(* Every step preserves that without an outage a mark is a message.         *)
LEMMA NoticeStep ==
  ASSUME Types, Types', LinkInv, NoticeInv, [Next]_vars
  PROVE  NoticeInv'
  <1>0. /\ now \in Nat /\ outages \in Nat /\ outages' \in Nat /\ pass \in Pass
        /\ told \in [Links -> SUBSET (Kinds \X Nat)] /\ marks \in [Links -> SUBSET Kinds]
    <2>1. now \in 0..Horizon /\ outages \in 0..MaxOutages /\ outages' \in 0..MaxOutages
      BY DEF Types, TypeOK
    <2> QED
      BY <2>1, BoundsType DEF Types, TypeOK
  <1>1. ASSUME UNCHANGED <<outages, told>>, Day(now) <= Day(now'), Day(now') \in Nat,
               \A l \in Links, k \in Kinds : Marked(l, k)' => Marked(l, k)
        PROVE  NoticeInv'
    <2>1. Day(now) \in Nat
      BY <1>0, DayBounds
    <2>2. 0..Day(now) \subseteq 0..Day(now')
      BY <1>1, <2>1
    <2>3. Day(now') = Day(now)'
      BY DEF Day
    <2> QED
      BY <1>1, <2>2, <2>3 DEF NoticeInv
  <1>2. Day(now) \in Nat
    BY <1>0, DayBounds
  <1>3. CASE Tick
    <2>1. now' = now + 1 /\ UNCHANGED <<outages, told, marks>> /\ pass' = Idle
      BY <1>3 DEF Tick
    <2>2. \A l \in Links, k \in Kinds : Marked(l, k)' => Marked(l, k)
      BY <2>1 DEF Marked, Idle
    <2>3. Day(now) <= Day(now') /\ Day(now') \in Nat
      BY <1>0, <2>1, DaysGrow, DayBounds
    <2> QED
      BY <1>1, <2>1, <2>2, <2>3
  <1>4. CASE UNCHANGED vars \/ List \/ Commit \/ Die
    <2>1. now' = now /\ UNCHANGED <<outages, told>>
      BY <1>4 DEF vars, List, Commit, Die, history
    <2>2. \A l \in Links, k \in Kinds : Marked(l, k)' => Marked(l, k)
      BY <1>0, <1>4 DEF Marked, vars, List, Commit, Die, Idle
    <2> QED
      BY <1>1, <1>2, <2>1, <2>2
  <1>5. ASSUME NEW l \in Links,
               (\E ttl \in Ttls[l] : Issue(l, ttl)) \/ SetActive(l) \/ Skip(l)
               \/ Works(l)
        PROVE  NoticeInv'
    <2>1. UNCHANGED <<now, outages, told, marks>> /\ pass'.marked = pass.marked
      BY <1>0, <1>5 DEF Issue, SetActive, Skip, Works, LoadStart, WriteStart, Submit, history, Pass
    <2> QED
      BY <1>1, <1>2, <2>1 DEF Marked
  <1>6. ASSUME NEW l \in Links, NEW up \in SUBSET Lanes, Remind(l, up)
        PROVE  NoticeInv'
    <2>1. PICK kind \in Kinds : kind = Classify(l)
      BY <1>6, KindsOfClassify DEF Remind
    <2>2. PICK day : day = Day(now)
      OBVIOUS
    <2>3. now' = now /\ marks' = marks /\ pass'.marked = pass.marked \cup {<<l, kind>>}
          /\ told' = [told EXCEPT ![l] = IF up = {} THEN @ ELSE @ \cup {<<kind, day>>}]
      BY <1>0, <1>6, <2>1, <2>2 DEF Remind, Pass
    <2>4. SUFFICES ASSUME outages' = 0, NEW o \in Links, NEW k \in Kinds, Marked(o, k)'
                   PROVE  \E d \in 0..day : <<k, d>> \in told'[o]
      <3>1. Day(now)' = day
        BY <2>2, <2>3 DEF Day
      <3> QED
        BY <3>1 DEF NoticeInv
    <2>5. outages = 0 /\ up # {}
      BY <1>6, <2>4, CountedType
    <2>6. Marked(o, k) \/ (o = l /\ k = kind)
      BY <2>3, <2>4 DEF Marked
    <2>7. CASE Marked(o, k)
      <3>1. PICK d \in 0..day : <<k, d>> \in told[o]
        BY <2>2, <2>5, <2>7 DEF NoticeInv
      <3>2. told[o] \subseteq told'[o]
        BY <1>0, <2>3
      <3> QED
        BY <3>1, <3>2
    <2>8. CASE o = l /\ k = kind
      <3>1. <<k, day>> \in told'[o]
        BY <1>0, <2>3, <2>5, <2>8
      <3> QED
        BY <1>2, <2>2, <3>1
    <2> QED
      BY <2>6, <2>7, <2>8
  <1> QED
    BY <1>3, <1>4, <1>5, <1>6, NextCases DEF Acts

(* No link, no message.                                                     *)
LEMMA InitInv == Init => IInv
  <1> SUFFICES ASSUME Init PROVE IInv
    OBVIOUS
  <1>1. Types
    <2>1. 0 \in 0..Horizon /\ 0 \in 0..MaxDeaths /\ 0 \in 0..MaxOutages
      BY BoundsType
    <2> QED
      BY <2>1 DEF Init, Types, TypeOK, Pass, Idle, OpenStates
  <1>2. LinkInv
    BY DEF Init, LinkInv, LinkOK, Idle
  <1>3. SentInv
    <2>1. deaths = 0
      BY DEF Init
    <2>2. ASSUME NEW l \in Links, NEW k \in Kinds, NEW lane \in Lanes
          PROVE  sent[l][<<k, lane>>] = 0
      <3>1. sent[l] = [x \in Kinds \X Lanes |-> 0] /\ <<k, lane>> \in Kinds \X Lanes
        BY DEF Init
      <3> QED
        BY <3>1
    <2>3. ASSUME NEW l \in Links, NEW k \in Kinds, NEW lane \in Lanes
          PROVE  sent[l][<<k, lane>>] <= 1 + deaths /\ sent[l][<<k, lane>>] <= deaths
      <3>1. sent[l][<<k, lane>>] = 0
        BY <2>2
      <3> QED
        BY <2>1, <3>1
    <2> QED
      BY <2>3 DEF SentInv
  <1>4. DoneInv
    <2>1. \A l \in Links : ~Watched(l) /\ ~Listed(l)
      BY DEF Init, Watched, InUse, Listed, OpenStates, Idle
    <2> QED
      BY <2>1 DEF DoneInv, Watched
  <1>5. ToldInv
    BY DEF Init, ToldInv
  <1>6. NoticeInv
    <2>1. \A l \in Links, k \in Kinds : ~Marked(l, k)
      BY DEF Init, Marked, Idle
    <2> QED
      BY <2>1 DEF NoticeInv
  <1> QED
    BY <1>1, <1>2, <1>3, <1>4, <1>5, <1>6 DEF IInv

(* The invariant holds in every reachable state.                            *)
LEMMA Invariance == Spec => []IInv
  <1>1. IInv /\ [Next]_vars => IInv'
    BY TypesStep, LinkStep, SentStep, DoneStep, ToldStep, NoticeStep DEF IInv
  <1> QED
    BY InitInv, <1>1, PTL DEF Spec

(* Links, marks and passes keep their types whatever the passes, trainees   *)
(* and outages do.                                                          *)
THEOREM TypeCorrect == Spec => []TypeOK
  <1>1. IInv => TypeOK
    BY DEF IInv, Types
  <1> QED
    BY <1>1, Invariance, PTL

(* send_pending_reminders() queues a reminder of a kind once on each        *)
(* channel of a link, and repeats it only after a pass that died with what  *)
(* it had queued and not yet marked.                                        *)
THEOREM RemindersGoOutOnce == Spec => []RemindedOnce
  <1>1. IInv => RemindedOnce
    BY DEF IInv, SentInv, RemindedOnce
  <1> QED
    BY <1>1, Invariance, PTL

(* _classify_reminder() names at most one reminder a day for a trainee,     *)
(* when no part of a day went by without a look at the link and no pass     *)
(* died: each kind is then sent in the very part of a day it becomes due,   *)
(* and the 3-day, the 7-day and the last reminder become due on different   *)
(* days.                                                                    *)
THEOREM OneReminderOnADay == Spec => []OneReminderADay
  <1>1. ASSUME IInv, NEW l \in Links \ gap, NEW x \in told[l], NEW y \in told[l], x[2] = y[2]
        PROVE  x = y
    <2>1. ToldOK(l, x) /\ ToldOK(l, y)
      BY <1>1 DEF IInv, ToldInv
    <2>2. x \in Kinds \X Nat /\ y \in Kinds \X Nat
      BY <1>1 DEF IInv, Types
    <2>3. LinkOK(l) /\ Types /\ l \in Links
      BY <1>1 DEF IInv, LinkInv
    <2>4. /\ Day(When(l, FirstAfter)) < Day(When(l, SecondAfter))
          /\ When(l, FirstAfter) < expires[l] => Day(When(l, FirstAfter)) < Day(expires[l])
          /\ When(l, SecondAfter) < expires[l] => Day(When(l, SecondAfter)) < Day(expires[l])
          /\ Day(expires[l]) \in Nat /\ Day(When(l, FirstAfter)) \in Nat
          /\ Day(When(l, SecondAfter)) \in Nat
      BY <2>1, <2>3, Times DEF ToldOK
    <2>5. x[1] = y[1]
      <3>1. x[1] \in Kinds /\ y[1] \in Kinds /\ DayOf(l, x[1]) = DayOf(l, y[1])
        BY <1>1, <2>1, <2>2 DEF ToldOK
      <3>2. /\ "3d" \in {x[1], y[1]} => When(l, FirstAfter) < expires[l]
            /\ "7d" \in {x[1], y[1]} => When(l, SecondAfter) < expires[l]
        BY <2>1 DEF ToldOK
      <3>3. /\ DayOf(l, "3d") = Day(When(l, FirstAfter))
            /\ DayOf(l, "7d") = Day(When(l, SecondAfter))
            /\ DayOf(l, "final") = Day(expires[l])
        BY DEF DayOf
      <3>4. ASSUME NEW a \in Kinds, NEW b \in Kinds, DayOf(l, a) = DayOf(l, b),
                   "3d" \in {a, b} => When(l, FirstAfter) < expires[l],
                   "7d" \in {a, b} => When(l, SecondAfter) < expires[l]
            PROVE  a = b
        BY <2>4, <3>3, <3>4 DEF Kinds
      <3> QED
        BY <3>1, <3>2, <3>4
    <2> QED
      BY <1>1, <2>2, <2>5
  <1>2. IInv => OneReminderADay
    BY <1>1 DEF OneReminderADay
  <1> QED
    BY <1>2, Invariance, PTL

(* A link that had a pass in every part of a day, and none that lost sight  *)
(* of it, does not expire before send_pending_reminders() marked the last   *)
(* reminder, and queued it if no queue was ever down (unless it expires at  *)
(* midnight, when its last day never comes).                                *)
THEOREM LastCallIsMade == Spec => []LastCall
  <1>1. ASSUME IInv, NEW l \in Links \ gap, status[l] \in OpenStates, expires[l] <= now,
               expires[l] % Parts # 0
        PROVE  /\ "final" \in marks[l]
               /\ outages = 0 => \E day \in 0..Day(now) : <<"final", day>> \in told[l]
    <2>1. expires[l] \in Nat /\ now \in Nat
      BY <1>1, BoundsType DEF IInv, Types, TypeOK
    <2>2. LastDay(l) \in Nat /\ LastDay(l) < expires[l]
      <3>1. \A t \in Nat, p \in Nat \ {0} :
              (t \div p) * p \in Nat /\ (t % p # 0 => (t \div p) * p < t)
        OBVIOUS
      <3> QED
        BY <1>1, <2>1, <3>1, PartsType DEF LastDay, Day
    <2>3. CaughtUp(l)
      BY <1>1 DEF IInv, DoneInv, Watched, InUse
    <2>4. "final" \in marks[l]
      BY <1>1, <2>1, <2>2, <2>3 DEF CaughtUp
    <2> QED
      BY <1>1, <2>4 DEF IInv, NoticeInv, Marked, Kinds
  <1>2. IInv => LastCall
    BY <1>1 DEF LastCall
  <1> QED
    BY <1>2, Invariance, PTL

-----------------------------------------------------------------------------
\* The jobs that messages become.

\* The runs a job may still have without anybody's help: its retries, and the
\* one that is due when it is in a queue (or parked on its way back to it).
RunsLeft(j) == retriesLeft[j] + (IF state[j] \in {"queued", "scheduled"} THEN 1 ELSE 0)

\* What has been run and what is left to run stay within the policy and the
\* requeues: the part of WithinBudget that a step can be held to.
BudgetInv ==
    \A j \in Jobs :
        /\ state[j] = "new" => attempts[j] = 0
        /\ attempts[j] + RunsLeft(j) <= 1 + Retries + requeues[j]

\* A rejected job waits among the failed ones, or for the run it was requeued for.
RejectedInv == \A j \in Jobs : rejected[j] => state[j] \in {"queued", "failed", "gone"}

JobsInv == JobsTypeOK /\ BudgetInv /\ RejectedInv /\ NothingVanishes

-----------------------------------------------------------------------------

(* The number of retries is a natural number.                               *)
LEMMA RetriesType == Retries \in Nat
  BY JobsAssumption DEF Retries

LEMMA InitJobs == JobsInit => JobsInv
  BY RetriesType, JobsAssumption
  DEF JobsInit, JobsInv, JobsTypeOK, BudgetInv, RejectedInv, NothingVanishes, RunsLeft, States,
      AtDesk, NoRequest

(* What a failed run leaves of the job's state and retries.                 *)
LEMMA FailedRun ==
  ASSUME JobsTypeOK, NEW j \in Jobs, NEW left \in {0, retriesLeft[j]}, Failed(j, left)
  PROVE  /\ state[j] = "started"
         /\ \E to \in {"failed", "queued", "scheduled"} :
              /\ state' = [state EXCEPT ![j] = to]
              /\ to # "failed" => left > 0
              /\ to = "failed" => left = 0
         /\ \E n \in 0..Retries :
              /\ retriesLeft' = [retriesLeft EXCEPT ![j] = n]
              /\ left = 0 => n = 0
              /\ left > 0 => n = left - 1 /\ n = retriesLeft[j] - 1
  <1>1. left \in 0..Retries /\ Retries \in Nat
    BY RetriesType DEF JobsTypeOK
  <1>2. /\ state[j] = "started"
        /\ \E to \in {"failed", "queued", "scheduled"} :
             /\ state' = [state EXCEPT ![j] = to]
             /\ to # "failed" => left > 0
             /\ to = "failed" => left = 0
    <2>1. CASE left = 0
      BY <2>1 DEF Failed, Move
    <2>2. CASE left # 0 /\ Delay(j) = 0
      BY <1>1, <2>2 DEF Failed, Move
    <2>3. CASE left # 0 /\ Delay(j) # 0
      BY <1>1, <2>3 DEF Failed, Move
    <2> QED
      BY <2>1, <2>2, <2>3
  <1>3. \E n \in 0..Retries :
          /\ retriesLeft' = [retriesLeft EXCEPT ![j] = n]
          /\ left = 0 => n = 0
          /\ left > 0 => n = left - 1 /\ n = retriesLeft[j] - 1
    <2> DEFINE n == IF left = 0 THEN 0 ELSE left - 1
    <2>1. retriesLeft' = [retriesLeft EXCEPT ![j] = n]
      BY DEF Failed
    <2>2. n \in 0..Retries /\ (left = 0 => n = 0)
          /\ (left > 0 => n = left - 1 /\ n = retriesLeft[j] - 1)
      BY <1>1
    <2> HIDE DEF n
    <2> QED
      BY <2>1, <2>2
  <1> QED
    BY <1>2, <1>3

(* Every step of RQ, the worker and the administrators preserves the        *)
(* invariant; a requeue pays for the run it grants.                         *)
LEMMA JobsStep == JobsInv /\ [JobsNext]_jobVars => JobsInv'
  <1> SUFFICES ASSUME JobsInv, [JobsNext]_jobVars PROVE JobsInv'
    OBVIOUS
  <1> USE RetriesType, JobsAssumption
      DEF JobsInv, JobsTypeOK, BudgetInv, RejectedInv, NothingVanishes, RunsLeft, States
  <1>1. ASSUME NEW j \in Jobs, Enqueue(j)
        PROVE  JobsInv'
    BY <1>1 DEF Enqueue, Move, jobHistory
  <1>2. ASSUME NEW j \in Jobs, Work(j)
        PROVE  JobsInv'
    BY <1>2 DEF Work, Move
  <1>3. ASSUME NEW j \in Jobs, Succeed(j)
        PROVE  JobsInv'
    BY <1>3 DEF Succeed, Move
  <1>4. ASSUME NEW j \in Jobs, Fail(j)
        PROVE  JobsInv'
    <2>1. Failed(j, retriesLeft[j]) /\ UNCHANGED <<desk, attempts, rejected, requeues, removed>>
      BY <1>4 DEF Fail
    <2>2. /\ delivered' \in [Jobs -> BOOLEAN]
          /\ \A k \in Jobs : delivered[k] => delivered'[k]
      BY <1>4 DEF Fail
    <2>3. PICK to \in {"failed", "queued", "scheduled"}, n \in 0..Retries :
            /\ state[j] = "started" /\ state' = [state EXCEPT ![j] = to]
            /\ retriesLeft' = [retriesLeft EXCEPT ![j] = n]
            /\ to # "failed" => n = retriesLeft[j] - 1
            /\ to = "failed" => n = 0
      BY <2>1, FailedRun
    <2>4. JobsTypeOK'
      BY <2>1, <2>2, <2>3
    <2>5. BudgetInv'
      <3> SUFFICES ASSUME NEW k \in Jobs
                   PROVE  /\ state'[k] = "new" => attempts'[k] = 0
                          /\ attempts'[k] + RunsLeft(k)' <= 1 + Retries + requeues'[k]
        OBVIOUS
      <3>1. CASE k = j
        <4>1. state'[j] = to /\ retriesLeft'[j] = n /\ attempts' = attempts /\ requeues' = requeues
          BY <2>1, <2>3
        <4>2. attempts[j] + retriesLeft[j] <= 1 + Retries + requeues[j]
          <5>1. RunsLeft(j) = retriesLeft[j]
            BY <2>3
          <5>2. attempts[j] + RunsLeft(j) <= 1 + Retries + requeues[j]
            BY DEF BudgetInv
          <5> HIDE DEF RunsLeft
          <5> QED
            BY <5>1, <5>2
        <4>3. attempts[j] \in Nat /\ requeues[j] \in Nat /\ retriesLeft[j] \in Nat /\ n \in Nat
          OBVIOUS
        <4>4. CASE to = "failed"
          BY <2>3, <3>1, <4>1, <4>2, <4>3, <4>4
        <4>5. CASE to # "failed"
          BY <2>3, <3>1, <4>1, <4>2, <4>3, <4>5
        <4> QED
          BY <4>4, <4>5
      <3>2. CASE k # j
        BY <2>1, <2>3, <3>2
      <3> QED
        BY <3>1, <3>2
    <2>6. RejectedInv' /\ NothingVanishes'
      BY <2>1, <2>2, <2>3
    <2> QED
      BY <2>4, <2>5, <2>6
  <1>5. ASSUME NEW j \in Jobs, Reject(j)
        PROVE  JobsInv'
    <2>1. /\ Failed(j, 0) /\ UNCHANGED <<desk, attempts, delivered, requeues, removed>>
          /\ rejected' = [rejected EXCEPT ![j] = TRUE]
      BY <1>5 DEF Reject
    <2>2. /\ state[j] = "started" /\ state' = [state EXCEPT ![j] = "failed"]
          /\ retriesLeft' = [retriesLeft EXCEPT ![j] = 0]
      BY <2>1, FailedRun
    <2>3. JobsTypeOK'
      BY <2>1, <2>2
    <2>4. BudgetInv'
      BY <2>1, <2>2
    <2>5. RejectedInv' /\ NothingVanishes'
      BY <2>1, <2>2
    <2> QED
      BY <2>3, <2>4, <2>5
  <1>6. ASSUME NEW j \in Jobs, Forget(j)
        PROVE  JobsInv'
    BY <1>6 DEF Forget, Move
  <1>7. ASSUME NEW a \in Admins, NEW j \in Jobs, NEW what \in {"requeue", "discard"},
               Resolve(a, what, j)
        PROVE  JobsInv'
    <2>1. [pc |-> what, job |-> j] \in AtDesk
      BY DEF AtDesk
    <2> QED
      BY <1>7, <2>1 DEF Resolve, rq, jobHistory
  <1>8. \A a \in Admins : desk[a].pc \in {"requeue", "discard"} => desk[a].job \in Jobs
    BY DEF AtDesk
  <1>9. \A a \in Admins : Leave(a) => desk' \in [Admins -> AtDesk]
    BY DEF Leave, AtDesk, NoRequest
  <1>10. ASSUME NEW a \in Admins, requeue(a)
         PROVE  JobsInv'
    <2> DEFINE j == desk[a].job
    <2>1. /\ j \in Jobs /\ state[j] = "failed" /\ state' = [state EXCEPT ![j] = "queued"]
          /\ requeues[j] < MaxRequeues /\ requeues' = [requeues EXCEPT ![j] = @ + 1]
          /\ desk' \in [Admins -> AtDesk]
          /\ UNCHANGED <<retriesLeft, attempts, delivered, rejected, removed>>
      BY <1>8, <1>9, <1>10 DEF requeue, Move
    <2> HIDE DEF j
    <2>2. JobsTypeOK'
      BY <2>1
    <2>3. BudgetInv'
      BY <2>1
    <2>4. RejectedInv' /\ NothingVanishes'
      BY <2>1
    <2> QED
      BY <2>2, <2>3, <2>4
  <1>11. ASSUME NEW a \in Admins, TooLate(a)
         PROVE  JobsInv'
    BY <1>9, <1>11 DEF TooLate, rq, jobHistory
  <1>12. ASSUME NEW a \in Admins, discard(a)
         PROVE  JobsInv'
    BY <1>8, <1>9, <1>12 DEF discard, Move
  <1>13. ASSUME NEW a \in Admins, Abandon(a)
         PROVE  JobsInv'
    BY <1>9, <1>13 DEF Abandon, rq, jobHistory
  <1>14. CASE UNCHANGED jobVars
    BY <1>14 DEF jobVars, rq, jobHistory
  <1> QED
    BY <1>1, <1>2, <1>3, <1>4, <1>5, <1>6, <1>7, <1>10, <1>11, <1>12, <1>13, <1>14
    DEF JobsNext, WorkerStep

LEMMA JobsInvariance == JobsSpec => []JobsInv
  BY InitJobs, JobsStep, PTL DEF JobsSpec

(* Jobs, counters and open requests keep their types.                       *)
THEOREM JobTypesCorrect == JobsSpec => []JobsTypeOK
  BY JobsInvariance, PTL DEF JobsInv

(* However often jobs fail, whoever requeues them and however requests of   *)
(* administrators overlap, a job is run once, once more for each retry of   *)
(* the policy and once more for each requeue.                               *)
THEOREM AttemptsAreBounded == JobsSpec => []WithinBudget
  <1>1. JobsInv => WithinBudget
    BY RetriesType DEF JobsInv, JobsTypeOK, BudgetInv, RunsLeft, WithinBudget
  <1> QED
    BY JobsInvariance, <1>1, PTL

(* A job that was rejected for good is not queued again by itself: either   *)
(* an administrator requeues it, or it waits for the run it was requeued    *)
(* for, or it is failed or gone.                                            *)
THEOREM RejectionIsFinal == JobsSpec => RejectedIsFinal
  <1> DEFINE Final == \A j \in Jobs :
         rejected'[j] /\ state'[j] \notin {"failed", "gone"}
         => requeues'[j] > requeues[j] \/ (rejected[j] /\ state'[j] = state[j])
  <1>1. JobsInv /\ JobsInv' /\ [JobsNext]_jobVars => [Final]_jobVars
    <2> SUFFICES ASSUME JobsInv, JobsInv', JobsNext,
                        NEW k \in Jobs, rejected'[k], state'[k] \notin {"failed", "gone"}
                 PROVE  requeues'[k] > requeues[k] \/ (rejected[k] /\ state'[k] = state[k])
      OBVIOUS
    <2>1. state'[k] = "queued"
      BY DEF JobsInv, RejectedInv
    <2> USE DEF JobsInv, JobsTypeOK
    <2>2. ASSUME NEW j \in Jobs, Enqueue(j)
          PROVE  rejected[k] /\ state'[k] = state[k]
      BY <2>2, <2>1 DEF Enqueue, Move, jobHistory, RejectedInv
    <2>3. ASSUME NEW j \in Jobs, Work(j)
          PROVE  rejected[k] /\ state'[k] = state[k]
      BY <2>3, <2>1 DEF Work, Move
    <2>4. ASSUME NEW j \in Jobs, Succeed(j)
          PROVE  rejected[k] /\ state'[k] = state[k]
      BY <2>4, <2>1 DEF Succeed, Move
    <2>5. ASSUME NEW j \in Jobs, Fail(j)
          PROVE  rejected[k] /\ state'[k] = state[k]
      <3>1. /\ rejected' = rejected /\ state[j] = "started"
            /\ \A i \in Jobs \ {j} : state'[i] = state[i]
        BY <2>5 DEF Fail, Failed, Move
      <3> QED
        BY <3>1, <2>1 DEF RejectedInv
    <2>6. ASSUME NEW j \in Jobs, Reject(j)
          PROVE  rejected[k] /\ state'[k] = state[k]
      BY <2>6, <2>1 DEF Reject, Failed, Move
    <2>7. ASSUME NEW j \in Jobs, Forget(j)
          PROVE  rejected[k] /\ state'[k] = state[k]
      BY <2>7, <2>1 DEF Forget, Move
    <2>8. ASSUME NEW a \in Admins, requeue(a)
          PROVE  requeues'[k] > requeues[k] \/ (rejected[k] /\ state'[k] = state[k])
      <3> DEFINE j == desk[a].job
      <3>1. /\ rejected' = rejected
            /\ state' = [state EXCEPT ![j] = "queued"]
            /\ requeues' = [requeues EXCEPT ![j] = @ + 1]
        BY <2>8 DEF requeue, Move
      <3> HIDE DEF j
      <3> QED
        BY <3>1, JobsAssumption
    <2>9. ASSUME NEW a \in Admins, discard(a)
          PROVE  rejected[k] /\ state'[k] = state[k]
      BY <2>9, <2>1 DEF discard, Move
    <2>10. ASSUME NEW a \in Admins,
                  \/ \E j \in Jobs, what \in {"requeue", "discard"} : Resolve(a, what, j)
                  \/ TooLate(a) \/ Abandon(a)
           PROVE  rejected[k] /\ state'[k] = state[k]
      BY <2>10 DEF Resolve, TooLate, Abandon, rq, jobHistory
    <2> QED
      BY <2>2, <2>3, <2>4, <2>5, <2>6, <2>7, <2>8, <2>9, <2>10 DEF JobsNext, WorkerStep
  <1> QED
    BY JobsInvariance, <1>1, PTL DEF JobsSpec, RejectedIsFinal

(* An undelivered message is waiting, running or failed, or somebody        *)
(* discarded it or let it expire.                                           *)
THEOREM NothingIsLost == JobsSpec => []NothingVanishes
  BY JobsInvariance, PTL DEF JobsInv
=============================================================================
