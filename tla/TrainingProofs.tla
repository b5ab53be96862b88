-------------------------- MODULE TrainingProofs ---------------------------
(***************************************************************************)
(* Proofs about training: the issuing of links, for any workers, courses,  *)
(* assignments and administrators, and any number of transactions.         *)
(*                                                                         *)
(* DoubleNeedsOverlap looks at committed rows that are open now, while the *)
(* issuers looked earlier and at what they could see.  IInv carries their  *)
(* look forward: what a transaction saw of a worker it still has to serve  *)
(* was not open then, so it had expired or been submitted.  An expired     *)
(* link stays closed; a submitted one may be opened again by a late start  *)
(* request, but its attempt stays submitted.                               *)
(*                                                                         *)
(* Then of the register of trainees, for any managers, rows and files:     *)
(* RegistryInv says that what a request has planned is sound for the       *)
(* register it has seen, and still is when nobody has committed since.     *)
(***************************************************************************)
EXTENDS TrainingLinks, TrainingRegistry, FiniteSetTheorems, TLAPS

Txs == [pc : {"idle", "tick", "issue"}, course : Courses \cup {AnyValue},
        courses : SUBSET Courses, todo : SUBSET Trainees, seen : SUBSET Nat, mine : SUBSET Nat]

Types == TypeOK /\ tx \in [Issuers -> Txs]

\* Links an issuer saw before it issued another one have expired or been submitted.
Clear(seen) ==
  \A i \in seen : i \in Ids /\ (rows[i].expires <= now \/ rows[i].attempt # "none")

SeenInv == \A j \in Ids : Clear(rows[j].seen)

\* The status of a link follows its attempt, though not the other way round.
StatusInv == \A j \in Ids : rows[j].status = "submitted" => rows[j].attempt # "none"

\* Nor are those that a transaction saw of the workers it still has to serve.
PlanOK(x) ==
  x.pc = "issue" => \A t \in x.todo : Clear({i \in x.seen : i \in Ids => Cell(i) = <<t, x.course>>})

PlanInv == \A p \in Issuers : PlanOK(tx[p])

\* A transaction that has issued a link has a course with an active version.
VersionInv == \A p \in Issuers : tx[p].mine # {} => tx[p].course \in versioned

IInv == Types /\ SeenInv /\ StatusInv /\ PlanInv /\ VersionInv


-----------------------------------------------------------------------------

LEMMA AppendRow ==
  ASSUME NEW S, NEW seq \in Seq(S), NEW e \in S, NEW more, more = Append(seq, e)
  PROVE  /\ more \in Seq(S) /\ Len(more) = Len(seq) + 1 /\ more[Len(seq) + 1] = e
         /\ \A k \in 1 .. Len(seq) : more[k] = seq[k]
  OBVIOUS

LEMMA MapRows ==
  ASSUME NEW S, NEW seq \in Seq(S), NEW new, new = [i \in 1 .. Len(seq) |-> new[i]],
         \A i \in 1 .. Len(seq) : new[i] \in S
  PROVE  new \in Seq(S) /\ Len(new) = Len(seq)
  OBVIOUS

\* An open transaction as it may be left, and a step: no attempt is taken back,
\* and new rows look back at links that have expired or been submitted.
Fresh(x) == x \in Txs /\ PlanOK(x) /\ (x.mine # {} => x.course \in versioned)

Older(a, b) ==
  /\ b.trainee = a.trainee /\ b.course = a.course /\ b.expires = a.expires
  /\ b.seen = a.seen /\ (a.attempt # "none" => b.attempt # "none")

RowsMoved ==
  /\ rows' \in Seq(Row) /\ Len(rows) <= Len(rows') /\ Len(rows') <= MaxRows
  /\ \A i \in Ids : Older(rows[i], rows'[i])
  /\ \A i \in Ids' : rows'[i].status = "submitted" => rows'[i].attempt # "none"
  /\ \A i \in Ids' \ Ids : Clear(rows'[i].seen)

WorldMoved ==
  /\ now <= now' /\ now' \in 1 .. Horizon /\ active' \subseteq Trainees
  /\ versioned \subseteq versioned' /\ versioned' \subseteq Courses
  /\ certs' \in [Trainees \X Courses -> Nat] /\ deaths' \in 0 .. MaxDeaths
  /\ starting' \subseteq Ids

TxMoved == DOMAIN tx' = Issuers /\ tx' = [p \in Issuers |-> tx'[p]]
           /\ \A p \in Issuers : tx'[p] = tx[p] \/ Fresh(tx'[p])

Moved == RowsMoved /\ WorldMoved /\ TxMoved

LEMMA ClearStays ==
  ASSUME Types, RowsMoved, WorldMoved, NEW seen, Clear(seen)
  PROVE  Clear(seen)'
  <1> SUFFICES ASSUME NEW i \in seen
               PROVE  (i \in Ids /\ (rows[i].expires <= now \/ rows[i].attempt # "none"))'
    BY DEF Clear
  <1>1. i \in Ids /\ (rows[i].expires <= now \/ rows[i].attempt # "none") /\ rows[i] \in Row
    BY DEF Clear, Types, TypeOK, Ids
  <1>2. i \in Ids' /\ Older(rows[i], rows'[i])
    BY <1>1 DEF RowsMoved, Ids, Types, TypeOK
  <1>3. now \in Nat /\ now' \in Nat /\ now <= now' /\ rows[i].expires \in Nat
    BY <1>1 DEF WorldMoved, Types, TypeOK, Row
  <1>4. /\ rows'[i].expires = rows[i].expires
        /\ rows[i].attempt # "none" => rows'[i].attempt # "none"
    BY <1>2 DEF Older
  <1> QED
    BY <1>1, <1>2, <1>3, <1>4


LEMMA TxFields ==
  ASSUME NEW x \in Txs
  PROVE  DOMAIN x = DOMAIN Idle
  <1>1. DOMAIN Idle = {"pc", "course", "courses", "todo", "seen", "mine"}
    BY DEF Idle
  <1>2. DOMAIN x = {"pc", "course", "courses", "todo", "seen", "mine"}
    BY DEF Txs
  <1> QED
    BY <1>1, <1>2

LEMMA MovedStep ==
  ASSUME IInv, Moved
  PROVE  IInv'
  <1>1. \A p \in Issuers : Fresh(tx[p])
    BY DEF IInv, Types, PlanInv, VersionInv, Fresh
  <1>2. \A p \in Issuers : Fresh(tx'[p])
    BY <1>1 DEF Moved, TxMoved
  <1>3. Types'
    <2>1. tx' \in [Issuers -> Txs]
      BY <1>2 DEF Moved, TxMoved, Fresh
    <2>3. \A p \in Issuers : DOMAIN tx'[p] = DOMAIN Idle
      BY <2>1, TxFields
    <2>4. starting' \subseteq Ids'
      BY DEF Moved, RowsMoved, WorldMoved, Ids, IInv, Types, TypeOK
    <2> QED
      BY <2>1, <2>3, <2>4 DEF Moved, RowsMoved, WorldMoved, TxMoved, Types, TypeOK, Idle
  <1>4. SeenInv'
    <2> SUFFICES ASSUME NEW j \in Ids'
                 PROVE  Clear(rows[j].seen)'
      BY DEF SeenInv
    <2>1. PICK seen : seen = rows'[j].seen
      OBVIOUS
    <2>2. Clear(seen)
      <3>1. CASE j \in Ids
        <4>1. Older(rows[j], rows'[j])
          BY <3>1 DEF Moved, RowsMoved
        <4> QED
          BY <2>1, <3>1, <4>1 DEF IInv, SeenInv, Older
      <3>2. CASE j \notin Ids
        BY <2>1, <3>2 DEF Moved, RowsMoved
      <3> QED
        BY <3>1, <3>2
    <2>3. Clear(seen)'
      BY <2>2, ClearStays DEF IInv, Moved
    <2> QED
      BY <2>1, <2>3
  <1>5. PlanInv'
    <2> SUFFICES ASSUME NEW p \in Issuers
                 PROVE  PlanOK(tx[p])'
      BY DEF PlanInv
    <2>1. PICK x : x = tx'[p]
      OBVIOUS
    <2>2. x \in Txs /\ PlanOK(x)
      BY <1>2, <2>1 DEF Fresh
    <2> SUFFICES ASSUME x.pc = "issue", NEW t \in x.todo
                 PROVE  Clear({i \in x.seen : i \in Ids => Cell(i) = <<t, x.course>>})'
      BY <2>1 DEF PlanOK
    <2> DEFINE old == {i \in x.seen : i \in Ids => Cell(i) = <<t, x.course>>}
    <2>3. Clear(old)
      BY <2>2 DEF PlanOK
    <2>4. PICK seen : seen = old
      OBVIOUS
    <2>5. Clear(seen)'
      BY <2>3, <2>4, ClearStays DEF IInv, Moved
    <2>6. \A i \in Ids : i \in Ids' /\ Cell(i)' = Cell(i)
      BY DEF IInv, Types, TypeOK, Moved, RowsMoved, Older, Ids, Cell
    <2>7. \A i \in Ids : i \in x.seen /\ Cell(i)' = <<t, x.course>> => i \in seen
      BY <2>4, <2>6
    <2>8. \A i \in x.seen : i \in Ids
      BY <2>3 DEF Clear
    <2>9. \A i \in x.seen : (i \in Ids' => Cell(i)' = <<t, x.course>>) => i \in seen
      BY <2>6, <2>7, <2>8
    <2> QED
      BY <2>5, <2>9 DEF Clear
  <1>6. VersionInv'
    BY <1>2 DEF Moved, WorldMoved, VersionInv, Fresh
  <1>7. StatusInv'
    BY DEF Moved, RowsMoved, StatusInv
  <1> QED
    BY <1>3, <1>4, <1>5, <1>6, <1>7 DEF IInv


LEMMA Unmoved ==
  ASSUME Types, StatusInv
  PROVE  /\ rows' = rows => RowsMoved
         /\ UNCHANGED world /\ deaths' \in 0 .. MaxDeaths => WorldMoved
         /\ tx' = tx => TxMoved
         /\ \A p \in Issuers : \A x : Fresh(x) /\ tx' = [tx EXCEPT ![p] = x] => TxMoved
  <1>1. rows' = rows => RowsMoved
    BY LinksAssumption DEF Types, TypeOK, StatusInv, RowsMoved, Ids, Older
  <1>2. UNCHANGED world /\ deaths' \in 0 .. MaxDeaths => WorldMoved
    BY LinksAssumption DEF Types, TypeOK, WorldMoved, world
  <1>3. tx' = tx => TxMoved
    BY DEF Types, TxMoved
  <1>4. \A p \in Issuers : \A x : Fresh(x) /\ tx' = [tx EXCEPT ![p] = x] => TxMoved
    BY DEF Types, TxMoved
  <1> QED
    BY <1>1, <1>2, <1>3, <1>4

\* Transactions that are not open, and one that is.
LEMMA FreshRecords ==
  /\ Fresh(Idle) /\ Fresh(NextTick)
  /\ \A x \in SUBSET Courses : Fresh([NextTick EXCEPT !.courses = x])
  BY DEF Fresh, Idle, NextTick, Txs, PlanOK

LEMMA IssuingRecord ==
  ASSUME NEW p, NEW c \in Courses, NEW seen \in SUBSET Nat, NEW todo \in SUBSET Trainees,
         NEW x, x = Issuing(p, c, seen, todo)
  PROVE  /\ x \in Txs /\ x.pc = "issue" /\ x.course = c /\ x.seen = seen /\ x.todo = todo
         /\ x.mine = {}
  BY DEF Idle, Txs, Issuing

LEMMA Inserted ==
  ASSUME Types, StatusInv, NEW t \in Trainees, NEW c, NEW db \in {"pending", "committed"},
         NEW seen \in SUBSET Nat, Insert(t, c, db, seen),
         Clear({i \in seen : Cell(i) = <<t, c>>})
  PROVE  RowsMoved /\ c \in versioned /\ DOMAIN rows' \ Ids = {New} /\ New \in Nat
  <1> DEFINE e == [trainee |-> t, course |-> c, expires |-> now + LinkTtl, status |-> "issued",
                   attempt |-> "none", db |-> db, seen |-> {i \in seen : Cell(i) = <<t, c>>}]
  <1>1. c \in versioned /\ c \in Courses /\ Len(rows) < MaxRows /\ rows' = Append(rows, e)
    BY DEF Insert, Types, TypeOK
  <1>2. now + LinkTtl \in Nat
    BY LinksAssumption DEF Types, TypeOK
  <1>3. e \in Row /\ e.status = "issued" /\ e.seen = {i \in seen : Cell(i) = <<t, c>>}
    BY <1>1, <1>2 DEF Row
  <1> HIDE DEF e
  <1>4. /\ rows' \in Seq(Row) /\ Len(rows') = Len(rows) + 1 /\ rows'[Len(rows) + 1] = e
        /\ \A k \in 1 .. Len(rows) : rows'[k] = rows[k]
    BY <1>1, <1>3, AppendRow DEF Types, TypeOK
  <1>5. Len(rows) \in Nat /\ MaxRows \in Nat /\ Ids' \ Ids = {New} /\ DOMAIN rows' = Ids'
    BY <1>4, LinksAssumption DEF Types, TypeOK, Ids, New
  <1>6. RowsMoved
    <2>1. ASSUME NEW i \in Ids' \ Ids
          PROVE  Clear(rows'[i].seen)
      <3>1. rows'[i] = e
        BY <1>4, <1>5 DEF New
      <3> QED
        BY <1>3, <3>1
    <2>2. \A i \in Ids : Older(rows[i], rows'[i])
      BY <1>4 DEF Ids, Older
    <2>3. Len(rows) <= Len(rows') /\ Len(rows') <= MaxRows
      BY <1>1, <1>4, <1>5
    <2>4. \A i \in Ids' : rows'[i].status = "submitted" => rows'[i].attempt # "none"
      BY <1>3, <1>4, <1>5 DEF Ids, StatusInv, New
    <2> QED
      BY <1>4, <2>1, <2>2, <2>3, <2>4, Zenon DEF RowsMoved
  <1> QED
    BY <1>1, <1>5, <1>6 DEF New

LEMMA Resolved ==
  ASSUME Types, StatusInv, NEW p \in Issuers, NEW outcome \in {"committed", "lost"},
         rows' = Resolve(p, outcome)
  PROVE  RowsMoved
  <1>1. rows' = [i \in 1 .. Len(rows) |-> rows'[i]]
        /\ \A i \in 1 .. Len(rows) :
             rows'[i] = IF i \in tx[p].mine THEN [rows[i] EXCEPT !.db = outcome] ELSE rows[i]
    BY DEF Resolve, Ids
  <1>2. ASSUME NEW i \in 1 .. Len(rows)
        PROVE  /\ rows'[i] \in Row /\ Older(rows[i], rows'[i])
               /\ rows'[i].status = "submitted" => rows'[i].attempt # "none"
    <2>1. rows[i] \in Row /\ (rows[i].status = "submitted" => rows[i].attempt # "none")
      BY DEF Types, TypeOK, StatusInv, Ids
    <2> QED
      BY <1>1, <2>1 DEF Row, Older
  <1>3. rows' \in Seq(Row) /\ Len(rows') = Len(rows)
    BY <1>1, <1>2, MapRows DEF Types, TypeOK
  <1> QED
    BY <1>2, <1>3, LinksAssumption DEF RowsMoved, Ids, Types, TypeOK


(* A look at has_open_enrolment() that finds nothing.                       *)
LEMMA LookIsClear ==
  ASSUME Types, StatusInv, NEW p, NEW t, NEW c, ~has_open_enrolment(p, t, c)
  PROVE  /\ Visible(p) \in SUBSET Nat
         /\ \A i \in Visible(p) : i \in Ids
              /\ (Cell(i) = <<t, c>> => rows[i].expires <= now \/ rows[i].attempt # "none")
  <1>1. Visible(p) \in SUBSET Nat /\ \A i \in Visible(p) : i \in Ids
    BY DEF Visible, Ids, Types, TypeOK
  <1>2. ASSUME NEW i \in Visible(p), Cell(i) = <<t, c>>
        PROVE  rows[i].expires <= now \/ rows[i].attempt # "none"
    <2>1. ~IsOpen(i) /\ i \in Ids
      BY <1>1, <1>2 DEF has_open_enrolment
    <2>2. rows[i] \in Row /\ now \in Nat
      BY <2>1, LinksAssumption DEF Types, TypeOK, Ids
    <2> QED
      BY <2>1, <2>2 DEF IsOpen, Unsubmitted, Row, StatusInv
  <1> QED
    BY <1>1, <1>2

LEMMA EnrolClears ==
  ASSUME IInv, NEW p \in Issuers, tx[p].pc = "issue", NEW t \in tx[p].todo
  PROVE  /\ t \in Trainees /\ tx[p].seen \in SUBSET Nat
         /\ Clear({i \in tx[p].seen : Cell(i) = <<t, tx[p].course>>})
  <1>1. tx[p] \in Txs /\ PlanOK(tx[p])
    BY DEF IInv, Types, PlanInv
  <1> QED
    BY <1>1 DEF Txs, PlanOK, Clear

\* One trainee less to serve, maybe with a new row.
LEMMA Served ==
  ASSUME IInv, NEW p \in Issuers, NEW t, NEW mine \in SUBSET Nat,
         mine # {} => tx[p].course \in versioned,
         tx' = [tx EXCEPT ![p].todo = @ \ {t}, ![p].mine = mine]
  PROVE  TxMoved
  <1> DEFINE x == [tx[p] EXCEPT !.todo = @ \ {t}, !.mine = mine]
  <1>1. tx[p] \in Txs /\ PlanOK(tx[p])
    BY DEF IInv, Types, PlanInv
  <1>2. /\ x \in Txs /\ x.pc = tx[p].pc /\ x.course = tx[p].course /\ x.seen = tx[p].seen
        /\ x.todo \subseteq tx[p].todo /\ x.mine = mine
    BY <1>1 DEF Txs
  <1>3. tx' = [tx EXCEPT ![p] = x]
    BY DEF IInv, Types
  <1> HIDE DEF x
  <1>4. Fresh(x)
    BY <1>1, <1>2 DEF Fresh, PlanOK
  <1> QED
    BY <1>3, <1>4, Unmoved DEF IInv

LEMMA SchedulerMoves ==
  ASSUME IInv, SchedulerStep
  PROVE  Moved
  <1>0. Types /\ StatusInv /\ Scheduler \in Issuers /\ deaths \in 0 .. MaxDeaths
    BY DEF IInv, Types, TypeOK, Issuers
  <1>1. CASE EndTick
    BY <1>0, <1>1, Unmoved, FreshRecords DEF EndTick, Moved
  <1>2. CASE Commit(Scheduler)
    <2>1. tx[Scheduler].courses \ {tx[Scheduler].course} \in SUBSET Courses
      BY <1>0 DEF Types, Txs
    <2> QED
      BY <1>0, <1>2, <2>1, Unmoved, FreshRecords, Resolved DEF Commit, Moved
  <1>3. ASSUME NEW c \in Courses, PlanCourse(c)
        PROVE  Moved
    <2> DEFINE due == trainees_due_for_course(Scheduler, c)
               other == [tx[Scheduler] EXCEPT !.courses = @ \ {c}]
               base == Issuing(Scheduler, c, Visible(Scheduler), due)
               issue == [base EXCEPT !.courses = tx[Scheduler].courses]
    <2>1. tx' = [tx EXCEPT ![Scheduler] = IF due = {} THEN other ELSE issue]
          /\ tx[Scheduler].pc = "tick" /\ rows' = rows /\ UNCHANGED world /\ deaths' = deaths
      <3>1. other = [tx[Scheduler] EXCEPT !.courses = tx[Scheduler].courses \ {c}]
        OBVIOUS
      <3> QED
        BY <1>3 DEF PlanCourse
    <2>2. tx[Scheduler] \in Txs /\ (tx[Scheduler].mine # {} => tx[Scheduler].course \in versioned)
      BY <1>0 DEF IInv, Types, VersionInv
    <2>3. Fresh(other)
      <3>1. other \in Txs /\ other.pc = "tick" /\ other.mine = tx[Scheduler].mine
            /\ other.course = tx[Scheduler].course
        BY <2>1, <2>2 DEF Txs
      <3> HIDE DEF other
      <3> QED
        BY <2>2, <3>1 DEF Fresh, PlanOK
    <2>4. ASSUME due # {}
          PROVE  Fresh(issue)
      <3>1. due \in SUBSET Trainees
            /\ \A t \in due : ~has_open_enrolment(Scheduler, t, c)
        BY <1>0 DEF trainees_due_for_course, is_due_for_recert, Types, TypeOK
      <3> HIDE DEF due
      <3>2. Visible(Scheduler) \in SUBSET Nat
        BY <1>0, <2>4, <3>1, LookIsClear
      <3> PICK b : b = base
        OBVIOUS
      <3>3. /\ b \in Txs /\ b.pc = "issue" /\ b.course = c
            /\ b.seen = Visible(Scheduler) /\ b.todo = due /\ b.mine = {}
        BY <3>1, <3>2, IssuingRecord
      <3>9. issue = [b EXCEPT !.courses = tx[Scheduler].courses]
        OBVIOUS
      <3> HIDE DEF base, issue
      <3>4. /\ issue \in Txs /\ issue.pc = "issue" /\ issue.course = c
            /\ issue.seen = Visible(Scheduler) /\ issue.todo = due /\ issue.mine = {}
        BY <2>2, <3>3, <3>9 DEF Txs
      <3>5. ASSUME NEW t \in due
            PROVE  Clear({i \in Visible(Scheduler) : i \in Ids => Cell(i) = <<t, c>>})
        <4>1. ~has_open_enrolment(Scheduler, t, c)
          BY <3>1, <3>5
        <4> QED
          BY <1>0, <4>1, LookIsClear DEF Clear
      <3>6. PlanOK(issue)
        BY <3>4, <3>5 DEF PlanOK
      <3> QED
        BY <3>4, <3>6 DEF Fresh
    <2> HIDE DEF due, other, issue
    <2> QED
      BY <1>0, <2>1, <2>3, <2>4, Unmoved DEF Moved
  <1>4. ASSUME NEW t \in Trainees, ScheduleOne(t)
        PROVE  Moved
    <2> DEFINE c == tx[Scheduler].course
    <2>1. tx[Scheduler].pc = "issue" /\ t \in tx[Scheduler].todo
          /\ UNCHANGED world /\ deaths' = deaths
      BY <1>4 DEF ScheduleOne
    <2>2. /\ t \in Trainees /\ tx[Scheduler].seen \in SUBSET Nat
          /\ Clear({i \in tx[Scheduler].seen : Cell(i) = <<t, c>>})
      BY <1>0, <2>1, EnrolClears
    <2>3. tx[Scheduler].mine \in SUBSET Nat
      BY <1>0 DEF Types, Txs
    <2>4. CASE /\ enrol(t, c, tx[Scheduler].seen)
               /\ tx' = [tx EXCEPT ![Scheduler].todo = @ \ {t},
                                   ![Scheduler].mine = @ \cup {New}]
      <3>1. RowsMoved /\ c \in versioned /\ New \in Nat
        BY <1>0, <2>2, <2>4, Inserted DEF enrol
      <3>2. tx' = [tx EXCEPT ![Scheduler].todo = @ \ {t},
                             ![Scheduler].mine = tx[Scheduler].mine \cup {New}]
        BY <2>4
      <3>3. TxMoved
        BY <1>0, <2>3, <3>1, <3>2, Served
      <3> QED
        BY <1>0, <2>1, <3>1, <3>3, Unmoved DEF Moved
    <2>5. CASE /\ rows' = Resolve(Scheduler, "lost")
               /\ tx' = [tx EXCEPT ![Scheduler].todo = @ \ {t}, ![Scheduler].mine = {}]
      <3>1. RowsMoved
        BY <1>0, <2>5, Resolved
      <3>2. PICK none : none = {}
        OBVIOUS
      <3>3. none \in SUBSET Nat /\ tx' = [tx EXCEPT ![Scheduler].todo = @ \ {t},
                                                   ![Scheduler].mine = none]
        BY <2>5, <3>2
      <3>4. TxMoved
        BY <1>0, <3>2, <3>3, Served
      <3> QED
        BY <1>0, <2>1, <3>1, <3>4, Unmoved DEF Moved
    <2> QED
      BY <1>4, <2>4, <2>5 DEF ScheduleOne
  <1> QED
    BY <1>1, <1>2, <1>3, <1>4 DEF SchedulerStep


LEMMA IssuerMoves ==
  ASSUME IInv, IssuerStep
  PROVE  Moved
  <1>0. /\ Types /\ StatusInv /\ deaths \in 0 .. MaxDeaths /\ \A p \in Issuers : tx[p] \in Txs
        /\ Evaluator \in Issuers /\ \A a \in Admins : a \in Issuers
    BY DEF IInv, Types, TypeOK, Issuers
  <1>1. ASSUME NEW p \in Issuers, Die(p)
        PROVE  Moved
    <2>1. /\ deaths' \in 0 .. MaxDeaths /\ UNCHANGED world /\ rows' = Resolve(p, "lost")
          /\ tx' = [tx EXCEPT ![p] = IF p = Scheduler THEN NextTick ELSE Idle]
      BY <1>0, <1>1, LinksAssumption DEF Die
    <2> QED
      BY <1>0, <2>1, Unmoved, FreshRecords, Resolved DEF Moved
  <1>2. ASSUME NEW p \in Issuers \ {Scheduler}, Commit(p)
        PROVE  Moved
    BY <1>0, <1>2, Unmoved, FreshRecords, Resolved DEF Commit, Moved
  <1>3. ASSUME NEW a \in Admins, NEW c \in Courses, NEW selected \in SUBSET Trainees \ {{}},
               BulkPlan(a, c, selected)
        PROVE  Moved
    <2>1. PICK x : x = Issuing(a, c, Visible(a), selected)
      OBVIOUS
    <2>2. Visible(a) \in SUBSET Nat
      BY <1>0 DEF Visible, Ids, Types, TypeOK
    <2>3. /\ x \in Txs /\ x.pc = "issue" /\ x.course = c /\ x.seen = Visible(a)
          /\ x.todo = selected /\ x.mine = {}
      BY <2>1, <2>2, IssuingRecord
    <2>4. ASSUME NEW t \in selected
          PROVE  Clear({i \in Visible(a) : i \in Ids => Cell(i) = <<t, c>>})
      <3>1. ~has_open_enrolment(a, t, c)
        BY <1>3, <2>4 DEF BulkPlan
      <3> QED
        BY <1>0, <3>1, LookIsClear DEF Clear
    <2>5. Fresh(x)
      BY <2>3, <2>4 DEF Fresh, PlanOK
    <2> QED
      BY <1>0, <1>3, <2>1, <2>5, Unmoved DEF BulkPlan, Moved
  <1>4. ASSUME NEW a \in Admins, NEW t \in Trainees, BulkOne(a, t)
        PROVE  Moved
    <2> DEFINE c == tx[a].course
    <2>1. /\ t \in Trainees /\ tx[a].seen \in SUBSET Nat
          /\ Clear({i \in tx[a].seen : Cell(i) = <<t, c>>})
      BY <1>0, <1>4, EnrolClears DEF BulkOne
    <2>2. RowsMoved /\ c \in versioned /\ New \in Nat
      BY <1>0, <1>4, <2>1, Inserted DEF BulkOne, enrol
    <2>3. tx' = [tx EXCEPT ![a].todo = @ \ {t}, ![a].mine = tx[a].mine \cup {New}]
      BY <1>4 DEF BulkOne
    <2>4. tx[a].mine \cup {New} \in SUBSET Nat /\ a \in Issuers
      BY <1>0, <2>2 DEF Txs
    <2>5. TxMoved
      BY <2>2, <2>3, <2>4, Served
    <2> QED
      BY <1>0, <1>4, <2>2, <2>5, Unmoved DEF BulkOne, Moved
  <1>5. ASSUME NEW a \in Admins, NEW c \in Courses, NEW t \in Trainees, ManualIssue(a, t, c)
        PROVE  Moved
    <2>0. {} \in SUBSET Nat /\ {} \in SUBSET Trainees
      OBVIOUS
    <2>1. RowsMoved /\ c \in versioned /\ New \in Nat
      <3>1. Insert(t, c, "pending", {})
        BY <1>5 DEF ManualIssue, enrol
      <3>2. Clear({i \in {} : Cell(i) = <<t, c>>})
        BY DEF Clear
      <3> QED
        BY <1>0, <2>0, <3>1, <3>2, Inserted
    <2>2. PICK b : b = Issuing(a, c, {}, {})
      OBVIOUS
    <2>3. /\ b \in Txs /\ b.pc = "issue" /\ b.course = c /\ b.seen = {} /\ b.todo = {}
      BY <2>0, <2>2 DEF Issuing, Idle, Txs
    <2>4. PICK x : x = [b EXCEPT !.mine = {New}]
      OBVIOUS
    <2>5. /\ x \in Txs /\ x.course = c /\ x.todo = {}
      BY <2>1, <2>3, <2>4 DEF Txs
    <2>6. Fresh(x)
      BY <2>1, <2>5 DEF Fresh, PlanOK
    <2>7. tx' = [tx EXCEPT ![a] = x]
      BY <1>5, <2>2, <2>4 DEF ManualIssue
    <2> QED
      BY <1>0, <1>5, <2>1, <2>6, <2>7, Unmoved DEF ManualIssue, Moved
  <1>6. ASSUME NEW t \in Trainees, NEW c \in Courses, DryRun(t, c)
        PROVE  Moved
    <2>1. RowsMoved
      <3>1. {} \in SUBSET Nat /\ Insert(t, c, "committed", {})
        BY <1>6 DEF DryRun
      <3>2. Clear({i \in {} : Cell(i) = <<t, c>>})
        BY DEF Clear
      <3> QED
        BY <1>0, <3>1, <3>2, Inserted
    <2> QED
      BY <1>0, <1>6, <2>1, Unmoved DEF DryRun, Moved
  <1>7. ASSUME NEW c \in Courses, NEW audience \in SUBSET Trainees \ {{}}, Respond(c, audience)
        PROVE  Moved
    <2>1. PICK x : x = Issuing(Evaluator, c, {}, audience)
      OBVIOUS
    <2>2. x \in Txs /\ x.seen = {} /\ x.mine = {}
      BY <2>1, IssuingRecord
    <2>3. Fresh(x)
      BY <2>2 DEF Fresh, PlanOK, Clear
    <2> QED
      BY <1>0, <1>7, <2>1, <2>3, Unmoved DEF Respond, Moved
  <1>8. ASSUME NEW t \in Trainees, RespondOne(t)
        PROVE  Moved
    <2> DEFINE c == tx[Evaluator].course
               mine == tx[Evaluator].mine \cup (DOMAIN rows' \ Ids)
    <2>1. /\ UNCHANGED world /\ deaths' = deaths
          /\ tx' = [tx EXCEPT ![Evaluator].todo = @ \ {t}, ![Evaluator].mine = mine]
      BY <1>8 DEF RespondOne
    <2>2. CASE rows' = rows
      <3>1. DOMAIN rows' = Ids
        BY <1>0, <2>2 DEF Types, TypeOK, Ids
      <3>2. mine = tx[Evaluator].mine
        BY <3>1
      <3>3. mine \in SUBSET Nat /\ (mine # {} => c \in versioned)
        BY <1>0, <3>2 DEF Txs, IInv, VersionInv
      <3> HIDE DEF mine
      <3>4. TxMoved
        BY <1>0, <2>1, <3>3, Served
      <3> QED
        BY <1>0, <2>1, <2>2, <3>4, Unmoved DEF Moved
    <2>3. CASE ~has_open_enrolment(Evaluator, t, c) /\ enrol(t, c, Visible(Evaluator))
      <3>1. /\ Visible(Evaluator) \in SUBSET Nat
            /\ Clear({i \in Visible(Evaluator) : Cell(i) = <<t, c>>})
        BY <1>0, <2>3, LookIsClear DEF Clear
      <3>2. RowsMoved /\ c \in versioned /\ DOMAIN rows' \ Ids = {New} /\ New \in Nat
        BY <1>0, <2>3, <3>1, Inserted DEF enrol
      <3>3. mine \in SUBSET Nat
        BY <1>0, <3>2 DEF Txs
      <3> HIDE DEF mine
      <3>4. TxMoved
        BY <1>0, <2>1, <3>2, <3>3, Served
      <3> QED
        BY <1>0, <2>1, <3>2, <3>4, Unmoved DEF Moved
    <2> QED
      BY <1>8, <2>2, <2>3 DEF RespondOne
  <1> QED
    BY <1>1, <1>2, <1>3, <1>4, <1>5, <1>6, <1>7, <1>8 DEF IssuerStep

LEMMA OtherMoves ==
  ASSUME IInv, \/ TraineeStep \/ Pass \/ \E t \in Leavers : SetActive(t)
               \/ \E c \in Courses : PublishFirst(c)
  PROVE  Moved
  <1>0. Types /\ StatusInv /\ deaths \in 0 .. MaxDeaths /\ Len(rows) \in Nat /\ MaxRows \in Nat
    BY LinksAssumption DEF IInv, Types, TypeOK
  <1>1. ASSUME NEW i \in Ids, NEW e \in Row, Older(rows[i], e),
               e.status = "submitted" => e.attempt # "none", rows' = [rows EXCEPT ![i] = e]
        PROVE  RowsMoved
    <2>1. /\ rows' = [k \in 1 .. Len(rows) |-> rows'[k]]
          /\ \A k \in 1 .. Len(rows) : rows'[k] = IF k = i THEN e ELSE rows[k]
      <3>1. DOMAIN rows = 1 .. Len(rows)
        BY <1>0 DEF Types, TypeOK
      <3> QED
        BY <1>1, <3>1
    <2>2. ASSUME NEW k \in 1 .. Len(rows)
          PROVE  /\ rows'[k] \in Row /\ Older(rows[k], rows'[k])
                 /\ rows'[k].status = "submitted" => rows'[k].attempt # "none"
      <3>1. rows[k] \in Row /\ (rows[k].status = "submitted" => rows[k].attempt # "none")
        BY <1>0 DEF Types, TypeOK, StatusInv, Ids
      <3> QED
        BY <1>1, <2>1, <3>1 DEF Older
    <2>3. rows' \in Seq(Row) /\ Len(rows') = Len(rows)
      BY <1>0, <2>1, <2>2, MapRows DEF Types, TypeOK
    <2> QED
      BY <1>0, <2>2, <2>3 DEF RowsMoved, Ids, Types, TypeOK
  <1>2. ASSUME NEW i \in Ids, NEW passed \in BOOLEAN, Submit(i, passed)
        PROVE  Moved
    <2>1. RowsMoved
      <3> PICK at \in {"passed", "failed"} :
              rows' = [rows EXCEPT ![i].status = "submitted", ![i].attempt = at]
        BY <1>2 DEF Submit
      <3> DEFINE e == [rows[i] EXCEPT !.status = "submitted", !.attempt = at]
      <3>1. rows[i] \in Row /\ rows' = [rows EXCEPT ![i] = e]
        <4>1. rows[i] \in Row /\ DOMAIN rows = Ids
          BY <1>0 DEF Types, TypeOK, Ids
        <4> QED
          BY <4>1
      <3>2. e \in Row /\ Older(rows[i], e) /\ e.attempt # "none"
        BY <1>2, <3>1 DEF Row, Older, Submit
      <3> QED
        BY <1>1, <3>1, <3>2
    <2> QED
      BY <1>0, <1>2, <2>1, Unmoved DEF Submit, Moved
  <1>7. ASSUME NEW i \in Ids, LoadStart(i)
        PROVE  Moved
    <2>1. WorldMoved
      BY <1>0, <1>7, LinksAssumption DEF LoadStart, WorldMoved, Types, TypeOK
    <2> QED
      BY <1>0, <1>7, <2>1, Unmoved DEF LoadStart, Moved
  <1>8. ASSUME NEW i \in Ids, WriteStart(i)
        PROVE  Moved
    <2>1. RowsMoved
      <3> DEFINE e == [rows[i] EXCEPT !.status = "started"]
      <3>1. rows[i] \in Row /\ rows' = [rows EXCEPT ![i] = e]
        BY <1>0, <1>8 DEF WriteStart, Types, TypeOK, Ids
      <3>2. e \in Row /\ Older(rows[i], e) /\ e.status = "started"
        BY <3>1 DEF Row, Older
      <3> QED
        BY <1>1, <3>1, <3>2
    <2>2. WorldMoved
      BY <1>0, <1>8, LinksAssumption DEF WriteStart, WorldMoved, Types, TypeOK
    <2> QED
      BY <1>0, <1>8, <2>1, <2>2, Unmoved DEF WriteStart, Moved
  <1>3. ASSUME NEW i \in Ids, Declare(i)
        PROVE  Moved
    <2>1. RowsMoved
      <3> DEFINE e == [rows[i] EXCEPT !.attempt = "declared"]
      <3>1. rows[i] \in Row /\ rows' = [rows EXCEPT ![i] = e]
        BY <1>0, <1>3 DEF Declare, Types, TypeOK, Ids
      <3>2. e \in Row /\ Older(rows[i], e) /\ e.attempt # "none"
        BY <3>1 DEF Row, Older
      <3> QED
        BY <1>1, <3>1, <3>2
    <2>2. WorldMoved
      <3>1. rows[i] \in Row /\ now + Validity \in Nat
        BY <1>0, LinksAssumption DEF Types, TypeOK, Ids
      <3>2. certs' = [certs EXCEPT ![Cell(i)] = now + Validity]
        BY <1>3 DEF Declare
      <3>3. certs' \in [Trainees \X Courses -> Nat]
        BY <1>0, <3>1, <3>2 DEF Types, TypeOK
      <3> QED
        BY <1>0, <1>3, <3>3, LinksAssumption DEF Declare, WorldMoved, Types, TypeOK
    <2> QED
      BY <1>0, <1>3, <2>1, <2>2, Unmoved DEF Declare, Moved
  <1>4. CASE Pass
    <2>1. WorldMoved
      BY <1>0, <1>4, LinksAssumption DEF Pass, WorldMoved, Types, TypeOK
    <2> QED
      BY <1>0, <1>4, <2>1, Unmoved DEF Pass, Moved
  <1>5. ASSUME NEW t \in Leavers, SetActive(t)
        PROVE  Moved
    <2>1. WorldMoved
      BY <1>0, <1>5, LinksAssumption DEF SetActive, WorldMoved, Types, TypeOK
    <2> QED
      BY <1>0, <1>5, <2>1, Unmoved DEF SetActive, Moved
  <1>6. ASSUME NEW c \in Courses, PublishFirst(c)
        PROVE  Moved
    <2>1. WorldMoved
      BY <1>0, <1>6, LinksAssumption DEF PublishFirst, WorldMoved, Types, TypeOK
    <2> QED
      BY <1>0, <1>6, <2>1, Unmoved DEF PublishFirst, Moved
  <1> QED
    BY <1>2, <1>3, <1>4, <1>5, <1>6, <1>7, <1>8 DEF TraineeStep


-----------------------------------------------------------------------------

LEMMA InitInv == Init => IInv
  <1> SUFFICES ASSUME Init PROVE IInv
    OBVIOUS
  <1>1. /\ rows = <<>> /\ now = 1 /\ deaths = 0 /\ active = Trainees /\ versioned = {}
        /\ starting = {} /\ certs = [cell \in Trainees \X Courses |-> 0] /\ DOMAIN tx = Issuers
        /\ tx = [p \in Issuers |-> tx[p]] /\ \A p \in Issuers : tx[p] \in {NextTick, Idle}
    BY DEF Init
  <1>2. \A x \in {NextTick, Idle} : x \in Txs /\ x.pc # "issue" /\ x.mine = {}
    <2>1. Idle \in Txs /\ Idle.pc = "idle" /\ Idle.mine = {}
      BY DEF Idle, Txs
    <2>2. NextTick \in Txs /\ NextTick.pc = "tick" /\ NextTick.mine = {}
      BY DEF NextTick, Idle, Txs
    <2> QED
      BY <2>1, <2>2
  <1>4. Types
    BY <1>1, <1>2, TxFields, LinksAssumption DEF Types, TypeOK
  <1>5. SeenInv /\ StatusInv
    BY <1>1 DEF SeenInv, StatusInv, Ids
  <1>6. PlanInv /\ VersionInv
    BY <1>1, <1>2 DEF PlanInv, PlanOK, VersionInv
  <1> QED
    BY <1>4, <1>5, <1>6 DEF IInv

LEMMA NextMoves ==
  ASSUME IInv, [Next]_vars
  PROVE  Moved
  <1>1. CASE Next
    BY <1>1, SchedulerMoves, IssuerMoves, OtherMoves DEF Next
  <1>2. CASE UNCHANGED vars
    BY <1>2, Unmoved DEF vars, world, Moved, IInv, Types, TypeOK
  <1> QED
    BY <1>1, <1>2

LEMMA Invariance == Spec => []IInv
  <1>1. IInv /\ [Next]_vars => IInv'
    BY NextMoves, MovedStep
  <1> QED
    BY InitInv, <1>1, PTL DEF Spec

(* Rows, certificates and transactions keep their types, and every bound of *)
(* the model holds.                                                         *)
THEOREM TypeCorrect == Spec => []TypeOK
  BY Invariance, PTL DEF IInv, Types

(* Whatever programs issue links at once and whichever of them die: two     *)
(* open links of one worker for one course need an override, or two issuers *)
(* neither of which could see the other's row, or the reopening of a link   *)
(* that had been submitted.                                                 *)
THEOREM DoubleLinksOverlap == Spec => []DoubleNeedsOverlap
  <1>1. IInv => DoubleNeedsOverlap
    <2> SUFFICES ASSUME IInv, NEW i \in CommittedOpen, NEW j \in CommittedOpen,
                        i \in rows[j].seen
                 PROVE  rows[i].attempt # "none"
      BY DEF DoubleNeedsOverlap
    <2>1. i \in Ids /\ j \in Ids /\ IsOpen(i)
      BY DEF CommittedOpen, Visible
    <2>2. rows[i] \in Row /\ now \in Nat
      BY <2>1, LinksAssumption DEF IInv, Types, TypeOK, Ids
    <2>3. rows[i].expires <= now \/ rows[i].attempt # "none"
      BY <2>1 DEF IInv, SeenInv, Clear
    <2> QED
      BY <2>1, <2>2, <2>3 DEF IsOpen, Row
  <1> QED
    BY Invariance, <1>1, PTL

(* The compliance matrix, with its queries of its own, calls an active      *)
(* worker overdue or due soon exactly when the scheduler would send a link. *)
THEOREM DashboardIsRight == Spec => []DashboardAgrees
  <1>1. ASSUME IInv
        PROVE  DashboardAgrees
    <2> SUFFICES ASSUME NEW t \in active, NEW c \in Courses, Required(t, c)
                 PROVE  compliance_state(t, c) \in {"overdue", "due_soon"}
                        <=> t \in trainees_due_for_course(Nobody, c)
      BY DEF DashboardAgrees
    <2>1. <<t, c>> \in open_pairs <=> has_open_enrolment(Nobody, t, c)
      <3>1. \A i \in Ids : i \in Visible(Nobody) <=> rows[i].db = "committed"
        BY DEF Visible
      <3>2. has_open_enrolment(Nobody, t, c) <=>
              \E i \in Ids : rows[i].db = "committed" /\ Cell(i) = <<t, c>> /\ IsOpen(i)
        BY <3>1 DEF has_open_enrolment, Visible
      <3>3. <<t, c>> \in open_pairs <=>
              \E i \in Ids : rows[i].db = "committed" /\ Cell(i) = <<t, c>> /\ IsOpen(i)
        BY DEF open_pairs, IsOpen, Unsubmitted
      <3> QED
        BY <3>2, <3>3
    <2>2. certs[<<t, c>>] \in Nat /\ now \in Nat /\ Lead \in Nat
      <3>1. t \in Trainees /\ <<t, c>> \in Trainees \X Courses
        BY <1>1 DEF IInv, Types, TypeOK
      <3> QED
        BY <1>1, <3>1, LinksAssumption DEF IInv, Types, TypeOK
    <2> PICK day \in Nat : day = certs[<<t, c>>]
      BY <2>2
    <2>3. t \in trainees_due_for_course(Nobody, c)
            <=> <<t, c>> \notin open_pairs /\ (day = 0 \/ day - Lead <= now)
      BY <2>1 DEF trainees_due_for_course, is_due_for_recert, IsPast
    <2>4. compliance_state(t, c) =
            IF <<t, c>> \in open_pairs THEN "in_flight"
            ELSE IF day = 0 \/ day <= now THEN "overdue"
            ELSE IF day - Lead <= now THEN "due_soon" ELSE "valid"
      BY DEF compliance_state, IsPast
    <2>5. now \in Nat /\ Lead \in Nat
      BY <2>2
    <2> QED
      BY <2>3, <2>4, <2>5
  <1> QED
    BY Invariance, <1>1, PTL

(* A link that was texted is lost only with the death of its transaction:   *)
(* the scheduler's rollback after a TrainingError finds no earlier link.    *)
THEOREM LinksDieWithTransactions == Spec => OnlyDeathsOrphan
  <1> DEFINE Kept == \A i \in Ids :
                       rows[i].db = "pending" /\ rows'[i].db = "lost" => deaths' > deaths
  <1>1. ASSUME IInv, [Next]_vars
        PROVE  [Kept]_vars
    <2>0. /\ rows \in Seq(Row) /\ Len(rows) \in Nat /\ DOMAIN rows = 1 .. Len(rows)
          /\ deaths \in Nat
      BY <1>1 DEF IInv, Types, TypeOK
    <2>1. ASSUME rows' = rows
          PROVE  Kept
      BY <2>1
    <2>2. ASSUME NEW t, NEW c, NEW db, NEW seen, Insert(t, c, db, seen)
          PROVE  Kept
      <3>1. \A i \in Ids : rows'[i] = rows[i]
        BY <2>0, <2>2 DEF Insert, Ids
      <3> QED
        BY <3>1
    <2>3. ASSUME NEW p, rows' = Resolve(p, "committed") PROVE Kept
      BY <2>0, <2>3 DEF Resolve, Ids
    <2>4. ASSUME NEW p, tx[p].mine = {}, rows' = Resolve(p, "lost") PROVE Kept
      BY <2>0, <2>4 DEF Resolve, Ids
    <2>5. ASSUME NEW i \in Ids, NEW e, e.db = rows[i].db, rows' = [rows EXCEPT ![i] = e]
          PROVE  Kept
      BY <2>0, <2>5 DEF Ids
    <2>6. CASE SchedulerStep
      <3>1. ASSUME NEW t \in Trainees, ScheduleOne(t) PROVE Kept
        <4>1. CASE enrol(t, tx[Scheduler].course, tx[Scheduler].seen)
          BY <2>2, <4>1 DEF enrol
        <4>2. CASE tx[Scheduler].course \notin versioned /\ rows' = Resolve(Scheduler, "lost")
          <5>1. tx[Scheduler].mine = {}
            BY <1>1, <4>2 DEF IInv, VersionInv, Issuers
          <5> QED
            BY <2>4, <4>2, <5>1
        <4> QED
          BY <3>1, <4>1, <4>2 DEF ScheduleOne
      <3>2. CASE Commit(Scheduler)
        BY <2>3, <3>2 DEF Commit
      <3> QED
        BY <2>1, <2>6, <3>1, <3>2 DEF SchedulerStep, EndTick, PlanCourse
    <2>7. CASE IssuerStep
      <3>1. ASSUME NEW p \in Issuers, Die(p) PROVE Kept
        BY <2>0, <3>1 DEF Die
      <3>2. ASSUME NEW p \in Issuers, Commit(p) PROVE Kept
        BY <2>3, <3>2 DEF Commit
      <3>3. ASSUME NEW a, NEW t, NEW c, ManualIssue(a, t, c) \/ DryRun(t, c) PROVE Kept
        BY <2>2, <3>3 DEF ManualIssue, DryRun, enrol
      <3>4. ASSUME NEW a, NEW t, BulkOne(a, t) \/ RespondOne(t) PROVE Kept
        BY <2>1, <2>2, <3>4 DEF BulkOne, RespondOne, enrol
      <3>5. ASSUME NEW a, NEW c, NEW set, BulkPlan(a, c, set) \/ Respond(c, set) PROVE Kept
        BY <2>1, <3>5 DEF BulkPlan, Respond
      <3> QED
        BY <2>7, <3>1, <3>2, <3>3, <3>4, <3>5 DEF IssuerStep
    <2>8. CASE TraineeStep
      <3> SUFFICES ASSUME NEW i \in Ids, NEW passed \in BOOLEAN,
                          LoadStart(i) \/ WriteStart(i) \/ Declare(i) \/ Submit(i, passed)
                   PROVE  Kept
        BY <2>8 DEF TraineeStep
      <3>1. rows[i] \in Row
        BY <1>1, <2>0 DEF IInv, Types, TypeOK, Ids
      <3>2. \A st, at : /\ [rows[i] EXCEPT !.status = st, !.attempt = at].db = rows[i].db
                        /\ [rows[i] EXCEPT !.status = st].db = rows[i].db
                        /\ [rows[i] EXCEPT !.attempt = at].db = rows[i].db
        BY <3>1 DEF Row
      <3> HIDE DEF Kept
      <3>3. CASE LoadStart(i)
        BY <2>1, <3>3 DEF LoadStart
      <3>4. CASE WriteStart(i)
        <4>1. rows' = [rows EXCEPT ![i] = [rows[i] EXCEPT !.status = "started"]]
          BY <2>0, <3>4 DEF WriteStart
        <4> QED
          BY <2>5, <3>2, <4>1
      <3>5. CASE Declare(i)
        <4>1. rows' = [rows EXCEPT ![i] = [rows[i] EXCEPT !.attempt = "declared"]]
          BY <2>0, <3>5 DEF Declare
        <4> QED
          BY <2>5, <3>2, <4>1
      <3>6. CASE Submit(i, passed)
        <4>1. PICK at : rows' = [rows EXCEPT ![i].status = "submitted", ![i].attempt = at]
          BY <3>6 DEF Submit
        <4>2. rows' = [rows EXCEPT ![i] = [rows[i] EXCEPT !.status = "submitted", !.attempt = at]]
          BY <2>0, <4>1 DEF Ids
        <4> QED
          BY <2>5, <3>2, <4>2
      <3> QED
        BY <3>3, <3>4, <3>5, <3>6
    <2>9. CASE Pass \/ (\E t \in Leavers : SetActive(t)) \/ (\E c \in Courses : PublishFirst(c))
      BY <2>1, <2>9 DEF Pass, SetActive, PublishFirst
    <2> HIDE DEF Kept
    <2> QED
      BY <1>1, <2>6, <2>7, <2>8, <2>9 DEF Next
  <1> QED
    BY Invariance, <1>1, PTL DEF Spec, OnlyDeathsOrphan

-----------------------------------------------------------------------------
\* The register of trainees.

Registers == [TraineeIds -> TraineeRow \cup {None}]

\* The row a change leaves.
Outcome(reg, change) ==
    IF change.id = NewId THEN change.columns ELSE Merged(reg[change.id], change.columns)

\* A new trainee is a whole row, an old one is known and keeps to the columns.
ChangeOK(reg, change) ==
    IF change.id = NewId
      THEN change.columns \in TraineeRow
      ELSE /\ change.id \in Known(reg)
           /\ \A old \in TraineeRow : Merged(old, change.columns) \in TraineeRow

\* No trainee is written twice by a plan.
ChangesOK(reg, plan) ==
    /\ Len(plan) \in Nat \ {0}
    /\ \A n \in 1..Len(plan) : ChangeOK(reg, plan[n])
    /\ \A n, m \in 1..Len(plan) : n # m => plan[n].id = NewId \/ plan[n].id # plan[m].id

\* Two rows may both be in the register.
Apart(row, other) == row.phone # other.phone /\ (row.emp # other.emp \/ row.emp = NoEmp)

\* What the checks of the forms and of plan_trainees_import() buy: the rows a plan
\* leaves can be reached, and differ from each other and from all the others.
Sound(reg, plan) ==
    \A n \in 1..Len(plan) :
        /\ Reachable(Outcome(reg, plan[n]))
        /\ \A m \in 1..Len(plan) : n # m => Apart(Outcome(reg, plan[n]), Outcome(reg, plan[m]))
        /\ \A j \in Known(reg) : j # plan[n].id => Apart(reg[j], Outcome(reg, plan[n]))

\* A fresh plan is sound.
RequestOK(m) ==
    \/ desk[m] = NoRequest
    \/ /\ desk[m] = [pc |-> "write", plan |-> desk[m].plan, fresh |-> desk[m].fresh]
       /\ desk[m].fresh \in BOOLEAN
       /\ ChangesOK(trainees, desk[m].plan)
       /\ desk[m].fresh => Sound(trainees, desk[m].plan)

RegistryInv ==
    /\ trainees \in Registers /\ Unique(trainees)
    /\ desk = [m \in Managers |-> desk[m]]
    /\ \A m \in Managers : RequestOK(m)

-----------------------------------------------------------------------------

(* Trainees are numbered from 1; 0 is no trainee.                           *)
LEMMA IdsType == /\ MaxTrainees \in Nat /\ TraineeIds \subseteq Nat /\ IsFiniteSet(TraineeIds)
                 /\ NewId \notin TraineeIds
  BY RegistryAssumption, FS_Interval DEF TraineeIds, NewId

(* The later of two numbers has more numbers up to it.                      *)
LEMMA PlaceGrows ==
  ASSUME NEW S, IsFiniteSet(S), S \subseteq Nat, NEW x \in S, NEW y \in S, x < y
  PROVE  Place(S, x) # Place(S, y)
  <1> DEFINE below == {z \in S : z <= x}
             upto == {z \in S : z <= y}
  <1>1. below \in SUBSET upto /\ upto \in SUBSET S
    <2>1. \A z \in S : z <= x => z <= y
      BY SMT
    <2> QED
      BY <2>1, Zenon
  <1>3. y \in upto /\ y \notin below
    BY SMT
  <1>4. IsFiniteSet(upto)
    BY <1>1, FS_Subset
  <1> HIDE DEF below, upto
  <1>2. Cardinality(below) # Cardinality(upto)
    BY <1>1, <1>3, <1>4, FS_Subset
  <1> QED
    BY <1>2 DEF Place, below, upto

(* Different numbers have different places.                                 *)
LEMMA PlacesDiffer ==
  ASSUME NEW S, IsFiniteSet(S), S \subseteq Nat, NEW x \in S, NEW y \in S, x # y
  PROVE  Place(S, x) # Place(S, y)
  <1>1. x < y \/ y < x
    OBVIOUS
  <1> QED
    BY <1>1, PlaceGrows

(* A change of a plan writes one trainee, and a trainee is written by one   *)
(* change.                                                                  *)
LEMMA OneToOne ==
  ASSUME NEW reg \in Registers, NEW plan, ChangesOK(reg, plan),
         NEW n \in 1..Len(plan), NEW m \in 1..Len(plan),
         NEW i \in TraineeIds, NEW j \in TraineeIds,
         Writes(reg, plan, n, i), Writes(reg, plan, m, j)
  PROVE  n = m <=> i = j
  <1> DEFINE free == TraineeIds \ Known(reg)
  <1>1. IsFiniteSet(free) /\ free \subseteq Nat
    BY IdsType, FS_Subset
  <1>2. IsFiniteSet(Additions(plan)) /\ Additions(plan) \subseteq Nat
    <2>1. IsFiniteSet(1..Len(plan)) /\ Additions(plan) \in SUBSET (1..Len(plan))
      BY FS_Interval DEF ChangesOK, Additions
    <2> QED
      BY <2>1, FS_Subset
  <1>3. CASE plan[n].id = NewId /\ plan[m].id = NewId
    <2>1. n \in Additions(plan) /\ m \in Additions(plan)
      BY <1>3 DEF Additions
    <2>2. i \in free /\ j \in free
      BY <1>3, IdsType DEF Writes, Known
    <2>3. /\ Place(Additions(plan), n) = Place(free, i)
          /\ Place(Additions(plan), m) = Place(free, j)
      BY <1>3, IdsType DEF Writes
    <2> HIDE DEF free
    <2>4. n # m => Place(Additions(plan), n) # Place(Additions(plan), m)
      BY <1>2, <2>1, PlacesDiffer
    <2>5. i # j => Place(free, i) # Place(free, j)
      BY <1>1, <2>2, PlacesDiffer
    <2> QED
      BY <2>3, <2>4, <2>5
  <1>4. CASE plan[n].id # NewId /\ plan[m].id # NewId
    BY <1>4, IdsType DEF Writes, ChangesOK
  <1>5. CASE plan[n].id = NewId /\ plan[m].id # NewId
    BY <1>5, IdsType DEF Writes, ChangesOK, ChangeOK, Known
  <1>6. CASE plan[n].id # NewId /\ plan[m].id = NewId
    BY <1>6, IdsType DEF Writes, ChangesOK, ChangeOK, Known
  <1> QED
    BY <1>3, <1>4, <1>5, <1>6

(* The largest number of one.                                               *)
LEMMA MaxOfOne == ASSUME NEW n \in Nat PROVE Max({n}) = n
  <1>1. \E x \in {n} : \A y \in {n} : x >= y
    OBVIOUS
  <1>2. Max({n}) \in {n}
    BY <1>1, Zenon DEF Max
  <1> QED
    BY <1>2

(* What the first changes of a plan leave of a trainee: it is as it was, or *)
(* one of them has written it.                                              *)
LEMMA StoredRow ==
  ASSUME NEW reg \in Registers, NEW plan, ChangesOK(reg, plan),
         NEW k \in 0..Len(plan), NEW i \in TraineeIds
  PROVE  \/ Stored(reg, plan, k)[i] = reg[i]
         \/ \E n \in 1..k : /\ n \in 1..Len(plan)
                            /\ Writes(reg, plan, n, i)
                            /\ Stored(reg, plan, k)[i] = Outcome(reg, plan[n])
                            /\ Outcome(reg, plan[n]) \in TraineeRow
  <1> DEFINE writers == {n \in 1..k : Writes(reg, plan, n, i)}
  <1>1. Stored(reg, plan, k)[i] = IF writers = {} THEN reg[i]
                                  ELSE Merged(reg[i], plan[Max(writers)].columns)
    BY DEF Stored
  <1>2. SUFFICES ASSUME writers # {}
        PROVE  \E n \in 1..k : /\ n \in 1..Len(plan)
                               /\ Writes(reg, plan, n, i)
                               /\ Stored(reg, plan, k)[i] = Outcome(reg, plan[n])
                               /\ Outcome(reg, plan[n]) \in TraineeRow
    BY <1>1
  <1>3. PICK n \in 1..k : Writes(reg, plan, n, i)
    BY <1>2
  <1>4. n \in 1..Len(plan) /\ n \in Nat /\ Len(plan) \in Nat
    BY DEF ChangesOK
  <1>5. writers = {n}
    BY <1>3, <1>4, OneToOne
  <1>6. Stored(reg, plan, k)[i] = Merged(reg[i], plan[n].columns)
    BY <1>1, <1>4, <1>5, MaxOfOne
  <1>7. ChangeOK(reg, plan[n])
    BY <1>4 DEF ChangesOK
  <1>8. CASE plan[n].id = NewId
    <2>1. reg[i] = None
      BY <1>3, <1>8, IdsType DEF Writes
    <2>2. Merged(reg[i], plan[n].columns) = plan[n].columns
      BY <2>1 DEF Merged
    <2> QED
      BY <1>3, <1>4, <1>6, <1>7, <1>8, <2>2 DEF Outcome, ChangeOK
  <1>9. CASE plan[n].id # NewId
    <2>1. plan[n].id = i
      BY <1>3, <1>9 DEF Writes
    <2>2. reg[i] \in TraineeRow
      BY <1>7, <1>9, <2>1 DEF ChangeOK, Known, Registers
    <2> QED
      BY <1>3, <1>4, <1>6, <1>7, <1>9, <2>1, <2>2 DEF Outcome, ChangeOK
  <1> QED
    BY <1>8, <1>9

(* Storing keeps to the columns and forgets nobody.                         *)
LEMMA StoredType ==
  ASSUME NEW reg \in Registers, NEW plan, ChangesOK(reg, plan), NEW k \in 0..Len(plan)
  PROVE  Stored(reg, plan, k) \in Registers /\ Known(reg) \subseteq Known(Stored(reg, plan, k))
  <1> DEFINE new == Stored(reg, plan, k)
  <1>1. new = [i \in TraineeIds |-> new[i]]
    BY DEF Stored
  <1>2. \A i \in TraineeIds : new[i] = reg[i] \/ new[i] \in TraineeRow
    BY StoredRow
  <1> HIDE DEF new
  <1>3. new \in Registers
    BY <1>1, <1>2 DEF Registers
  <1>4. Known(reg) \subseteq Known(new)
    BY <1>2, RegistryAssumption DEF Known
  <1> QED
    BY <1>3, <1>4 DEF new

(* A sound plan is stored as a whole: the database has nothing to refuse.   *)
LEMMA SoundIsStored ==
  ASSUME NEW reg \in Registers, Unique(reg), NEW plan, ChangesOK(reg, plan), Sound(reg, plan)
  PROVE  ~Refused(reg, plan)
  <1>1. SUFFICES ASSUME NEW k \in 1..Len(plan), NEW i \in TraineeIds, NEW j \in TraineeIds, i # j,
                        Stored(reg, plan, k)[i] # None, Stored(reg, plan, k)[j] # None
                 PROVE  Apart(Stored(reg, plan, k)[i], Stored(reg, plan, k)[j])
    BY DEF Refused, Unique, Known, Apart
  <1> DEFINE new == Stored(reg, plan, k)
             Made(n, x) == /\ n \in 1..Len(plan) /\ Writes(reg, plan, n, x)
                              /\ new[x] = Outcome(reg, plan[n])
  <1>2. k \in 0..Len(plan)
    BY DEF ChangesOK
  <1>3. \A x \in TraineeIds : new[x] = reg[x] \/ \E n \in 1..Len(plan) : Made(n, x)
    BY <1>2, StoredRow
  <1>4. \A n, x : Made(n, x) /\ x \in TraineeIds =>
            \A y \in Known(reg) : y # x => Apart(reg[y], new[x])
    <2>1. SUFFICES ASSUME NEW n, NEW x \in TraineeIds, Made(n, x), NEW y \in Known(reg), y # x
                   PROVE  Apart(reg[y], new[x])
      OBVIOUS
    <2>2. y # plan[n].id
      BY <2>1, IdsType DEF Writes, Known
    <2> QED
      BY <2>1, <2>2 DEF Sound
  <1>5. CASE new[i] = reg[i] /\ new[j] = reg[j]
    BY <1>1, <1>5 DEF Unique, Known, Apart
  <1>6. CASE new[i] = reg[i] /\ \E n \in 1..Len(plan) : Made(n, j)
    <2>1. i \in Known(reg)
      BY <1>1, <1>6 DEF Known
    <2> QED
      BY <1>1, <1>4, <1>6, <2>1
  <1>7. CASE new[j] = reg[j] /\ \E n \in 1..Len(plan) : Made(n, i)
    <2>1. j \in Known(reg)
      BY <1>1, <1>7 DEF Known
    <2>2. Apart(new[j], new[i])
      BY <1>1, <1>4, <1>7, <2>1
    <2> QED
      BY <2>2 DEF Apart
  <1>8. ASSUME NEW n \in 1..Len(plan), NEW m \in 1..Len(plan), Made(n, i), Made(m, j)
        PROVE  Apart(new[i], new[j])
    <2>1. n # m
      BY <1>1, <1>8, OneToOne
    <2> QED
      BY <1>8, <2>1 DEF Sound
  <1> QED
    BY <1>3, <1>5, <1>6, <1>7, <1>8

-----------------------------------------------------------------------------

Names == {"emp", "phone", "email", "channel", "active"}

(* A row has five columns.                                                  *)
LEMMA RowFields ==
  ASSUME NEW row \in TraineeRow
  PROVE  /\ DOMAIN row = Names
         /\ row.emp \in Emps \cup {NoEmp} /\ row.phone \in Phones /\ row.email \in BOOLEAN
         /\ row.channel \in {"sms", "email"} /\ row.active \in BOOLEAN
         /\ row # None
  BY RegistryAssumption DEF TraineeRow, Names

(* A function with the columns of rows is a row.                            *)
LEMMA RowOf ==
  ASSUME NEW f, f = [c \in Names |-> f[c]],
         f.emp \in Emps \cup {NoEmp}, f.phone \in Phones, f.email \in BOOLEAN,
         f.channel \in {"sms", "email"}, f.active \in BOOLEAN
  PROVE  f \in TraineeRow
  BY DEF TraineeRow, Names

(* What a row of a file makes of a trainee: all but the employee number.    *)
LEMMA WrittenOver ==
  ASSUME NEW old \in TraineeRow, NEW row \in TraineeRow
  PROVE  LET after == Merged(old, Written(row))
         IN  /\ after \in TraineeRow
             /\ after.emp = old.emp /\ after.phone = row.phone
             /\ after.email = row.email /\ after.channel = row.channel
  <1> DEFINE after == Merged(old, Written(row))
  <1>1. DOMAIN Written(row) = Names \ {"emp"}
    BY RowFields DEF Written, Columns
  <1>2. \A c \in Names \ {"emp"} : Written(row)[c] = row[c]
    BY RowFields DEF Written, Columns
  <1>3. after = [c \in Names |-> IF c \in Names \ {"emp"} THEN Written(row)[c] ELSE old[c]]
    BY <1>1, RowFields DEF Merged
  <1>4. after = [c \in Names |-> after[c]]
    BY <1>3
  <1>5. /\ after.emp = old.emp /\ after.phone = row.phone /\ after.email = row.email
        /\ after.channel = row.channel /\ after.active = row.active
    BY <1>2, <1>3 DEF Names
  <1> HIDE DEF after
  <1>6. after \in TraineeRow
    BY <1>4, <1>5, RowFields, RowOf
  <1> QED
    BY <1>5, <1>6 DEF after

(* What a form makes of the trainee it was filled from, and of any other    *)
(* version of the trainee: the phone number stays.                          *)
LEMMA EditedOver ==
  ASSUME NEW old \in TraineeRow, NEW row \in TraineeRow, NEW base \in TraineeRow
  PROVE  LET after == Merged(old, Edited(base, row))
         IN  /\ after \in TraineeRow
             /\ after.phone = old.phone
             /\ old = base => /\ after.emp = row.emp /\ after.email = row.email
                              /\ after.channel = row.channel
  <1> DEFINE after == Merged(old, Edited(base, row))
             edited == {c \in Names \ {"phone"} : row[c] # base[c]}
  <1>1. DOMAIN Edited(base, row) = edited
    BY RowFields DEF Edited, Columns
  <1>2. \A c \in edited : Edited(base, row)[c] = row[c]
    BY RowFields DEF Edited, Columns
  <1>3. after = [c \in Names |-> IF c \in edited THEN Edited(base, row)[c] ELSE old[c]]
    BY <1>1, RowFields DEF Merged
  <1>4. after = [c \in Names |-> after[c]]
    BY <1>3
  <1>5. \A c \in Names : after[c] = IF c \in edited THEN row[c] ELSE old[c]
    BY <1>2, <1>3
  <1>6. after.phone = old.phone
    BY <1>5 DEF Names
  <1>7. /\ after.emp \in {row.emp, old.emp} /\ after.email \in {row.email, old.email}
        /\ after.channel \in {row.channel, old.channel}
        /\ after.active \in {row.active, old.active}
    BY <1>5 DEF Names
  <1>8. old = base => after.emp = row.emp /\ after.email = row.email /\ after.channel = row.channel
    BY <1>5 DEF Names
  <1> HIDE DEF after
  <1>9. after \in TraineeRow
    BY <1>4, <1>6, <1>7, RowFields, RowOf
  <1> QED
    BY <1>6, <1>8, <1>9 DEF after

(* create_trainee() makes of a row an active trainee.                       *)
LEMMA CreatedRow ==
  ASSUME NEW row \in TraineeRow
  PROVE  /\ Created(row) \in TraineeRow
         /\ Created(row).emp = row.emp /\ Created(row).phone = row.phone
         /\ Created(row).email = row.email /\ Created(row).channel = row.channel
  BY DEF Created, TraineeRow

-----------------------------------------------------------------------------

(* A single change is a plan.                                               *)
LEMMA OneChange ==
  ASSUME NEW reg \in Registers, NEW change, ChangeOK(reg, change)
  PROVE  /\ ChangesOK(reg, <<change>>)
         /\ Reachable(Outcome(reg, change))
            /\ (\A j \in Known(reg) : j # change.id => Apart(reg[j], Outcome(reg, change)))
            => Sound(reg, <<change>>)
  <1>1. Len(<<change>>) = 1 /\ <<change>>[1] = change /\ 1..1 = {1}
    OBVIOUS
  <1> QED
    BY <1>1 DEF ChangesOK, Sound

(* The form for a new trainee.                                              *)
LEMMA CreateIsSound ==
  ASSUME NEW reg \in Registers, NEW row \in TraineeRow, row.emp # NoEmp, row.email,
         Holders(reg, "phone", row.phone) = {}, Holders(reg, "emp", row.emp) = {}
  PROVE  /\ ChangesOK(reg, <<Change(NewId, Created(row))>>)
         /\ Sound(reg, <<Change(NewId, Created(row))>>)
  <1> DEFINE change == Change(NewId, Created(row))
  <1>1. change.id = NewId /\ change.columns = Created(row)
    BY DEF Change
  <1> HIDE DEF change
  <1>2. ChangeOK(reg, change) /\ Outcome(reg, change) = Created(row)
    BY <1>1, CreatedRow DEF ChangeOK, Outcome
  <1>3. Reachable(Created(row))
    BY CreatedRow DEF Reachable
  <1>4. \A j \in Known(reg) : Apart(reg[j], Created(row))
    BY CreatedRow DEF Holders, Apart
  <1> QED
    BY <1>2, <1>3, <1>4, OneChange DEF change

(* The form for a trainee who is known.                                     *)
LEMMA EditIsSound ==
  ASSUME NEW reg \in Registers, Unique(reg), NEW i \in Known(reg), NEW row \in TraineeRow,
         Reachable(row), row.emp \in {NoEmp, reg[i].emp} \/ Holders(reg, "emp", row.emp) = {}
  PROVE  /\ ChangesOK(reg, <<Change(i, Edited(reg[i], row))>>)
         /\ Sound(reg, <<Change(i, Edited(reg[i], row))>>)
  <1> DEFINE change == Change(i, Edited(reg[i], row))
             after == Merged(reg[i], Edited(reg[i], row))
  <1>1. change.id = i /\ change.columns = Edited(reg[i], row) /\ i # NewId
    BY IdsType DEF Change, Known
  <1>2. reg[i] \in TraineeRow
    BY DEF Registers, Known
  <1>3. /\ after \in TraineeRow /\ after.phone = reg[i].phone /\ after.emp = row.emp
        /\ after.email = row.email /\ after.channel = row.channel
    BY <1>2, EditedOver
  <1>4. \A old \in TraineeRow : Merged(old, change.columns) \in TraineeRow
    BY <1>1, <1>2, EditedOver
  <1>5. Outcome(reg, change) = after
    BY <1>1 DEF Outcome
  <1> HIDE DEF change, after
  <1>6. ChangeOK(reg, change)
    BY <1>1, <1>4 DEF ChangeOK
  <1>7. Reachable(after)
    BY <1>3 DEF Reachable
  <1>8. \A j \in Known(reg) : j # i => Apart(reg[j], after)
    BY <1>3 DEF Holders, Apart, Unique
  <1> QED
    BY <1>1, <1>5, <1>6, <1>7, <1>8, OneChange DEF change

(* A file that plan_trainees_import() found clean.                          *)
LEMMA ImportIsSound ==
  ASSUME NEW reg \in Registers, Unique(reg), NEW file \in Files, Len(file) > 0, Clean(reg, file)
  PROVE  ChangesOK(reg, Plan(reg, file)) /\ Sound(reg, Plan(reg, file))
  <1> DEFINE plan == Plan(reg, file)
             known(n) == Holders(reg, "emp", file[n].emp)
  <1>1. PICK size \in 1..MaxFileRows : file \in [1..size -> FileRows]
    BY DEF Files
  <1>2. size \in Nat \ {0} /\ Len(file) = size /\ file \in Seq(FileRows)
    BY <1>1, RegistryAssumption
  <1>3. plan = [n \in 1..size |->
                  IF known(n) = {} THEN Change(NewId, Created(file[n]))
                  ELSE Change(CHOOSE i \in known(n) : TRUE, Written(file[n]))]
    BY <1>2 DEF Plan
  <1>4. Len(plan) = size
    <2> DEFINE S == {plan[n] : n \in 1..size}
    <2>1. plan \in [1..size -> S]
      BY <1>3
    <2> HIDE DEF plan, S
    <2>2. plan \in Seq(S)
      BY <1>2, <2>1
    <2>3. DOMAIN plan = 1..size /\ DOMAIN plan = 1..Len(plan) /\ Len(plan) \in Nat
      BY <2>1, <2>2
    <2> QED
      BY <1>2, <2>3
  <1>5. \A n \in 1..size : file[n] \in TraineeRow /\ CleanRow(reg, file, n)
    BY <1>1, <1>2, RegistryAssumption DEF Clean
  \* Of each row: the trainee it is about, and the row it leaves.
  <1>6. ASSUME NEW n \in 1..size
        PROVE  /\ ChangeOK(reg, plan[n])
               /\ Outcome(reg, plan[n]).emp = file[n].emp
               /\ Outcome(reg, plan[n]).phone = file[n].phone
               /\ Reachable(Outcome(reg, plan[n]))
               /\ plan[n].id = NewId => known(n) = {}
               /\ plan[n].id # NewId => plan[n].id \in known(n)
    <2>0. file[n] \in TraineeRow /\ Reachable(file[n])
      BY <1>5 DEF CleanRow
    <2>1. CASE known(n) = {}
      <3>1. plan[n].id = NewId /\ plan[n].columns = Created(file[n])
        BY <1>3, <2>1 DEF Change
      <3>2. ChangeOK(reg, plan[n]) /\ Outcome(reg, plan[n]) = Created(file[n])
        BY <2>0, <3>1, CreatedRow DEF ChangeOK, Outcome
      <3>3. Reachable(Created(file[n]))
        BY <2>0, CreatedRow DEF Reachable
      <3> QED
        BY <2>0, <2>1, <3>1, <3>2, <3>3, CreatedRow
    <2>2. CASE known(n) # {}
      <3>1. PICK i \in known(n) : plan[n].id = i /\ plan[n].columns = Written(file[n])
        BY <1>3, <2>2 DEF Change
      <3>2. i \in Known(reg) /\ reg[i].emp = file[n].emp /\ i # NewId /\ reg[i] \in TraineeRow
        BY <3>1, IdsType DEF Holders, Known, Registers
      <3> DEFINE after == Merged(reg[i], Written(file[n]))
      <3>3. /\ after.emp = reg[i].emp /\ after.phone = file[n].phone
            /\ after.email = file[n].email /\ after.channel = file[n].channel
        BY <2>0, <3>2, WrittenOver
      <3>4. \A old \in TraineeRow : Merged(old, plan[n].columns) \in TraineeRow
        BY <2>0, <3>1, WrittenOver
      <3>5. Outcome(reg, plan[n]) = after
        BY <3>1, <3>2 DEF Outcome
      <3> HIDE DEF after
      <3>6. Reachable(after)
        BY <2>0, <3>3 DEF Reachable
      <3>7. ChangeOK(reg, plan[n])
        BY <3>1, <3>2, <3>4 DEF ChangeOK
      <3> QED
        BY <3>1, <3>2, <3>3, <3>5, <3>6, <3>7
    <2> QED
      BY <2>1, <2>2
  <1>7. \A n, m \in 1..size : n # m => file[n].emp # file[m].emp /\ file[n].phone # file[m].phone
    <2>1. \A n, m \in 1..size : m < n => file[n].emp # file[m].emp /\ file[n].phone # file[m].phone
      <3>1. SUFFICES ASSUME NEW n \in 1..size, NEW m \in 1..size, m < n
                     PROVE  file[n].emp # file[m].emp /\ file[n].phone # file[m].phone
        OBVIOUS
      <3>2. m \in 1..(n - 1) /\ ~Repeated(file, n)
        BY <1>5, <3>1 DEF CleanRow
      <3> QED
        BY <3>2 DEF Repeated
    <2> QED
      BY <2>1
  <1>8. \A n, m \in 1..size : n # m => plan[n].id = NewId \/ plan[n].id # plan[m].id
    BY <1>6, <1>7 DEF Holders
  <1>9. \A n, m \in 1..size : n # m => Apart(Outcome(reg, plan[n]), Outcome(reg, plan[m]))
    BY <1>6, <1>7 DEF Apart
  <1>10. ASSUME NEW n \in 1..size, NEW j \in Known(reg), j # plan[n].id
         PROVE  Apart(reg[j], Outcome(reg, plan[n]))
    <2>1. file[n].emp # NoEmp /\ NotTaken(reg, file[n])
      BY <1>5 DEF CleanRow
    <2>2. reg[j].emp # file[n].emp
      <3>1. SUFFICES ASSUME j \in known(n) PROVE FALSE
        BY <1>10 DEF Holders
      <3>2. plan[n].id \in known(n)
        BY <1>6, <3>1
      <3> QED
        BY <1>10, <2>1, <3>1, <3>2 DEF Holders, Unique
    <2>3. reg[j].phone # file[n].phone
      BY <1>10, <2>1, <2>2 DEF NotTaken, Holders
    <2> QED
      BY <1>6, <2>2, <2>3 DEF Apart
  <1> HIDE DEF plan
  <1>11. ChangesOK(reg, plan)
    BY <1>2, <1>4, <1>6, <1>8 DEF ChangesOK
  <1>12. Sound(reg, plan)
    BY <1>4, <1>6, <1>9, <1>10 DEF Sound
  <1> QED
    BY <1>11, <1>12 DEF plan

-----------------------------------------------------------------------------

(* A plan stays one while the register grows.                               *)
LEMMA PlanStays ==
  ASSUME NEW reg, NEW new, Known(reg) \subseteq Known(new), NEW plan, ChangesOK(reg, plan)
  PROVE  ChangesOK(new, plan)
  BY DEF ChangesOK, ChangeOK

(* Opening a request.                                                       *)
LEMMA OpenStep ==
  ASSUME RegistryInv, NEW m \in Managers, NEW plan, Open(m, plan),
         ChangesOK(trainees, plan), Sound(trainees, plan)
  PROVE  RegistryInv'
  <1>1. /\ trainees' = trainees
        /\ desk' = [desk EXCEPT ![m] = [pc |-> "write", plan |-> plan, fresh |-> TRUE]]
    BY DEF Open
  <1>2. desk' = [o \in Managers |-> desk'[o]]
    BY <1>1 DEF RegistryInv
  <1>3. ASSUME NEW o \in Managers
        PROVE  RequestOK(o)'
    <2>1. CASE o = m
      <3>1. desk'[o] = [pc |-> "write", plan |-> plan, fresh |-> TRUE]
        BY <1>1, <2>1 DEF RegistryInv
      <3>2. desk'[o].plan = plan /\ desk'[o].fresh = TRUE
        BY <3>1
      <3>3. desk'[o] = [pc |-> "write", plan |-> desk'[o].plan, fresh |-> desk'[o].fresh]
        BY <3>1, <3>2, Zenon
      <3>4. ChangesOK(trainees', desk'[o].plan) /\ Sound(trainees', desk'[o].plan)
        BY <1>1, <3>2, Zenon
      <3> QED
        BY <3>2, <3>3, <3>4 DEF RequestOK
    <2>2. CASE o # m
      <3>1. desk'[o] = desk[o]
        BY <1>1, <2>2 DEF RegistryInv
      <3> QED
        BY <1>1, <3>1 DEF RegistryInv, RequestOK
    <2> QED
      BY <2>1, <2>2
  <1>4. trainees' \in Registers /\ Unique(trainees)'
    BY <1>1 DEF RegistryInv, Unique, Known
  <1> QED
    BY <1>2, <1>3, <1>4 DEF RegistryInv

(* What a commit leaves of the register, and of the other requests.         *)
LEMMA SaveStep ==
  ASSUME RegistryInv, NEW m \in Managers, Save(m)
  PROVE  /\ RegistryInv'
         /\ desk[m] # NoRequest /\ desk'[m] = NoRequest /\ RequestOK(m)
         /\ trainees' = trainees \/ trainees' = Apply(trainees, desk[m].plan)
  <1> DEFINE plan == desk[m].plan
             after == Apply(trainees, plan)
             done == ~Refused(trainees, plan) /\ after # trainees
  <1>1. /\ desk[m] # NoRequest
        /\ trainees' = IF done THEN after ELSE trainees
        /\ desk' = [o \in Managers |-> IF o = m THEN NoRequest
                                       ELSE IF done THEN Stale(desk[o]) ELSE desk[o]]
    BY DEF Save
  <1>2. RequestOK(m) /\ ChangesOK(trainees, plan)
    BY <1>1 DEF RegistryInv, RequestOK
  <1>3. trainees \in Registers /\ Unique(trainees)
    BY DEF RegistryInv
  <1>4. Len(plan) \in 1..Len(plan) /\ Len(plan) \in 0..Len(plan)
    BY <1>2 DEF ChangesOK
  <1>5. after \in Registers /\ Known(trainees) \subseteq Known(after)
    BY <1>2, <1>3, <1>4, StoredType DEF Apply
  <1>6. done => Unique(after)
    BY <1>4 DEF Refused, Apply
  <1>7. desk' = [o \in Managers |-> desk'[o]] /\ desk'[m] = NoRequest
    BY <1>1
  <1>8. CASE done
    <2>1. trainees' = after
      BY <1>1, <1>8
    <2>2. ASSUME NEW o \in Managers
          PROVE  RequestOK(o)'
      <3>1. RequestOK(o)
        BY DEF RegistryInv
      <3>2. CASE o = m \/ desk[o] = NoRequest
        BY <1>1, <1>8, <3>2 DEF RequestOK, Stale
      <3>3. CASE o # m /\ desk[o] # NoRequest
        <4>1. desk'[o] = [desk[o] EXCEPT !.fresh = FALSE]
          BY <1>1, <1>8, <3>3 DEF Stale
        <4>2. /\ desk[o] = [pc |-> "write", plan |-> desk[o].plan, fresh |-> desk[o].fresh]
              /\ ChangesOK(trainees, desk[o].plan)
          BY <3>1, <3>3 DEF RequestOK
        <4>3. PICK p, f : /\ desk[o] = [pc |-> "write", plan |-> p, fresh |-> f]
                          /\ ChangesOK(trainees, p)
          BY <4>2, Zenon
        <4>4. desk'[o] = [pc |-> "write", plan |-> p, fresh |-> FALSE]
          <5>1. \A d, b : d = [pc |-> "write", plan |-> p, fresh |-> f]
                     => [d EXCEPT !.fresh = b] = [pc |-> "write", plan |-> p, fresh |-> b]
            OBVIOUS
          <5> QED
            BY <4>1, <4>3, <5>1, Zenon
        <4>5. desk'[o].plan = p /\ desk'[o].fresh = FALSE
          BY <4>4
        <4>6. desk'[o] = [pc |-> "write", plan |-> desk'[o].plan, fresh |-> desk'[o].fresh]
          BY <4>4, <4>5, Zenon
        <4>7. ChangesOK(after, p)
          BY <1>5, <4>3, PlanStays
        <4>8. ChangesOK(trainees', desk'[o].plan)
          BY <2>1, <4>5, <4>7, Zenon
        <4> QED
          BY <4>5, <4>6, <4>8 DEF RequestOK
      <3> QED
        BY <3>2, <3>3
    <2> HIDE DEF after
    <2>3. trainees' \in Registers /\ Unique(trainees)'
      BY <1>5, <1>6, <1>8, <2>1 DEF Unique, Known
    <2>4. RegistryInv'
      BY <1>7, <2>2, <2>3 DEF RegistryInv
    <2> QED
      BY <1>1, <1>2, <1>7, <2>1, <2>4 DEF after
  <1>9. CASE ~done
    <2>1. trainees' = trainees
      BY <1>1, <1>9
    <2>2. ASSUME NEW o \in Managers
          PROVE  RequestOK(o)'
      <3>1. RequestOK(o)
        BY DEF RegistryInv
      <3>2. desk'[o] = NoRequest \/ desk'[o] = desk[o]
        BY <1>1, <1>9
      <3> QED
        BY <2>1, <3>1, <3>2 DEF RequestOK
    <2>3. trainees' \in Registers /\ Unique(trainees)'
      BY <1>3, <2>1 DEF Unique, Known
    <2>4. RegistryInv'
      BY <1>7, <2>2, <2>3 DEF RegistryInv
    <2> QED
      BY <1>1, <1>2, <1>7, <2>1, <2>4
  <1> QED
    BY <1>8, <1>9

(* Only a commit changes the register.                                      *)
LEMMA RegistryStep ==
  ASSUME RegistryInv, [RegistryNext]_registryVars
  PROVE  RegistryInv' /\ (trainees' = trainees \/ \E m \in Managers : Save(m))
  <1>1. CASE UNCHANGED registryVars
    BY <1>1 DEF registryVars, RegistryInv, RequestOK, Unique, Known
  <1>2. ASSUME NEW m \in Managers, NEW row \in Forms, Create(m, row)
        PROVE  RegistryInv' /\ trainees' = trainees
    <2>1. /\ ChangesOK(trainees, <<Change(NewId, Created(row))>>)
          /\ Sound(trainees, <<Change(NewId, Created(row))>>)
      BY <1>2, CreateIsSound, RegistryAssumption DEF Create, RegistryInv
    <2> QED
      BY <1>2, <2>1, OpenStep DEF Create, Open
  <1>3. ASSUME NEW m \in Managers, NEW i \in Known(trainees), NEW row \in Forms, Edit(m, i, row)
        PROVE  RegistryInv' /\ trainees' = trainees
    <2>1. /\ ChangesOK(trainees, <<Change(i, Edited(trainees[i], row))>>)
          /\ Sound(trainees, <<Change(i, Edited(trainees[i], row))>>)
      BY <1>3, EditIsSound, RegistryAssumption DEF Edit, RegistryInv
    <2> QED
      BY <1>3, <2>1, OpenStep DEF Edit, Open
  <1>4. ASSUME NEW m \in Managers, NEW file \in Files, Import(m, file)
        PROVE  RegistryInv' /\ trainees' = trainees
    <2>1. ChangesOK(trainees, Plan(trainees, file)) /\ Sound(trainees, Plan(trainees, file))
      BY <1>4, ImportIsSound DEF Import, RegistryInv
    <2> QED
      BY <1>4, <2>1, OpenStep DEF Import, Open
  <1>5. ASSUME NEW m \in Managers, Save(m)
        PROVE  RegistryInv'
    BY <1>5, SaveStep
  <1>6. ASSUME NEW m \in Managers, Abandon(m)
        PROVE  RegistryInv' /\ trainees' = trainees
    <2>1. trainees' = trainees /\ desk' = [desk EXCEPT ![m] = NoRequest]
      BY <1>6 DEF Abandon
    <2>2. desk' = [o \in Managers |-> desk'[o]]
      BY <2>1 DEF RegistryInv
    <2>3. \A o \in Managers : desk'[o] = NoRequest \/ desk'[o] = desk[o]
      BY <2>1 DEF RegistryInv
    <2>4. \A o \in Managers : RequestOK(o)'
      BY <2>1, <2>3 DEF RegistryInv, RequestOK
    <2> QED
      BY <2>1, <2>2, <2>4 DEF RegistryInv, Unique, Known
  <1> QED
    BY <1>1, <1>2, <1>3, <1>4, <1>5, <1>6 DEF RegistryNext, registryVars

(* The first trainees are from before there were requests.                  *)
LEMMA RegistryStart == RegistryInit => RegistryInv
  BY RegistryAssumption DEF RegistryInit, RegistryInv, Registers, RequestOK

LEMMA RegistryInvariance == RegistrySpec => []RegistryInv
  BY RegistryStart, RegistryStep, PTL DEF RegistrySpec

-----------------------------------------------------------------------------

(* The register and its requests keep their types, and phone and employee   *)
(* numbers are unique.                                                      *)
THEOREM RegistryTypesCorrect == RegistrySpec => []RegistryTypeOK
  <1>1. RegistryInv => RegistryTypeOK
    BY DEF RegistryInv, RegistryTypeOK, Registers, RequestOK
  <1> QED
    BY <1>1, RegistryInvariance, PTL

(* What the forms and plan_trainees_import() accept is never refused by the *)
(* database, row by row, unless another request was committed since.        *)
THEOREM CleanPlansAreStored == RegistrySpec => []CleanIsStored
  <1>1. RegistryInv => CleanIsStored
    BY SoundIsStored DEF RegistryInv, RequestOK, CleanIsStored
  <1> QED
    BY <1>1, RegistryInvariance, PTL

(* What a commit that was not overtaken makes of a trainee who is known.    *)
LEMMA FreshSave ==
  ASSUME RegistryInv, NEW m \in Managers, Save(m), ~Overlapped(m), NEW i \in TraineeIds
  PROVE  \/ trainees'[i] = trainees[i]
         \/ /\ trainees'[i] \in TraineeRow /\ Reachable(trainees'[i])
            /\ \A j \in Known(trainees) : j # i => Apart(trainees[j], trainees'[i])
  <1> DEFINE plan == desk[m].plan
  <1>1. /\ trainees \in Registers
        /\ trainees' = trainees \/ trainees' = Stored(trainees, plan, Len(plan))
    BY SaveStep DEF Apply, RegistryInv
  <1>2. /\ ChangesOK(trainees, plan) /\ Sound(trainees, plan)
        /\ Len(plan) \in 0..Len(plan)
    <2>1. desk[m] # NoRequest /\ desk'[m] = NoRequest /\ RequestOK(m)
      BY SaveStep
    <2>2. desk[m].fresh
      BY <2>1, Zenon DEF Overlapped
    <2>3. ChangesOK(trainees, plan) /\ Sound(trainees, plan)
      BY <2>1, <2>2, Zenon DEF RequestOK
    <2> HIDE DEF plan
    <2>4. Len(plan) \in 0..Len(plan)
      BY <2>3 DEF ChangesOK
    <2> QED
      BY <2>3, <2>4
  <1> HIDE DEF plan
  <1>3. SUFFICES ASSUME NEW n \in 1..Len(plan), Writes(trainees, plan, n, i),
                        trainees'[i] = Outcome(trainees, plan[n]),
                        Outcome(trainees, plan[n]) \in TraineeRow
                 PROVE  /\ Reachable(trainees'[i])
                        /\ \A j \in Known(trainees) : j # i => Apart(trainees[j], trainees'[i])
    BY <1>1, <1>2, StoredRow
  <1>4. \A j \in Known(trainees) : j # i => j # plan[n].id
    BY <1>3, IdsType DEF Writes, Known
  <1> QED
    BY <1>2, <1>3, <1>4 DEF Sound

(* A phone number does not move from one trainee to another, unless the     *)
(* change was planned from a register that is gone.                         *)
THEOREM PhonesStayPut == RegistrySpec => PhonesStay
  <1>1. ASSUME RegistryInv, [RegistryNext]_registryVars, Moves(trainees, trainees')
        PROVE  \E m \in Managers : Overlapped(m)
    <2>1. PICK i \in Known(trainees), j \in Known(trainees) :
              i # j /\ trainees'[j].phone = trainees[i].phone
      BY <1>1 DEF Moves
    <2>2. trainees'[j] # trainees[j]
      BY <1>1, <2>1 DEF RegistryInv, Unique
    <2>3. PICK m \in Managers : Save(m)
      BY <1>1, <2>2, RegistryStep
    <2>4. ~Overlapped(m) => trainees'[j].phone # trainees[i].phone
      BY <1>1, <2>1, <2>2, <2>3, FreshSave DEF Known, Apart
    <2> QED
      BY <2>1, <2>4
  <1> QED
    BY <1>1, RegistryInvariance, PTL DEF RegistrySpec, PhonesStay

(* Nobody loses the address that the channel needs, unless two requests     *)
(* overlapped.                                                              *)
THEOREM TraineesStayReachable == RegistrySpec => ReachableUnlessOverlapped
  <1>1. ASSUME RegistryInv, [RegistryNext]_registryVars,
               \A i \in Known(trainees) : Reachable(trainees[i]),
               ~\E m \in Managers : Overlapped(m)
        PROVE  \A i \in Known(trainees') : Reachable(trainees'[i])
    <2>1. SUFFICES ASSUME NEW i \in Known(trainees'), trainees'[i] # trainees[i]
                   PROVE  Reachable(trainees'[i])
      BY <1>1 DEF Known
    <2>2. PICK m \in Managers : Save(m)
      BY <1>1, <2>1, RegistryStep
    <2> QED
      BY <1>1, <2>1, <2>2, FreshSave DEF Known
  <1> QED
    BY <1>1, RegistryInvariance, PTL DEF RegistrySpec, ReachableUnlessOverlapped
=============================================================================
