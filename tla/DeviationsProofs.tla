-------------------------- MODULE DeviationsProofs --------------------------
(***************************************************************************)
(* Proofs about TicketNumbers and Deviations, for any number of concurrent *)
(* transactions and any control points and checklists.                     *)
(*                                                                         *)
(* That every deviation has a ticket of its own needs nothing of the order *)
(* of the numbers: UniqueInv is what the UNIQUE column and the wait on it  *)
(* buy.  That the numbers have no gaps, and that measurements never        *)
(* collide, holds as long as the numbers fit their width, where text order *)
(* and numeric order agree: RunInv says that uncommitted numbers continue  *)
(* the committed ones, in one transaction at a time.                       *)
(***************************************************************************)
EXTENDS Deviations, FiniteSetTheorems, TLAPS

\* No number of the year outgrows the width it is padded to.  (That the power
\* is a natural number is arithmetic that the provers do not know.)
Fits == Base ^ Width \in Nat /\ MaxNumber < Base ^ Width

Types ==
  /\ numbers \subseteq Nat \ {0}
  /\ chosen \in [Creators -> Nat]
  /\ written \in [Creators -> SUBSET (Nat \ {0})]
  /\ chain \in Creators \cup {Nobody}

\* No number is written twice, or again after it was committed.
UniqueInv ==
  /\ \A c \in Creators : written[c] \cap numbers = {}
  /\ \A c, d \in Creators : c # d => written[c] \cap written[d] = {}

-----------------------------------------------------------------------------

(* Every step of a transaction keeps the types and the numbers unique,      *)
(* whatever the column's order is.                                          *)
LEMMA UniqueStep ==
  ASSUME Types, UniqueInv, NEW c \in Creators, Create(c)
  PROVE  Types' /\ UniqueInv'
  <1> USE DEF Types, UniqueInv
  <1>1. CASE Generate(c)
    <2>1. Seen(c) \subseteq Nat
      BY DEF Seen
    <2>2. chosen' \in [Creators -> Nat]
      BY <1>1, <2>1 DEF Generate, IsNewest
    <2> QED
      BY <1>1, <2>2 DEF Generate
  <1>2. CASE Insert(c)
    BY <1>2 DEF Insert
  <1>3. CASE Record(c)
    BY <1>3 DEF Record
  <1>4. CASE Commit(c)
    BY <1>4 DEF Commit
  <1>5. CASE Rollback(c)
    BY <1>5 DEF Rollback, Released
  <1> QED
    BY <1>1, <1>2, <1>3, <1>4, <1>5 DEF Create, Collide, Abort, GiveUp

(* The transactions of HACCP and SALSA are transactions that create tickets *)
(* in one of the orders TicketNumbers allows.                               *)
LEMMA DevStep ==
  ASSUME [DevNext]_everything
  PROVE  [Next]_vars
  <1>1. CASE UNCHANGED everything
    BY <1>1 DEF everything
  <1>2. ASSUME NEW c \in Creators, NEW p \in DOMAIN Points, NEW entry \in Entries(p),
               Store(c, p, entry) \/ Deviate(c, p, entry) \/ Refuse(c, p, entry)
        PROVE  UNCHANGED vars \/ Record(c)
    BY <1>2 DEF Store, Deviate, Refuse, Due, Enter, Record, vars
  <1>3. ASSUME NEW c \in Creators, Record(c)
        PROVE  Next
    BY <1>3 DEF Create, Next
  <1>4. ASSUME DevNext
        PROVE  Next \/ UNCHANGED vars
    <2>1. PICK c \in Creators :
            \/ \E p \in DOMAIN Points : \E entry \in Entries(p) :
                 Store(c, p, entry) \/ Deviate(c, p, entry) \/ Refuse(c, p, entry)
            \/ GenerateOne(c) \/ InsertFor(c) \/ RecordFor(c) \/ Raise(c)
            \/ CollideFor(c) \/ AbortFor(c)
            \/ GiveUp(c) /\ Unwind(c, "given up")
      BY <1>4 DEF DevNext
    <2>2. ASSUME NEW p \in DOMAIN Points, NEW entry \in Entries(p),
                 Store(c, p, entry) \/ Deviate(c, p, entry) \/ Refuse(c, p, entry)
          PROVE  Next \/ UNCHANGED vars
      BY <2>2, <1>2, <1>3
    <2>3. CASE \/ GenerateOne(c) \/ InsertFor(c) \/ RecordFor(c) \/ Raise(c)
               \/ CollideFor(c) \/ AbortFor(c)
               \/ GiveUp(c) /\ Unwind(c, "given up")
      BY <2>3 DEF GenerateOne, InsertFor, RecordFor, Raise, CollideFor, AbortFor, Create, Next
    <2> QED
      BY <2>1, <2>2, <2>3
  <1> QED
    BY <1>1, <1>4

(* HACCP and SALSA hand out ticket numbers as TicketNumbers describes: what *)
(* is proved of the numbers below holds next to them as well.               *)
THEOREM DeviationsImplementNumbers == DevSpec => Spec
  <1>1. DevInit => Init
    BY DEF DevInit
  <1> QED
    BY <1>1, DevStep, PTL DEF DevSpec, Spec

(* The types of the numbers and their uniqueness, of every transaction.     *)
LEMMA NumbersUnique == Spec => [](Types /\ UniqueInv)
  <1>1. Init => Types /\ UniqueInv
    BY DEF Init, Types, UniqueInv
  <1>2. Types /\ UniqueInv /\ [Next]_vars => Types' /\ UniqueInv'
    <2> SUFFICES ASSUME Types, UniqueInv, [Next]_vars
                 PROVE  Types' /\ UniqueInv'
      OBVIOUS
    <2>1. CASE UNCHANGED vars
      BY <2>1 DEF vars, Types, UniqueInv
    <2>2. CASE Next
      BY <2>2, UniqueStep DEF Next
    <2> QED
      BY <2>1, <2>2
  <1> QED
    BY <1>1, <1>2, PTL DEF Spec

-----------------------------------------------------------------------------

\* A transaction that raises a ticket holds the chain, and its point has a line.
WorkInv ==
  /\ work \in [Creators -> DOMAIN Points \cup {Idle}]
  /\ \A c \in Creators : work[c] # Idle =>
       chain = c /\ work[c] \in DOMAIN Points /\ Points[work[c]].line # "none"

\* A stored row without a ticket has ticket 0, which is no number.
StoredInv ==
  /\ \A r \in stored : r.ticket \in Nat /\ (r.ticket # 0 => r.ticket \in numbers)
  /\ DeviationHasTicket

DevInv == Types /\ UniqueInv /\ WorkInv /\ StoredInv

(* The row of a transaction that raises a ticket is as safe as the chain's  *)
(* lock: nobody else has it, and it goes with the transaction.              *)
LEMMA WorkStep ==
  ASSUME DevInv, DevNext
  PROVE  WorkInv'
  <1> USE CreatorsAssumption DEF DevInv, Types, WorkInv
  <1>1. PICK c \in Creators :
          \/ \E p \in DOMAIN Points : \E entry \in Entries(p) :
               Store(c, p, entry) \/ Deviate(c, p, entry) \/ Refuse(c, p, entry)
          \/ GenerateOne(c) \/ InsertFor(c) \/ RecordFor(c) \/ Raise(c)
          \/ CollideFor(c) \/ AbortFor(c)
          \/ GiveUp(c) /\ Unwind(c, "given up")
    BY DEF DevNext
  <1>2. ASSUME NEW p \in DOMAIN Points, NEW entry \in Entries(p),
               Store(c, p, entry) \/ Refuse(c, p, entry)
        PROVE  WorkInv'
    BY <1>2 DEF Store, Refuse, vars
  <1>3. ASSUME NEW p \in DOMAIN Points, NEW entry \in Entries(p), Deviate(c, p, entry)
        PROVE  WorkInv'
    BY <1>3 DEF Deviate, Due, Enter
  <1>4. CASE GenerateOne(c)
    BY <1>4 DEF GenerateOne, Generate, records
  <1>5. CASE InsertFor(c)
    BY <1>5 DEF InsertFor, Insert, records
  <1>6. CASE RecordFor(c)
    BY <1>6 DEF RecordFor, Record, records
  <1>7. CASE Raise(c)
    BY <1>7 DEF Raise, Commit
  <1>8. ASSUME Rollback(c), NEW why, Unwind(c, why)
        PROVE  WorkInv'
    BY <1>8 DEF Rollback, Released, Unwind
  <1>9. CASE CollideFor(c)
    BY <1>8, <1>9 DEF CollideFor, Collide
  <1>10. CASE AbortFor(c)
    BY <1>8, <1>10 DEF AbortFor, Abort
  <1>11. CASE GiveUp(c) /\ Unwind(c, "given up")
    BY <1>8, <1>11 DEF GiveUp
  <1> QED
    BY <1>1, <1>2, <1>3, <1>4, <1>5, <1>6, <1>7, <1>9, <1>10, <1>11

(* Only a commit adds tickets, and the one it adds to a row is new.         *)
LEMMA StoredStep ==
  ASSUME DevInv, DevNext
  PROVE  StoredInv'
  <1> USE DEF DevInv, StoredInv
  <1>1. PICK c \in Creators :
          \/ \E p \in DOMAIN Points : \E entry \in Entries(p) :
               Store(c, p, entry) \/ Deviate(c, p, entry) \/ Refuse(c, p, entry)
          \/ GenerateOne(c) \/ InsertFor(c) \/ RecordFor(c) \/ Raise(c)
          \/ CollideFor(c) \/ AbortFor(c)
          \/ GiveUp(c) /\ Unwind(c, "given up")
    BY DEF DevNext
  <1>2. ASSUME UNCHANGED <<numbers, stored>>
        PROVE  StoredInv'
    BY <1>2 DEF DeviationHasTicket
  <1>3. ASSUME NEW p \in DOMAIN Points, NEW entry \in Entries(p),
               Deviate(c, p, entry) \/ Refuse(c, p, entry)
        PROVE  StoredInv'
    BY <1>2, <1>3 DEF Deviate, Refuse, vars
  <1>4. ASSUME NEW p \in DOMAIN Points, NEW entry \in Entries(p), Store(c, p, entry)
        PROVE  StoredInv'
    <2>1. CASE Conforms(p, entry)
      BY <1>2, <1>4, <2>1 DEF Store, vars
    <2>2. CASE ~Conforms(p, entry)
      <3>1. numbers' = numbers /\ stored' = stored \cup {Entered(p, 0)}
        BY <1>4, <2>2 DEF Store, vars
      <3>2. Points[p].line = "none"
        BY <1>4, <2>2 DEF Store, NeedsTicket
      <3>3. Entered(p, 0).point = p /\ Entered(p, 0).ticket = 0
        BY DEF Entered
      <3> QED
        BY <3>1, <3>2, <3>3 DEF DeviationHasTicket
    <2> QED
      BY <2>1, <2>2
  <1>5. CASE Raise(c)
    <2>1. numbers' = numbers \cup written[c]
      BY <1>5 DEF Raise, Commit
    <2>2. ASSUME NEW r \in stored
          PROVE  Points[r.point].line # "none" => r.ticket \in numbers'
      BY <2>1, <2>2 DEF DeviationHasTicket
    <2>3. CASE work[c] = Idle
      <3>1. stored' = stored
        BY <1>5, <2>3 DEF Raise
      <3> QED
        BY <2>1, <2>2, <3>1 DEF DeviationHasTicket
    <2>4. CASE work[c] # Idle
      <3> DEFINE n == CHOOSE n \in written[c] : TRUE
                 new == Entered(work[c], n)
      <3>1. n \in written[c] /\ stored' = stored \cup {new}
        BY <1>5, <2>4 DEF Raise
      <3>2. n \in Nat \ {0} /\ n \notin numbers
        BY <3>1 DEF Types, UniqueInv
      <3>3. new.point = work[c] /\ new.ticket = n
        BY DEF Entered
      <3> HIDE DEF n, new
      <3>4. \A r \in stored : r.ticket # n
        BY <3>2
      <3>5. \A r \in stored' : r.ticket \in Nat /\ (r.ticket # 0 => r.ticket \in numbers')
        BY <2>1, <3>1, <3>2, <3>3
      <3>6. \A r \in stored' : Points[r.point].line # "none" => r.ticket \in numbers'
        BY <2>1, <2>2, <3>1, <3>3
      <3>7. \A r, s \in stored' : r.ticket = s.ticket /\ r.ticket # 0 => r = s
        BY <3>1, <3>3, <3>4 DEF DeviationHasTicket
      <3> QED
        BY <3>5, <3>6, <3>7 DEF DeviationHasTicket
    <2> QED
      BY <2>3, <2>4
  <1>6. CASE GenerateOne(c)
    BY <1>2, <1>6 DEF GenerateOne, Generate, records
  <1>7. CASE InsertFor(c)
    BY <1>2, <1>7 DEF InsertFor, Insert, records
  <1>8. CASE RecordFor(c)
    BY <1>2, <1>8 DEF RecordFor, Record, records
  <1>9. ASSUME Rollback(c), NEW why, Unwind(c, why)
        PROVE  StoredInv'
    BY <1>2, <1>9 DEF Rollback, Unwind
  <1>10. CASE CollideFor(c)
    BY <1>9, <1>10 DEF CollideFor, Collide
  <1>11. CASE AbortFor(c)
    BY <1>9, <1>11 DEF AbortFor, Abort
  <1>12. CASE GiveUp(c) /\ Unwind(c, "given up")
    BY <1>9, <1>12 DEF GiveUp
  <1> QED
    BY <1>1, <1>3, <1>4, <1>5, <1>6, <1>7, <1>8, <1>10, <1>11, <1>12

LEMMA DevInvHolds == DevSpec => []DevInv
  <1>1. DevInit => DevInv
    BY DEF DevInit, Init, DevInv, Types, UniqueInv, WorkInv, StoredInv, DeviationHasTicket
  <1>2. DevInv /\ [DevNext]_everything => DevInv'
    <2> SUFFICES ASSUME DevInv, [DevNext]_everything
                 PROVE  DevInv'
      OBVIOUS
    <2>1. CASE UNCHANGED everything
      BY <2>1 DEF everything, vars, records, DevInv, Types, UniqueInv, WorkInv, StoredInv,
                  DeviationHasTicket
    <2>2. CASE DevNext
      <3>1. Types' /\ UniqueInv'
        <4>1. CASE UNCHANGED vars
          BY <4>1 DEF DevInv, vars, Types, UniqueInv
        <4>2. CASE Next
          BY <4>2, UniqueStep DEF DevInv, Next
        <4> QED
          BY <2>2, <4>1, <4>2, DevStep
      <3> QED
        BY <2>2, <3>1, WorkStep, StoredStep DEF DevInv
    <2> QED
      BY <2>1, <2>2
  <1> QED
    BY <1>1, <1>2, PTL DEF DevSpec

(* A measurement or a checklist of some line that does not conform is       *)
(* stored with a ticket of its own: whatever collides, deadlocks, fails and *)
(* rolls back, and whichever number the newest by text is.                  *)
THEOREM DeviationsHaveTickets == DevSpec => []DeviationHasTicket
  <1>1. DevInv => DeviationHasTicket
    BY DEF DevInv, StoredInv
  <1> QED
    BY <1>1, DevInvHolds, PTL

-----------------------------------------------------------------------------
\* The numbers while they fit their width.

Last == Cardinality(numbers)
Held(c) == Cardinality(written[c])
BusySet == {c \in Creators : Busy(c)}

\* The committed numbers are 1 .. Last, what a transaction has written goes on
\* from there, and so does what it has generated under the lock of the chain; a
\* number that was generated without the lock may have been given out since.
RunInv ==
  /\ IsFiniteSet(numbers) /\ NoGaps
  /\ \A c \in Creators :
       /\ IsFiniteSet(written[c]) /\ written[c] = Last + 1 .. Last + Held(c)
       /\ Held(c) <= PerCall /\ (chosen[c] # 0 => Held(c) < PerCall)
       /\ chosen[c] # 0 =>
            \/ chain = c /\ chosen[c] = Last + Held(c) + 1
            \/ chain # c /\ written[c] = {} /\ chosen[c] <= Last + 1

\* There is a number left for every ticket of the transactions under way.
CapInv == Last + PerCall * Cardinality(BusySet) <= MaxNumber

NumInv == Types /\ UniqueInv /\ RunInv /\ CapInv

(* While the numbers fit their width, the text order of the column is the   *)
(* order of the numbers: the newest of 1 .. k is k.                         *)
LEMMA NewestIsLast ==
  ASSUME Fits, NEW k \in Nat, k <= MaxNumber, NEW n, IsNewest(1 .. k, n)
  PROVE  n = k
  <1>1. ASSUME NEW m \in 0 .. MaxNumber
        PROVE  Places(m) = Width
    <2> DEFINE Wide(w) == m < Base ^ w /\ \A v \in Width .. w - 1 : Base ^ v <= m
    <2>1. Width \in Width .. Width + MaxNumber /\ Wide(Width)
      BY WidthAssumption, BoundAssumption DEF Fits
    <2>2. ASSUME NEW w \in Width .. Width + MaxNumber, w # Width
          PROVE  ~Wide(w)
      <3>1. Width \in Width .. w - 1
        <4>1. Width \in Int /\ MaxNumber \in Int
          BY WidthAssumption, BoundAssumption
        <4>2. w \in Int /\ Width <= w - 1
          BY <2>2, <4>1
        <4> QED
          BY <4>1, <4>2
      <3>2. ~(Base ^ Width <= m)
        BY BoundAssumption DEF Fits
      <3> QED
        BY <3>1, <3>2
    <2> HIDE DEF Wide
    <2>3. Places(m) = CHOOSE w \in Width .. Width + MaxNumber : Wide(w)
      BY DEF Places, Wide
    <2> QED
      BY <2>1, <2>2, <2>3
  <1>2. ASSUME NEW a \in 0 .. MaxNumber, NEW b \in 0 .. MaxNumber, TextAfter(a, b)
        PROVE  a > b
    BY <1>1, <1>2 DEF TextAfter
  <1>3. n \in 1 .. k /\ \A m \in (1 .. k) \ {n} : TextAfter(n, m)
    BY DEF IsNewest
  <1>4. ASSUME n # k
        PROVE  FALSE
    <2>1. k \in (1 .. k) \ {n}
      BY <1>3, <1>4
    <2>2. n > k
      BY <1>2, <1>3, <2>1, BoundAssumption
    <2> QED
      BY <1>3, <2>2
  <1> QED
    BY <1>4

(* The size of an interval, and of two that follow each other.              *)
LEMMA SizeOfInterval ==
  ASSUME NEW l \in Nat, NEW k \in Nat
  PROVE  /\ IsFiniteSet(l + 1 .. l + k) /\ Cardinality(l + 1 .. l + k) = k
         /\ (l + 1 .. l + k) \cup {l + k + 1} = l + 1 .. l + (k + 1)
         /\ (1 .. l) \cup (l + 1 .. l + k) = 1 .. l + k
  <1>1. l + 1 \in Int /\ l + k \in Int
    OBVIOUS
  <1>2. IsFiniteSet(l + 1 .. l + k)
    BY <1>1, FS_Interval
  <1>3. Cardinality(l + 1 .. l + k) = IF l + 1 > l + k THEN 0 ELSE (l + k) - (l + 1) + 1
    BY <1>1, FS_Interval
  <1>4. Cardinality(l + 1 .. l + k) = k
    BY <1>3
  <1>5. (l + 1 .. l + k) \cup {l + k + 1} = l + 1 .. l + (k + 1)
    OBVIOUS
  <1>6. (1 .. l) \cup (l + 1 .. l + k) = 1 .. l + k
    OBVIOUS
  <1> QED
    BY <1>2, <1>4, <1>5, <1>6

(* What follows from the invariant about one transaction's numbers.         *)
LEMMA Sizes ==
  ASSUME NumInv
  PROVE  Last \in Nat /\ \A c \in Creators : Held(c) \in Nat
  BY FS_CardinalityType DEF NumInv, RunInv, Last, Held

LEMMA Products ==
  ASSUME NEW p \in Nat, NEW i \in Nat
  PROVE  /\ p * i \in Nat /\ p * (i + 1) = p * i + p
         /\ \A j \in Nat : j <= i => p * j <= p * i
  <1>1. p * i \in Nat /\ p * (i + 1) = p * i + p
    OBVIOUS
  <1>2. ASSUME NEW j \in Nat, j <= i
        PROVE  p * j <= p * i
    <2>1. PICK d \in Nat : i = j + d
      <3>1. i - j \in Nat /\ i = j + (i - j)
        BY <1>2
      <3> QED
        BY <3>1
    <2>2. p * i = p * j + p * d
      BY <2>1
    <2>3. p * d \in Nat /\ p * j \in Nat
      OBVIOUS
    <2> QED
      BY <2>2, <2>3
  <1> QED
    BY <1>1, <1>2

LEMMA BusyIsFinite ==
  IsFiniteSet(BusySet) /\ Cardinality(BusySet) \in Nat
  <1>1. IsFiniteSet(BusySet)
    BY CreatorsAssumption, FS_Subset DEF BusySet
  <1> QED
    BY <1>1, FS_CardinalityType

(* A transaction under way still has all its numbers below the bound.       *)
LEMMA RoomForBusy ==
  ASSUME NumInv, NEW c \in Creators, Busy(c)
  PROVE  Last + PerCall <= MaxNumber /\ Cardinality(BusySet) \in Nat \ {0}
  <1>1. Cardinality(BusySet) \in Nat \ {0}
    BY BusyIsFinite, FS_EmptySet DEF BusySet
  <1>2. PerCall * 1 <= PerCall * Cardinality(BusySet)
    BY <1>1, Products, BoundAssumption
  <1>3. PerCall * Cardinality(BusySet) \in Nat
    BY <1>1, Products, BoundAssumption
  <1> QED
    BY <1>1, <1>2, <1>3, Sizes, BoundAssumption DEF NumInv, CapInv

(* A transaction that goes on, that begins while there is room, and that    *)
(* ends, keep the bound.                                                    *)
LEMMA CapStep ==
  ASSUME NumInv, NEW c \in Creators, Last' \in Nat,
         \/ Last' = Last /\ BusySet' \subseteq BusySet
         \/ Last' = Last /\ Room /\ BusySet' \subseteq BusySet \cup {c}
         \/ Busy(c) /\ Last' <= Last + PerCall /\ BusySet' \subseteq BusySet \ {c}
  PROVE  CapInv'
  <1> DEFINE k == Cardinality(BusySet)
             l == Cardinality(BusySet')
  <1>1. k \in Nat /\ IsFiniteSet(BusySet)
    BY BusyIsFinite
  <1>2. Last \in Nat /\ Last + PerCall * k <= MaxNumber
    BY Sizes DEF NumInv, CapInv
  <1>3. SUFFICES Last' + PerCall * l <= MaxNumber
    BY DEF CapInv
  <1>4. ASSUME NEW B, IsFiniteSet(B), BusySet' \subseteq B
        PROVE  l \in Nat /\ l <= Cardinality(B) /\ PerCall * l <= PerCall * Cardinality(B)
               /\ PerCall * l \in Nat
    <2>1. l \in Nat /\ l <= Cardinality(B) /\ Cardinality(B) \in Nat
      BY <1>4, FS_Subset, FS_CardinalityType
    <2> QED
      BY <2>1, Products, BoundAssumption
  <1>5. CASE Last' = Last /\ BusySet' \subseteq BusySet
    <2>1. PerCall * l <= PerCall * k /\ PerCall * l \in Nat /\ PerCall * k \in Nat
      BY <1>1, <1>4, <1>5, Products, BoundAssumption
    <2> QED
      BY <1>2, <1>5, <2>1, BoundAssumption
  <1>6. CASE Last' = Last /\ Room /\ BusySet' \subseteq BusySet \cup {c}
    <2>1. IsFiniteSet(BusySet \cup {c}) /\ Cardinality(BusySet \cup {c}) \in Nat
          /\ Cardinality(BusySet \cup {c}) <= k + 1
      BY <1>1, FS_AddElement
    <2>2. PerCall * l <= PerCall * Cardinality(BusySet \cup {c}) /\ PerCall * l \in Nat
      BY <1>4, <1>6, <2>1
    <2>3. PerCall * Cardinality(BusySet \cup {c}) <= PerCall * (k + 1)
      BY <1>1, <2>1, Products, BoundAssumption
    <2>4. PerCall * (k + 1) \in Nat /\ PerCall * Cardinality(BusySet \cup {c}) \in Nat
      BY <1>1, <2>1, Products, BoundAssumption
    <2>5. Last + PerCall * (k + 1) <= MaxNumber
      BY <1>6 DEF Room, Last, BusySet
    <2> QED
      BY <1>2, <1>6, <2>2, <2>3, <2>4, <2>5, BoundAssumption
  <1>7. CASE Busy(c) /\ Last' <= Last + PerCall /\ BusySet' \subseteq BusySet \ {c}
    <2>1. k \in Nat \ {0} /\ c \in BusySet
      BY <1>7, RoomForBusy DEF BusySet
    <2>2. IsFiniteSet(BusySet \ {c}) /\ Cardinality(BusySet \ {c}) = k - 1
      BY <1>1, <2>1, FS_RemoveElement
    <2>3. PerCall * l <= PerCall * (k - 1) /\ PerCall * l \in Nat
      BY <1>4, <1>7, <2>2
    <2>4. PerCall * k = PerCall * (k - 1) + PerCall /\ PerCall * (k - 1) \in Nat
      <3>1. k - 1 \in Nat /\ (k - 1) + 1 = k
        BY <2>1
      <3> QED
        BY <3>1, Products, BoundAssumption
    <2> QED
      BY <1>2, <1>7, <2>3, <2>4, BoundAssumption
  <1> QED
    BY <1>5, <1>6, <1>7

-----------------------------------------------------------------------------

(* The number a call generates follows every number that it sees.           *)
LEMMA GenerateNext ==
  ASSUME Fits, NumInv, NEW c \in Creators, Generate(c)
  PROVE  /\ chosen' = [chosen EXCEPT ![c] = Last + Held(c) + 1]
         /\ UNCHANGED <<numbers, written, chain>> /\ Held(c) < PerCall
         /\ chain = c \/ written[c] = {}
  <1>1. Last \in Nat /\ Held(c) \in Nat
    BY Sizes
  <1>2. /\ UNCHANGED <<numbers, written, chain>> /\ Held(c) < PerCall
        /\ chain = c \/ ~Busy(c)
    <2>1. UNCHANGED <<numbers, written, chain>>
      BY DEF Generate
    <2>2. Cardinality(written[c]) < PerCall
      BY DEF Generate
    <2>3. chain = c \/ ~Busy(c)
      BY DEF Generate
    <2> QED
      BY <2>1, <2>2, <2>3 DEF Held
  <1>3. chain = c \/ written[c] = {}
    BY <1>2 DEF Busy
  <1>4. Seen(c) = 1 .. Last + Held(c)
    <2>1. Seen(c) = (1 .. Last) \cup (Last + 1 .. Last + Held(c))
      BY DEF Seen, NumInv, RunInv, NoGaps, Last
    <2> QED
      BY <1>1, <2>1, SizeOfInterval
  <1>5. Last + Held(c) <= MaxNumber
    <2>1. CASE Busy(c)
      BY <1>1, <1>2, <2>1, RoomForBusy, BoundAssumption
    <2>2. CASE ~Busy(c)
      <3>1. Held(c) = 0
        BY <2>2, FS_EmptySet DEF Busy, Held
      <3>2. Last <= MaxNumber
        <4>1. PerCall * Cardinality(BusySet) \in Nat
          BY BusyIsFinite, Products, BoundAssumption
        <4> QED
          BY <1>1, <4>1, BoundAssumption DEF NumInv, CapInv
      <3> QED
        BY <1>1, <3>1, <3>2
    <2> QED
      BY <2>1, <2>2
  <1>6. chosen' = [chosen EXCEPT ![c] = Last + Held(c) + 1]
    <2>1. CASE Seen(c) = {}
      <3>1. ASSUME NEW k \in Nat, 1 .. k = {}
            PROVE  k = 0
        <4>1. k >= 1 => 1 \in 1 .. k
          OBVIOUS
        <4> QED
          BY <3>1, <4>1
      <3>2. Last + Held(c) + 1 = 1
        BY <1>1, <1>4, <2>1, <3>1
      <3>3. \A n \in Seen(c) : FALSE
        BY <2>1
      <3>4. chosen' = [chosen EXCEPT ![c] = 1]
        BY <3>3 DEF Generate
      <3> QED
        BY <3>2, <3>4
    <2>2. CASE Seen(c) # {}
      <3>1. PICK n \in Seen(c) : IsNewest(Seen(c), n) /\ chosen' = [chosen EXCEPT ![c] = n + 1]
        BY <2>2 DEF Generate
      <3>2. n = Last + Held(c)
        BY <1>1, <1>4, <1>5, <3>1, NewestIsLast
      <3> QED
        BY <3>1, <3>2
    <2> QED
      BY <2>1, <2>2
  <1> QED
    BY <1>2, <1>3, <1>6

LEMMA GenerateStep ==
  ASSUME Fits, NumInv, NEW c \in Creators, Generate(c)
  PROVE  RunInv' /\ CapInv'
  <1>1. /\ chosen' = [chosen EXCEPT ![c] = Last + Held(c) + 1]
        /\ UNCHANGED <<numbers, written, chain>> /\ Held(c) < PerCall
        /\ chain = c \/ written[c] = {}
    BY GenerateNext
  <1>2. Last' = Last /\ \A d \in Creators : Held(d)' = Held(d)
    BY <1>1 DEF Last, Held
  <1>3. Last \in Nat /\ Held(c) \in Nat
    BY Sizes
  <1>4. written[c] = {} => Held(c) = 0
    BY FS_EmptySet DEF Held
  <1>5. RunInv'
    <2>1. ASSUME NEW d \in Creators, chosen'[d] # 0
          PROVE  \/ chain = d /\ chosen'[d] = Last + Held(d) + 1
                 \/ chain # d /\ written[d] = {} /\ chosen'[d] <= Last + 1
      <3>1. CASE d = c
        <4>1. chosen'[c] = Last + Held(c) + 1
          BY <1>1 DEF NumInv, Types
        <4> QED
          BY <1>1, <1>3, <1>4, <3>1, <4>1
      <3>2. CASE d # c
        <4>1. chosen'[d] = chosen[d]
          BY <1>1, <3>2 DEF NumInv, Types
        <4> QED
          BY <2>1, <4>1 DEF NumInv, RunInv
      <3> QED
        BY <3>1, <3>2
    <2>2. \A d \in Creators : chosen'[d] # 0 => Held(d) < PerCall
      BY <1>1 DEF NumInv, RunInv, Types
    <2> QED
      BY <1>1, <1>2, <2>1, <2>2 DEF NumInv, RunInv, NoGaps, Last
  <1>6. CapInv'
    <2>1. CASE chain = c
      <3>1. BusySet' \subseteq BusySet
        BY <1>1, <2>1 DEF BusySet, Busy, NumInv, Types
      <3> QED
        BY <1>2, <1>3, <3>1, CapStep
    <2>2. CASE chain # c
      <3>1. BusySet' \subseteq BusySet \cup {c} /\ Room
        BY <1>1, <2>2 DEF BusySet, Busy, NumInv, Types, Generate
      <3> QED
        BY <1>2, <1>3, <3>1, CapStep
    <2> QED
      BY <2>1, <2>2
  <1> QED
    BY <1>5, <1>6

(* The number that gets past the UNIQUE column goes on from what is there,  *)
(* and nobody else has written one.                                         *)
LEMMA InsertStep ==
  ASSUME NumInv, NEW c \in Creators, Insert(c), UniqueInv'
  PROVE  RunInv' /\ CapInv'
  <1>1. Last \in Nat /\ Held(c) \in Nat
    BY Sizes
  <1>2. numbers = 1 .. Last /\ written[c] = Last + 1 .. Last + Held(c)
    BY DEF NumInv, RunInv, NoGaps, Last
  <1>3. written[c] = {} => Held(c) = 0
    BY FS_EmptySet DEF Held
  <1>4. chosen[c] = Last + Held(c) + 1
    <2>1. chosen[c] # 0 /\ chosen[c] \notin numbers /\ chosen[c] \in Nat
      BY DEF Insert, NumInv, Types
    <2>2. CASE chain = c /\ chosen[c] = Last + Held(c) + 1
      BY <2>2
    <2>3. CASE chain # c /\ written[c] = {} /\ chosen[c] <= Last + 1
      <3>1. chosen[c] = Last + 1
        BY <1>1, <1>2, <2>1, <2>3
      <3> QED
        BY <1>1, <1>3, <2>3, <3>1
    <2> QED
      BY <2>1, <2>2, <2>3 DEF NumInv, RunInv
  <1>5. /\ written' = [written EXCEPT ![c] = Last + 1 .. Last + (Held(c) + 1)]
        /\ chosen' = [chosen EXCEPT ![c] = 0]
        /\ UNCHANGED <<numbers, chain>>
    <2>1. written[c] \cup {chosen[c]} = Last + 1 .. Last + (Held(c) + 1)
      <3>1. (Last + 1 .. Last + Held(c)) \cup {Last + Held(c) + 1} = Last + 1 .. Last + (Held(c) + 1)
        BY <1>1, SizeOfInterval
      <3> QED
        BY <1>2, <1>4, <3>1
    <2>2. written' = [written EXCEPT ![c] = written[c] \cup {chosen[c]}]
      BY DEF Insert
    <2> QED
      BY <2>1, <2>2 DEF Insert
  <1>6. written'[c] = Last + 1 .. Last + (Held(c) + 1)
    BY <1>5 DEF NumInv, Types
  <1>7. Held(c)' = Held(c) + 1 /\ IsFiniteSet(written'[c])
    BY <1>1, <1>6, SizeOfInterval DEF Held
  <1>8. Last' = Last
    BY <1>5 DEF Last
  <1>9. \A d \in Creators : d # c => written'[d] = {} /\ written[d] = {} /\ Held(d)' = 0 /\ Held(d) = 0
                                     /\ chosen'[d] = chosen[d]
    <2> SUFFICES ASSUME NEW d \in Creators, d # c
                 PROVE  written'[d] = {} /\ written[d] = {} /\ Held(d)' = 0 /\ Held(d) = 0
                        /\ chosen'[d] = chosen[d]
      OBVIOUS
    <2>1. written'[d] = written[d] /\ chosen'[d] = chosen[d]
      BY <1>5 DEF NumInv, Types
    <2>2. Last + 1 \in written'[c]
      BY <1>1, <1>6
    <2>3. Last + 1 \notin written[d]
      BY <2>1, <2>2 DEF UniqueInv
    <2>4. written[d] = Last + 1 .. Last + Held(d) /\ Held(d) \in Nat
      BY Sizes DEF NumInv, RunInv
    <2>5. written[d] = {}
      BY <1>1, <2>3, <2>4
    <2> QED
      BY <2>1, <2>5, FS_EmptySet DEF Held
  <1>10. RunInv'
    <2>1. Held(c) < PerCall
      BY DEF NumInv, RunInv, Insert
    <2>2. chosen'[c] = 0
      BY <1>5 DEF NumInv, Types
    <2>3. IsFiniteSet(numbers') /\ NoGaps'
      BY <1>5 DEF NumInv, RunInv, NoGaps
    <2>4. /\ IsFiniteSet(written'[c]) /\ written'[c] = Last + 1 .. Last + Held(c)'
          /\ Held(c)' <= PerCall
      BY <1>1, <1>6, <1>7, <2>1, BoundAssumption
    <2>5. ASSUME NEW d \in Creators, d # c
          PROVE  /\ IsFiniteSet(written'[d]) /\ written'[d] = Last + 1 .. Last + Held(d)'
                 /\ Held(d)' <= PerCall /\ (chosen'[d] # 0 => Held(d)' < PerCall)
                 /\ chosen'[d] # 0 =>
                      \/ chain = d /\ chosen'[d] = Last + Held(d)' + 1
                      \/ chain # d /\ written'[d] = {} /\ chosen'[d] <= Last + 1
      <3>1. written'[d] = {} /\ Held(d)' = 0 /\ chosen'[d] = chosen[d] /\ Held(d) = 0
        BY <1>9, <2>5
      <3>2. IsFiniteSet(written'[d]) /\ written'[d] = Last + 1 .. Last + Held(d)'
        BY <1>1, <3>1, FS_EmptySet
      <3>3. chosen[d] # 0 => \/ chain = d /\ chosen[d] = Last + 0 + 1
                             \/ chain # d /\ chosen[d] <= Last + 1
        BY <3>1 DEF NumInv, RunInv
      <3>4. Held(d)' <= PerCall /\ Held(d)' < PerCall
        BY <3>1, BoundAssumption
      <3>5. chosen'[d] # 0 => \/ chain = d /\ chosen'[d] = Last + Held(d)' + 1
                              \/ chain # d /\ written'[d] = {} /\ chosen'[d] <= Last + 1
        BY <3>1, <3>3
      <3> QED
        BY <3>2, <3>4, <3>5
    <2> QED
      BY <1>5, <1>8, <2>2, <2>3, <2>4, <2>5 DEF RunInv
  <1>11. BusySet' \subseteq BusySet
    BY <1>5 DEF BusySet, Busy, NumInv, Types, Insert
  <1> QED
    BY <1>1, <1>8, <1>10, <1>11, CapStep

LEMMA RecordStep ==
  ASSUME NumInv, NEW c \in Creators, Record(c)
  PROVE  RunInv' /\ CapInv'
  <1>1. UNCHANGED <<numbers, chosen, written>> /\ chain = Nobody /\ chain' = c /\ chosen[c] = 0
    BY DEF Record, Busy
  <1>2. Last' = Last /\ Last \in Nat /\ \A d \in Creators : Held(d)' = Held(d)
    BY <1>1, Sizes DEF Last, Held
  <1>3. RunInv'
    BY <1>1, <1>2, CreatorsAssumption DEF NumInv, RunInv, NoGaps
  <1>4. CASE written[c] # {}
    <2>1. BusySet' \subseteq BusySet
      BY <1>1, <1>4 DEF BusySet, Busy
    <2> QED
      BY <1>2, <1>3, <2>1, CapStep
  <1>5. CASE written[c] = {}
    <2>1. BusySet' \subseteq BusySet \cup {c} /\ Room
      BY <1>1, <1>5 DEF BusySet, Busy, Record
    <2> QED
      BY <1>2, <1>3, <2>1, CapStep
  <1> QED
    BY <1>4, <1>5

(* A transaction that has written a number is alone in that, so that its    *)
(* commit moves the end of the numbers for nobody else.                     *)
LEMMA CommitStep ==
  ASSUME NumInv, NEW c \in Creators, Commit(c)
  PROVE  RunInv' /\ CapInv'
  <1>1. Last \in Nat /\ \A d \in Creators : Held(d) \in Nat
    BY Sizes
  <1>2. numbers = 1 .. Last /\ \A d \in Creators : written[d] = Last + 1 .. Last + Held(d)
    BY DEF NumInv, RunInv, NoGaps, Last
  <1>3. /\ chain = c /\ chosen[c] = 0 /\ chosen' = chosen /\ chain' = Nobody
        /\ numbers' = numbers \cup written[c]
        /\ written' = [written EXCEPT ![c] = {}]
    BY DEF Commit
  <1>4. numbers' = 1 .. Last + Held(c)
    <2>1. (1 .. Last) \cup (Last + 1 .. Last + Held(c)) = 1 .. Last + Held(c)
      BY <1>1, SizeOfInterval
    <2> QED
      BY <1>2, <1>3, <2>1
  <1>5. Last' = Last + Held(c) /\ IsFiniteSet(numbers') /\ NoGaps'
    <2>1. Last + Held(c) \in Nat
      BY <1>1
    <2>2. IsFiniteSet(numbers') /\ Cardinality(numbers') = Last + Held(c)
      BY <1>4, <2>1, FS_Interval
    <2> QED
      BY <1>4, <2>2 DEF Last, NoGaps
  <1>6. ASSUME NEW d \in Creators
        PROVE  /\ IsFiniteSet(written'[d]) /\ written'[d] = Last' + 1 .. Last' + Held(d)'
               /\ Held(d)' <= PerCall /\ (chosen'[d] # 0 => Held(d)' < PerCall)
               /\ chosen'[d] # 0 => written'[d] = {} /\ chosen'[d] <= Last' + 1
    <2>1. CASE written'[d] = {}
      <3>1. Held(d)' = 0 /\ IsFiniteSet(written'[d])
        BY <2>1, FS_EmptySet DEF Held
      <3>2. chosen'[d] # 0 => chosen'[d] <= Last + 1
        <4>1. d # c => written[d] = written'[d]
          BY <1>3 DEF NumInv, Types
        <4>2. d # c => chain # d
          BY <1>3
        <4> QED
          BY <1>3, <4>1, <4>2, <2>1 DEF NumInv, RunInv
      <3>3. chosen'[d] \in Nat
        BY <1>3 DEF NumInv, Types
      <3>4. Held(c) \in Nat
        BY <1>1
      <3> QED
        BY <1>1, <1>5, <2>1, <3>1, <3>2, <3>3, <3>4, BoundAssumption
    <2>2. CASE written'[d] # {}
      <3>1. d # c /\ written'[d] = written[d]
        BY <1>3, <2>2 DEF NumInv, Types
      <3>2. Last + 1 \in written[d]
        BY <1>1, <1>2, <2>2, <3>1
      <3>3. Last + 1 \notin written[c]
        BY <3>1, <3>2 DEF NumInv, UniqueInv
      <3>4. Held(c) = 0
        BY <1>1, <1>2, <3>3
      <3>5. Held(d)' = Held(d) /\ Last' = Last
        BY <1>1, <1>5, <3>1, <3>4 DEF Held
      <3>6. chosen[d] = 0
        BY <1>3, <2>2, <3>1 DEF NumInv, RunInv
      <3> QED
        BY <1>3, <3>1, <3>5, <3>6 DEF NumInv, RunInv
    <2> QED
      BY <2>1, <2>2
  <1>7. RunInv'
    BY <1>3, <1>5, <1>6, CreatorsAssumption DEF RunInv
  <1>8. BusySet' \subseteq BusySet \ {c}
    BY <1>3, CreatorsAssumption DEF BusySet, Busy, NumInv, Types
  <1>9. Held(c) <= PerCall
    BY DEF NumInv, RunInv
  <1>10. Last' \in Nat /\ Last' <= Last + PerCall /\ Busy(c)
    BY <1>1, <1>3, <1>5, <1>9, BoundAssumption DEF Busy
  <1> QED
    BY <1>7, <1>8, <1>10, CapStep

LEMMA RollbackStep ==
  ASSUME NumInv, NEW c \in Creators, Rollback(c)
  PROVE  RunInv' /\ CapInv'
  <1>1. Last' = Last /\ Last \in Nat /\ numbers' = numbers
    BY Sizes DEF Rollback, Last
  <1>2. chosen'[c] = 0 /\ written'[c] = {} /\ chain' # c
    BY CreatorsAssumption DEF Rollback, Released, NumInv, Types
  <1>3. \A d \in Creators : d # c =>
          /\ chosen'[d] = chosen[d] /\ written'[d] = written[d] /\ Held(d)' = Held(d)
          /\ chain' = d <=> chain = d
    BY CreatorsAssumption DEF Rollback, Released, NumInv, Types, Held
  <1>4. Held(c)' = 0 /\ IsFiniteSet(written'[c])
    BY <1>2, FS_EmptySet DEF Held
  <1>5. RunInv'
    <2>1. IsFiniteSet(numbers') /\ NoGaps'
      BY <1>1 DEF NumInv, RunInv, NoGaps
    <2>2. /\ IsFiniteSet(written'[c]) /\ written'[c] = Last' + 1 .. Last' + Held(c)'
          /\ Held(c)' <= PerCall
      BY <1>1, <1>2, <1>4, BoundAssumption
    <2>3. ASSUME NEW d \in Creators, d # c
          PROVE  /\ IsFiniteSet(written'[d]) /\ written'[d] = Last' + 1 .. Last' + Held(d)'
                 /\ Held(d)' <= PerCall /\ (chosen'[d] # 0 => Held(d)' < PerCall)
                 /\ chosen'[d] # 0 =>
                      \/ chain' = d /\ chosen'[d] = Last' + Held(d)' + 1
                      \/ chain' # d /\ written'[d] = {} /\ chosen'[d] <= Last' + 1
      BY <1>1, <1>3, <2>3 DEF NumInv, RunInv
    <2> QED
      BY <1>2, <2>1, <2>2, <2>3 DEF RunInv
  <1>6. BusySet' \subseteq BusySet
    BY <1>2, <1>3 DEF BusySet, Busy
  <1> QED
    BY <1>1, <1>5, <1>6, CapStep

LEMMA NumStep ==
  ASSUME Fits, NumInv, [Next]_vars
  PROVE  NumInv'
  <1>1. CASE UNCHANGED vars
    BY <1>1 DEF vars, NumInv, Types, UniqueInv, RunInv, CapInv, NoGaps, Last, Held, BusySet, Busy
  <1>2. ASSUME NEW c \in Creators, Create(c)
        PROVE  NumInv'
    <2>1. Types' /\ UniqueInv'
      BY <1>2, UniqueStep DEF NumInv
    <2>2. RunInv' /\ CapInv'
      BY <1>2, <2>1, GenerateStep, InsertStep, RecordStep, CommitStep, RollbackStep
         DEF Create, Collide, Abort, GiveUp
    <2> QED
      BY <2>1, <2>2 DEF NumInv
  <1> QED
    BY <1>1, <1>2 DEF Next

LEMMA NumInvHolds ==
  ASSUME Fits
  PROVE  Spec => []NumInv
  <1>1. Init => NumInv
    <2> SUFFICES ASSUME Init
                 PROVE  NumInv
      OBVIOUS
    <2>1. Last = 0 /\ \A c \in Creators : Held(c) = 0 /\ written[c] = {}
      BY FS_EmptySet DEF Init, Last, Held
    <2>2. BusySet = {}
      BY CreatorsAssumption DEF Init, BusySet, Busy
    <2>3. Types /\ UniqueInv
      BY DEF Init, Types, UniqueInv
    <2>4. RunInv
      <3>1. IsFiniteSet(numbers) /\ numbers = 1 .. 0
        BY FS_EmptySet DEF Init
      <3> QED
        BY <2>1, <3>1, FS_EmptySet, BoundAssumption DEF Init, RunInv, NoGaps, Last
    <2>5. CapInv
      BY <2>1, <2>2, FS_EmptySet, BoundAssumption DEF CapInv
    <2> QED
      BY <2>3, <2>4, <2>5 DEF NumInv
  <1> QED
    BY <1>1, NumStep, PTL DEF Spec

(* The ticket numbers of a year are 1, 2, 3, ... without a gap or a repeat  *)
(* while they fit their width: a call that fails gives its number back.     *)
THEOREM NumbersHaveNoGaps ==
  ASSUME Fits
  PROVE  Spec => []NoGaps
  <1>1. NumInv => NoGaps
    BY DEF NumInv, RunInv
  <1> QED
    BY <1>1, NumInvHolds, PTL

(* "QMS-YYYY-NNNNN, monotonic per year" holds while the numbers fit their   *)
(* width: a generated number is above every committed one.  Beyond the      *)
(* width it does not, as the run TicketNumbersOverflow shows.               *)
THEOREM NumbersAreMonotonic ==
  ASSUME Fits
  PROVE  Spec => GeneratedIsNew
  <1>1. ASSUME NumInv, [Next]_vars
        PROVE  \A c \in Creators : chosen'[c] > chosen[c] => \A n \in numbers : chosen'[c] > n
    <2>1. \A d \in Creators : chosen[d] \in Nat /\ ~(chosen[d] > chosen[d])
                              /\ ~(0 > chosen[d])
      BY <1>1 DEF NumInv, Types
    <2>2. CASE UNCHANGED vars
      BY <2>1, <2>2 DEF vars
    <2>3. ASSUME NEW c \in Creators, Generate(c)
          PROVE  \A d \in Creators : chosen'[d] > chosen[d] => \A n \in numbers : chosen'[d] > n
      <3>1. chosen' = [chosen EXCEPT ![c] = Last + Held(c) + 1]
        BY <1>1, <2>3, GenerateNext
      <3>2. chosen'[c] = Last + Held(c) + 1
        BY <1>1, <3>1 DEF NumInv, Types
      <3>3. Last \in Nat /\ Held(c) \in Nat /\ numbers = 1 .. Last
        BY <1>1, Sizes DEF NumInv, RunInv, NoGaps, Last
      <3>4. \A n \in numbers : chosen'[c] > n
        BY <3>2, <3>3
      <3>5. \A d \in Creators : d # c => chosen'[d] = chosen[d]
        BY <1>1, <3>1 DEF NumInv, Types
      <3> QED
        BY <2>1, <3>4, <3>5
    <2>4. ASSUME NEW c \in Creators, Insert(c) \/ Rollback(c)
          PROVE  \A d \in Creators : ~(chosen'[d] > chosen[d])
      <3>1. chosen' = [chosen EXCEPT ![c] = 0]
        BY <2>4 DEF Insert, Rollback
      <3>2. \A d \in Creators : chosen'[d] = chosen[d] \/ chosen'[d] = 0
        BY <1>1, <3>1 DEF NumInv, Types
      <3> QED
        BY <2>1, <3>2
    <2>5. ASSUME NEW c \in Creators, Record(c) \/ Commit(c)
          PROVE  \A d \in Creators : ~(chosen'[d] > chosen[d])
      BY <2>1, <2>5 DEF Record, Commit
    <2> QED
      BY <1>1, <2>2, <2>3, <2>4, <2>5 DEF Next, Create, Collide, Abort, GiveUp
  <1>2. NumInv /\ [Next]_vars =>
          [\A c \in Creators : chosen'[c] > chosen[c] => \A n \in numbers : chosen'[c] > n]_vars
    BY <1>1
  <1> QED
    BY <1>2, NumInvHolds, PTL DEF Spec, GeneratedIsNew

-----------------------------------------------------------------------------

(* A measurement or a checklist never loses its ticket's number to another  *)
(* call, since it holds the chain when it reads the number, and never       *)
(* deadlocks with another one: only tickets created for themselves take the *)
(* number and the lock in the other order.                                  *)
THEOREM DeviationsLostOnlyToPlain ==
  ASSUME Fits
  PROVE  DevSpec => []LostOnlyToPlain
  <1> DEFINE NotCollided == lost.why # "collided"
  <1>1. DevInit => NotCollided
    BY DEF DevInit, Lost
  <1>2. DevInv /\ NumInv /\ NotCollided /\ [DevNext]_everything => NotCollided'
    <2> SUFFICES ASSUME DevInv, NumInv, NotCollided, [DevNext]_everything
                 PROVE  NotCollided'
      OBVIOUS
    <2>1. CASE UNCHANGED everything
      BY <2>1 DEF everything, records
    <2>2. ASSUME NEW c \in Creators, CollideFor(c)
          PROVE  work[c] = Idle
      <3>1. chosen[c] \in numbers
        BY <2>2 DEF CollideFor, Collide
      <3>2. chosen[c] # 0
        BY <3>1 DEF NumInv, Types
      <3>3. Last \in Nat /\ Held(c) \in Nat /\ numbers = 1 .. Last
        BY Sizes DEF NumInv, RunInv, NoGaps, Last
      <3>4. chain # c
        BY <3>1, <3>2, <3>3 DEF NumInv, RunInv
      <3> QED
        BY <3>4 DEF DevInv, WorkInv
    <2>3. ASSUME NEW c \in Creators, NEW why, why # "collided", Unwind(c, why)
          PROVE  NotCollided'
      BY <2>3 DEF Unwind, Lost
    <2>4. ASSUME NEW c \in Creators, NEW p \in DOMAIN Points, NEW entry \in Entries(p),
                 Store(c, p, entry) \/ Deviate(c, p, entry) \/ Refuse(c, p, entry)
          PROVE  NotCollided'
      BY <2>4 DEF Store, Deviate, Refuse, Lost
    <2>5. CASE DevNext
      <3>1. PICK c \in Creators :
              \/ \E p \in DOMAIN Points : \E entry \in Entries(p) :
                   Store(c, p, entry) \/ Deviate(c, p, entry) \/ Refuse(c, p, entry)
              \/ GenerateOne(c) \/ InsertFor(c) \/ RecordFor(c) \/ Raise(c)
              \/ CollideFor(c) \/ AbortFor(c)
              \/ GiveUp(c) /\ Unwind(c, "given up")
        BY <2>5 DEF DevNext
      <3>2. CASE GenerateOne(c) \/ InsertFor(c) \/ RecordFor(c) \/ Raise(c)
        BY <3>2 DEF GenerateOne, InsertFor, RecordFor, Raise, records
      <3>3. CASE CollideFor(c)
        BY <2>2, <3>3 DEF CollideFor, Unwind
      <3>4. CASE AbortFor(c)
        BY <2>3, <3>4 DEF AbortFor
      <3>5. CASE GiveUp(c) /\ Unwind(c, "given up")
        BY <2>3, <3>5
      <3> QED
        BY <2>4, <3>1, <3>2, <3>3, <3>4, <3>5
    <2> QED
      BY <2>1, <2>5
  <1>3. DevInv /\ NotCollided => LostOnlyToPlain
    BY DEF DevInv, WorkInv, LostOnlyToPlain, Deadlocked, Waits
  <1>4. DevSpec => []NumInv
    BY DeviationsImplementNumbers, NumInvHolds, PTL
  <1> HIDE DEF NotCollided
  <1> QED
    BY <1>1, <1>2, <1>3, <1>4, DevInvHolds, PTL DEF DevSpec
=============================================================================
