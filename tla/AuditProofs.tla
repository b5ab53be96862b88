---------------------------- MODULE AuditProofs ----------------------------
(***************************************************************************)
(* Proofs about the audit trail, for any number of sessions, any hash      *)
(* function and any history of commits and rollbacks.                      *)
(*                                                                         *)
(* AuditChain: the committed trail passes verify_chain(), and commits only *)
(* append to it.  The chain itself is not inductive.  IInv adds what the   *)
(* advisory lock buys: every session inside record() holds the lock, its   *)
(* uncommitted rows have ids above all the committed ones, and the trail   *)
(* as it sees it is already a chain but for the row it has not sealed yet. *)
(* With it, the trail in id order is the ledger of AuditLedger.            *)
(*                                                                         *)
(* AuditRedaction: redactions rewrite committed rows without the lock, so  *)
(* that IInv fails.  RInv keeps of it what the lock still buys, and adds   *)
(* that no two sessions hold the same row, that rewritten rows carry the   *)
(* markers of earlier redactions, that who rewrites has opted in to the    *)
(* bypass, and, until a commit races a redaction, that what it has loaded  *)
(* is the tail of the trail and that every session sees a chain.  ExactInv *)
(* adds which diffs the rows that a redaction has rewritten carry.         *)
(***************************************************************************)
EXTENDS AuditRedaction, FiniteSetTheorems, SequenceTheorems, WellFoundedInduction,
        TLAPS

\* c is the checksum that the next row of rows must carry as its prev.
TailIs(rows, c) ==
  /\ DOMAIN rows = {} => c = Genesis
  /\ \A i \in DOMAIN rows : IsLast(rows, i) => c = rows[i].sum

HolderInv == \A s \in Sessions : pc[s] # "idle" => holder = s
IdleInv   == \A s \in Sessions : pc[s] = "idle" => DOMAIN mine[s] = {}
OrderInv  == \A s \in Sessions : \A i \in DOMAIN log, j \in DOMAIN mine[s] : i < j

\* What a session sees of the trail.
Seen(s) ==
  /\ pc[s] \in {"idle", "locked", "read", "sealed"} => VerifyChain(View(s))
  /\ pc[s] = "read" => TailIs(View(s), prev[s])
  /\ pc[s] = "inserted" =>
       /\ nextId - 1 \in DOMAIN mine[s]
       /\ IsLast(View(s), nextId - 1)
       /\ \A i \in DOMAIN View(s) :
            /\ Linked(View(s), i)
            /\ i # nextId - 1 => Sealed(View(s), i)

ViewInv == \A s \in Sessions : Seen(s)

IInv == TypeOK /\ HolderInv /\ IdleInv /\ OrderInv /\ ViewInv /\ ChainIntact

-----------------------------------------------------------------------------

(* A row put behind the last row of a chain, naming its checksum, is linked *)
(* and leaves every other link and checksum as it was: what the INSERT of   *)
(* record() does to the trail the session sees.                             *)
LEMMA InsertKeepsLinks ==
  ASSUME NEW rows, NEW more, NEW n \in Nat,
         DOMAIN rows \subseteq Nat,
         DOMAIN more = DOMAIN rows \cup {n},
         \A i \in DOMAIN rows : i < n /\ more[i] = rows[i],
         VerifyChain(rows), TailIs(rows, more[n].prev)
  PROVE  /\ IsLast(more, n)
         /\ \A i \in DOMAIN more : Linked(more, i) /\ (i # n => Sealed(more, i))
  <1>1. IsLast(more, n)
    BY DEF IsLast
  <1>2. ASSUME NEW i \in DOMAIN more, i # n
        PROVE  Linked(more, i) /\ Sealed(more, i)
    <2>1. i \in DOMAIN rows /\ more[i] = rows[i] /\ i < n
      BY <1>2
    <2>2. Linked(rows, i) /\ Sealed(rows, i)
      BY <2>1 DEF VerifyChain
    <2>3. IsFirst(more, i) => IsFirst(rows, i)
      BY <2>1 DEF IsFirst
    <2>4. ASSUME NEW j \in DOMAIN more, Precedes(more, j, i)
          PROVE  j \in DOMAIN rows /\ Precedes(rows, j, i)
      BY <2>1, <2>4 DEF Precedes
    <2>5. Linked(more, i)
      BY <2>1, <2>2, <2>3, <2>4 DEF Linked
    <2> QED
      BY <2>1, <2>2, <2>5 DEF Sealed
  <1>3. Linked(more, n)
    <2>1. IsFirst(more, n) => DOMAIN rows = {}
      BY DEF IsFirst
    <2>2. ASSUME NEW j \in DOMAIN more, Precedes(more, j, n)
          PROVE  j \in DOMAIN rows /\ IsLast(rows, j)
      BY <2>2 DEF Precedes, IsLast
    <2> QED
      BY <2>1, <2>2 DEF Linked, TailIs
  <1> QED
    BY <1>1, <1>2, <1>3

(* Writing the checksum of the last row seals it and touches no link, since *)
(* no row names it yet: the UPDATE of record().                             *)
LEMMA SealCompletesChain ==
  ASSUME NEW rows, NEW done, NEW n \in Nat,
         DOMAIN rows \subseteq Nat,
         DOMAIN done = DOMAIN rows,
         IsLast(rows, n),
         \A i \in DOMAIN rows : Linked(rows, i) /\ (i # n => Sealed(rows, i)),
         \A i \in DOMAIN rows :
           done[i] = IF i = n THEN WithChecksum(rows[i]) ELSE rows[i]
  PROVE  VerifyChain(done)
  <1> SUFFICES ASSUME NEW i \in DOMAIN rows
               PROVE  Linked(done, i) /\ Sealed(done, i)
    BY DEF VerifyChain
  <1>1. done[i].prev = rows[i].prev /\ done[i].content = rows[i].content
    BY DEF WithChecksum
  <1>2. Sealed(done, i)
    BY DEF Sealed, WithChecksum
  <1>3. IsFirst(done, i) => IsFirst(rows, i)
    BY DEF IsFirst
  <1>4. ASSUME NEW j \in DOMAIN rows, Precedes(done, j, i)
        PROVE  Precedes(rows, j, i) /\ done[j] = rows[j]
    BY <1>4 DEF Precedes, IsLast
  <1>5. Linked(done, i)
    BY <1>1, <1>3, <1>4 DEF Linked
  <1> QED
    BY <1>2, <1>5

-----------------------------------------------------------------------------

LEMMA InitInv == Init => IInv
  <1> SUFFICES ASSUME Init
               PROVE  IInv
    OBVIOUS
  <1>1. TypeOK /\ HolderInv /\ IdleInv /\ OrderInv /\ ChainIntact
    BY SessionsAssumption
    DEF Init, TypeOK, Stages, NoRows, HolderInv, IdleInv, OrderInv, ChainIntact, VerifyChain
  <1>2. ASSUME NEW s \in Sessions
        PROVE  Seen(s)
    <2>1. pc[s] = "idle" /\ DOMAIN View(s) = {}
      BY DEF Init, View, Overlay, NoRows
    <2> QED
      BY <2>1 DEF Seen, VerifyChain
  <1> QED
    BY <1>1, <1>2 DEF IInv, ViewInv

(* The part of the invariant that is about the lock, the ids and the rows   *)
(* each session has written, preserved by every action.                     *)
LEMMA LockInv ==
  ASSUME IInv, [Next]_vars
  PROVE  (TypeOK /\ HolderInv /\ IdleInv /\ OrderInv)'
  <1>0. guarded' = guarded
    BY DEF Next, vars
  <1> USE <1>0, SessionsAssumption DEF IInv, TypeOK, Stages, HolderInv, IdleInv, OrderInv
  <1>1. ASSUME NEW s \in Sessions, AcquireLock(s)
        PROVE  (TypeOK /\ HolderInv /\ IdleInv /\ OrderInv)'
    BY <1>1 DEF AcquireLock
  <1>2. ASSUME NEW s \in Sessions, ReadTail(s)
        PROVE  (TypeOK /\ HolderInv /\ IdleInv /\ OrderInv)'
    BY <1>2 DEF ReadTail
  <1>3. ASSUME NEW s \in Sessions, NEW c \in Contents, InsertRow(s, c)
        PROVE  (TypeOK /\ HolderInv /\ IdleInv /\ OrderInv)'
    <2>1. /\ DOMAIN mine' = Sessions
          /\ DOMAIN mine'[s] = DOMAIN mine[s] \cup {nextId}
          /\ \A r \in Sessions \ {s} : mine'[r] = mine[r]
          /\ nextId' = nextId + 1
          /\ UNCHANGED <<log, holder, prev>>
          /\ pc' = [pc EXCEPT ![s] = "inserted"]
          /\ pc[s] = "read"
      BY <1>3 DEF InsertRow
    <2> QED
      BY <2>1
  <1>4. ASSUME NEW s \in Sessions, SealRow(s)
        PROVE  (TypeOK /\ HolderInv /\ IdleInv /\ OrderInv)'
    <2>1. /\ DOMAIN mine' = Sessions
          /\ DOMAIN mine'[s] = DOMAIN mine[s]
          /\ \A r \in Sessions \ {s} : mine'[r] = mine[r]
          /\ UNCHANGED <<log, nextId, holder, prev>>
          /\ pc' = [pc EXCEPT ![s] = "sealed"]
          /\ pc[s] = "inserted"
      BY <1>4 DEF SealRow
    <2> QED
      BY <2>1
  <1>5. ASSUME NEW s \in Sessions, SealRefused(s)
        PROVE  (TypeOK /\ HolderInv /\ IdleInv /\ OrderInv)'
    BY <1>5 DEF SealRefused
  <1>6. ASSUME NEW s \in Sessions, Commit(s)
        PROVE  (TypeOK /\ HolderInv /\ IdleInv /\ OrderInv)'
    <2>1. DOMAIN log' = DOMAIN log \cup DOMAIN mine[s]
      BY <1>6 DEF Commit, View, Overlay
    <2>2. holder = s /\ \A r \in Sessions \ {s} : pc[r] = "idle"
      BY <1>6 DEF Commit
    <2>3. /\ DOMAIN mine' = Sessions
          /\ DOMAIN mine'[s] = {}
          /\ \A r \in Sessions \ {s} : mine'[r] = mine[r]
      BY <1>6 DEF Commit, Release, NoRows
    <2> QED
      BY <1>6, <2>1, <2>2, <2>3 DEF Commit, Release
  <1>7. ASSUME NEW s \in Sessions, Rollback(s)
        PROVE  (TypeOK /\ HolderInv /\ IdleInv /\ OrderInv)'
    <2>1. /\ DOMAIN mine' = Sessions
          /\ DOMAIN mine'[s] = {}
          /\ \A r \in Sessions \ {s} : mine'[r] = mine[r]
      BY <1>7 DEF Rollback, Release, NoRows
    <2> QED
      BY <1>7, <2>1 DEF Rollback, Release
  <1>8. CASE UNCHANGED vars
    BY <1>8 DEF vars
  <1> QED
    BY <1>1, <1>2, <1>3, <1>4, <1>5, <1>6, <1>7, <1>8
    DEF Next, Step, Insert, Seal

(* verify_chain() looks at the ids and the rows behind them, nothing else.  *)
LEMMA SameRows ==
  ASSUME NEW rows, NEW same, DOMAIN same = DOMAIN rows,
         \A i \in DOMAIN rows : same[i] = rows[i], VerifyChain(rows)
  PROVE  VerifyChain(same)
  BY DEF VerifyChain, Linked, Sealed, IsFirst, Precedes

LEMMA OverlaidByNothing ==
  ASSUME NEW own, NEW base, DOMAIN own = {}, VerifyChain(base)
  PROVE  VerifyChain(Overlay(own, base))
  <1>1. /\ DOMAIN Overlay(own, base) = DOMAIN base
        /\ \A i \in DOMAIN base : Overlay(own, base)[i] = base[i]
    BY DEF Overlay
  <1> QED
    BY <1>1, SameRows

(* What a step of record() makes of the trail as the sessions see it, with  *)
(* the lock as the only protection.                                         *)
LEMMA RecordKeepsView ==
  ASSUME TypeOK, HolderInv, ViewInv, NEW s \in Sessions,
         \/ AcquireLock(s) \/ ReadTail(s) \/ SealRow(s) \/ SealRefused(s)
         \/ \E c : InsertRow(s, c)
  PROVE  ViewInv'
  <1>0. \A q \in Sessions : Seen(q)
    BY DEF ViewInv
  <1>1. ASSUME AcquireLock(s)
        PROVE  ViewInv'
    <2>2. /\ \A r \in Sessions : View(r)' = View(r)
          /\ \A r \in Sessions \ {s} : pc'[r] = pc[r]
          /\ pc'[s] = "locked" /\ pc[s] \in {"idle", "sealed"}
          /\ UNCHANGED <<log, nextId, mine, prev>>
      BY <1>1 DEF AcquireLock, View, Overlay, TypeOK
    <2>3. VerifyChain(View(s))
      BY <1>0, <2>2 DEF Seen
    <2>4. \A r \in Sessions : Seen(r)'
      BY <1>0, <2>2, <2>3 DEF Seen
    <2> QED
      BY <2>2, <2>4 DEF ViewInv
  <1>2. ASSUME ReadTail(s)
        PROVE  ViewInv'
    <2>1. /\ \A r \in Sessions : View(r)' = View(r)
          /\ \A r \in Sessions \ {s} : pc'[r] = pc[r] /\ prev'[r] = prev[r]
          /\ pc'[s] = "read" /\ pc[s] = "locked"
          /\ UNCHANGED <<log, nextId, mine>>
      BY <1>2 DEF ReadTail, View, Overlay, TypeOK
    <2>2. TailIs(View(s), prev'[s])
      <3>1. CASE DOMAIN View(s) = {}
        BY <1>2, <3>1 DEF ReadTail, TailIs, TypeOK
      <3>2. CASE DOMAIN View(s) # {}
        <4>1. PICK i \in DOMAIN View(s) :
                IsLast(View(s), i) /\ prev'[s] = View(s)[i].sum
          BY <1>2, <3>2 DEF ReadTail, TypeOK
        <4>2. DOMAIN View(s) \subseteq Nat
          BY DEF TypeOK, View, Overlay
        <4>3. \A j \in DOMAIN View(s) : IsLast(View(s), j) => j = i
          BY <4>1, <4>2 DEF IsLast
        <4> QED
          BY <3>2, <4>1, <4>3 DEF TailIs
      <3> QED
        BY <3>1, <3>2
    <2>3. \A r \in Sessions : Seen(r)'
      BY <1>0, <2>1, <2>2 DEF Seen
    <2> QED
      BY <2>1, <2>3 DEF ViewInv
  <1>3. ASSUME NEW c, InsertRow(s, c)
        PROVE  ViewInv'
    <2>1. /\ \A r \in Sessions \ {s} : pc'[r] = "idle"
          /\ pc'[s] = "inserted" /\ pc[s] = "read"
          /\ nextId' = nextId + 1 /\ nextId' - 1 = nextId /\ nextId \in Nat
          /\ log' = log
      BY <1>3 DEF InsertRow, TypeOK, HolderInv
    <2>2. /\ DOMAIN mine'[s] = DOMAIN mine[s] \cup {nextId}
          /\ mine'[s][nextId].prev = prev[s]
          /\ \A i \in DOMAIN mine[s] : i < nextId /\ mine'[s][i] = mine[s][i]
      BY <1>3 DEF InsertRow, TypeOK
    <2>3. /\ DOMAIN View(s) \subseteq Nat
          /\ DOMAIN View(s)' = DOMAIN View(s) \cup {nextId}
          /\ \A i \in DOMAIN View(s) : i < nextId /\ View(s)'[i] = View(s)[i]
          /\ View(s)'[nextId].prev = prev[s]
      <3>1. /\ View(s) = [i \in DOMAIN log \cup DOMAIN mine[s] |->
                            IF i \in DOMAIN mine[s] THEN mine[s][i] ELSE log[i]]
            /\ View(s)' = [i \in DOMAIN log \cup DOMAIN mine'[s] |->
                            IF i \in DOMAIN mine'[s] THEN mine'[s][i] ELSE log[i]]
        BY <2>1 DEF View, Overlay
      <3>2. DOMAIN log \subseteq 1 .. (nextId - 1)
            /\ DOMAIN mine[s] \subseteq 1 .. (nextId - 1)
        BY DEF TypeOK
      <3> QED
        BY <2>1, <2>2, <3>1, <3>2
    <2>4. VerifyChain(View(s)) /\ TailIs(View(s), prev[s])
      BY <1>0, <2>1 DEF Seen
    <2>5. /\ IsLast(View(s)', nextId)
          /\ \A i \in DOMAIN View(s)' :
               Linked(View(s)', i) /\ (i # nextId => Sealed(View(s)', i))
      BY <2>1, <2>3, <2>4, InsertKeepsLinks
    <2>6. Seen(s)'
      BY <2>1, <2>2, <2>5 DEF Seen
    <2>7. \A r \in Sessions \ {s} : Seen(r)'
      <3>1. \A r \in Sessions \ {s} : View(r)' = View(r) /\ pc[r] = "idle"
        BY <1>3, <2>1 DEF InsertRow, View, TypeOK, HolderInv
      <3> QED
        BY <1>0, <2>1, <3>1 DEF Seen
    <2> QED
      BY <2>1, <2>6, <2>7 DEF ViewInv
  <1>4. ASSUME SealRow(s)
        PROVE  ViewInv'
    <2>1. /\ \A r \in Sessions \ {s} : pc'[r] = "idle"
          /\ pc'[s] = "sealed" /\ pc[s] = "inserted"
          /\ UNCHANGED <<log, nextId>>
      BY <1>4 DEF SealRow, TypeOK, HolderInv
    <2>2. /\ nextId - 1 \in DOMAIN mine[s]
          /\ IsLast(View(s), nextId - 1)
          /\ \A i \in DOMAIN View(s) :
               Linked(View(s), i) /\ (i # nextId - 1 => Sealed(View(s), i))
      BY <1>0, <2>1 DEF Seen
    <2>3. /\ DOMAIN mine'[s] = DOMAIN mine[s]
          /\ \A i \in DOMAIN mine[s] :
               mine'[s][i] = IF i = nextId - 1 THEN WithChecksum(mine[s][i])
                                               ELSE mine[s][i]
      BY <1>4 DEF SealRow, TypeOK
    <2>4. /\ DOMAIN View(s) \subseteq Nat
          /\ DOMAIN View(s)' = DOMAIN View(s)
          /\ \A i \in DOMAIN View(s) :
               View(s)'[i] = IF i = nextId - 1 THEN WithChecksum(View(s)[i])
                                               ELSE View(s)[i]
      BY <2>1, <2>2, <2>3 DEF View, Overlay, TypeOK
    <2>5. VerifyChain(View(s)')
      BY <2>2, <2>4, SealCompletesChain DEF TypeOK
    <2>6. Seen(s)'
      BY <2>1, <2>5 DEF Seen
    <2>7. \A r \in Sessions \ {s} : Seen(r)'
      <3>1. \A r \in Sessions \ {s} : View(r)' = View(r) /\ pc[r] = "idle"
        BY <1>4, <2>1 DEF SealRow, View, TypeOK, HolderInv
      <3> QED
        BY <1>0, <2>1, <3>1 DEF Seen
    <2> QED
      BY <2>6, <2>7 DEF ViewInv
  <1>5. ASSUME SealRefused(s)
        PROVE  ViewInv'
    <2>1. /\ \A r \in Sessions : View(r)' = View(r)
          /\ \A r \in Sessions \ {s} : pc'[r] = pc[r]
          /\ pc'[s] = "failed"
          /\ UNCHANGED <<log, nextId, mine, prev>>
      BY <1>5 DEF SealRefused, View, Overlay, TypeOK
    <2> QED
      BY <1>0, <2>1 DEF ViewInv, Seen
  <1> QED
    BY <1>1, <1>2, <1>3, <1>4, <1>5

(* What the sessions see of the trail stays a chain, preserved by every     *)
(* action: only the holder of the lock is inside record().                  *)
LEMMA ViewStep ==
  ASSUME IInv, [Next]_vars
  PROVE  (ViewInv /\ ChainIntact)'
  <1> USE DEF IInv
  <1>0. \A s \in Sessions : Seen(s)
    BY DEF ViewInv
  <1>1. ASSUME NEW s \in Sessions,
               \/ AcquireLock(s) \/ ReadTail(s) \/ SealRow(s) \/ SealRefused(s)
               \/ \E c : InsertRow(s, c)
        PROVE  (ViewInv /\ ChainIntact)'
    <2>1. log' = log
      BY <1>1 DEF AcquireLock, ReadTail, InsertRow, SealRow, SealRefused
    <2> QED
      BY <1>1, <2>1, RecordKeepsView DEF ChainIntact
  <1>2. ASSUME NEW s \in Sessions, Commit(s) \/ Rollback(s)
        PROVE  (ViewInv /\ ChainIntact)'
    <2>1. \A r \in Sessions : pc'[r] = "idle"
      BY <1>2 DEF Commit, Rollback, Release, TypeOK, HolderInv
    <2>2. ChainIntact'
      BY <1>0, <1>2 DEF Commit, Rollback, ChainIntact, Seen
    <2>3. \A r \in Sessions : VerifyChain(View(r)')
      BY <2>1, <2>2, LockInv, OverlaidByNothing DEF IdleInv, View, ChainIntact
    <2> QED
      BY <2>1, <2>2, <2>3 DEF ViewInv, Seen
  <1>3. CASE UNCHANGED vars
    BY <1>0, <1>3 DEF vars, ViewInv, ChainIntact, Seen, View
  <1> QED
    BY <1>1, <1>2, <1>3 DEF Next, Step, Insert, Seal

LEMMA Invariance == Spec => []IInv
  <1>1. IInv /\ [Next]_vars => IInv'
    BY LockInv, ViewStep DEF IInv
  <1> QED
    BY InitInv, <1>1, PTL DEF Spec

(* Ids, lock and stages keep their types: every row, committed or not, has  *)
(* an id that the sequence has handed out.                                  *)
THEOREM TypeCorrect == Spec => []TypeOK
  BY Invariance, PTL DEF IInv

(* Whatever concurrent transactions call record(), commit or roll back, the *)
(* committed audit trail passes verify_chain().                             *)
THEOREM TrailVerifies == Spec => []ChainIntact
  BY Invariance, PTL DEF IInv

\* Whatever a step does, it puts rows behind the others or none.
LEMMA TrailGrows ==
  ASSUME IInv, [Next]_vars
  PROVE  /\ DOMAIN log \subseteq DOMAIN log' /\ \A i \in DOMAIN log : log'[i] = log[i]
         /\ \A i \in DOMAIN log, j \in DOMAIN log' \ DOMAIN log : i < j
  <1>1. CASE log' = log
    BY <1>1
  <1>2. ASSUME NEW s \in Sessions, Commit(s)
        PROVE  /\ DOMAIN log \subseteq DOMAIN log' /\ \A i \in DOMAIN log : log'[i] = log[i]
               /\ \A i \in DOMAIN log, j \in DOMAIN log' \ DOMAIN log : i < j
    <2>1. /\ DOMAIN log' = DOMAIN log \cup DOMAIN mine[s]
          /\ \A i \in DOMAIN log \ DOMAIN mine[s] : log'[i] = log[i]
      BY <1>2 DEF Commit, View, Overlay
    <2>2. /\ \A i \in DOMAIN log, j \in DOMAIN mine[s] : i < j
          /\ DOMAIN log \subseteq Nat
      BY DEF IInv, OrderInv, TypeOK
    <2>3. \A i \in DOMAIN log : i \notin DOMAIN mine[s]
      BY <2>2
    <2> QED
      BY <2>1, <2>2, <2>3
  <1>3. log' = log \/ \E s \in Sessions : Commit(s)
    BY DEF Next, Step, AcquireLock, ReadTail, Insert, InsertRow, Seal, SealRow, SealRefused,
       Rollback, vars
  <1> QED
    BY <1>1, <1>2, <1>3

(* No step rewrites or removes a committed row, and each commit puts its    *)
(* rows behind all the earlier ones.                                        *)
THEOREM TrailOnlyGrows == Spec => AppendOnly
  <1> DEFINE Grows ==
        /\ \A i \in DOMAIN log : i \in DOMAIN log' /\ log'[i] = log[i]
        /\ \A i \in DOMAIN log : \A j \in DOMAIN log' \ DOMAIN log : i < j
  <1>1. IInv /\ [Next]_vars => [Grows]_vars
    BY TrailGrows
  <1> QED
    BY Invariance, <1>1, PTL DEF Spec, AppendOnly

-----------------------------------------------------------------------------

(* Redaction.  Rows are rehashed by a recursion over their ids, which is    *)
(* defined because ids are bounded naturals.                                *)

LEMMA LeastElement ==
  ASSUME NEW T, T \subseteq Nat, T # {}
  PROVE  \E x \in T : \A y \in T : x <= y
  <1> DEFINE Less == {ss \in Nat \X Nat : ss[1] < ss[2]}
  <1>1. IsWellFoundedOn(Less, Nat)
    BY NatLessThanWellFounded DEF OpToRel
  <1>2. \A x, y \in T : <<y, x>> \notin Less => x <= y
    OBVIOUS
  <1> HIDE DEF Less
  <1>3. PICK x \in T : \A y \in T : <<y, x>> \notin Less
    BY <1>1, WFMin
  <1> QED
    BY <1>2, <1>3

LEMMA MaxIsGreatest ==
  ASSUME NEW n \in Nat, NEW T, T \subseteq 0 .. n, T # {}
  PROVE  Max(T) \in T /\ \A y \in T : y <= Max(T)
  <1> DEFINE Above == {k \in Nat : \A y \in T : y <= k}
  <1>1. n \in Above
    OBVIOUS
  <1>2. PICK m \in Above : \A k \in Above : m <= k
    BY <1>1, LeastElement
  <1>3. m \in T
    <2>1. SUFFICES ASSUME m \notin T PROVE FALSE
      OBVIOUS
    <2>2. \A y \in T : y < m
      BY <1>2, <2>1
    <2>3. m - 1 \in Nat
      <3>1. PICK y \in T : y < m
        BY <2>2
      <3> QED
        BY <3>1
    <2>4. m - 1 \in Above
      BY <2>2, <2>3
    <2> QED
      BY <1>2, <2>4
  <1>4. \E x \in T : \A y \in T : x >= y
    BY <1>2, <1>3
  <1>5. Max(T) \in T /\ \A y \in T : Max(T) >= y
    BY <1>4, Zenon DEF Max
  <1> QED
    BY <1>5

\* The i-th row of a chain with these contents.
RowAt(rows, contents, first, i) ==
  LET earlier == {j \in DOMAIN contents : j < i}
      p == IF earlier = {} THEN first ELSE rows[Max(earlier)].sum
  IN WithChecksum([content |-> contents[i], prev |-> p, sum |-> Blank])

\* The first rows of it, those with ids below k.
Upto(contents, first, k, rows) ==
  rows = [i \in {j \in DOMAIN contents : j < k} |-> RowAt(rows, contents, first, i)]

LEMMA ChainedIsDefined ==
  ASSUME NEW n \in Nat, NEW contents, DOMAIN contents \subseteq 0 .. n, NEW first
  PROVE  /\ DOMAIN Chained(contents, first) = DOMAIN contents
         /\ \A i \in DOMAIN contents :
              Chained(contents, first)[i] = RowAt(Chained(contents, first), contents, first, i)
  <1> DEFINE D == DOMAIN contents
             Fails == {k \in Nat : \A rows : ~Upto(contents, first, k, rows)}
  <1>1. Fails = {}
    <2>1. SUFFICES ASSUME Fails # {} PROVE FALSE
      OBVIOUS
    <2>2. PICK k \in Fails : \A j \in Fails : k <= j
      BY <2>1, LeastElement
    <2>3. k # 0
      <3> DEFINE none == [i \in {} |-> 0]
      <3>1. Upto(contents, first, 0, none)
        BY DEF Upto
      <3> QED
        BY <2>2, <3>1
    <2>4. k - 1 \in Nat /\ k - 1 \notin Fails
      BY <2>2, <2>3
    <2>5. PICK rows : Upto(contents, first, k - 1, rows)
      BY <2>4
    <2> DEFINE more == [i \in {j \in D : j < k} |->
                          IF i < k - 1 THEN rows[i] ELSE RowAt(rows, contents, first, i)]
    <2>6. ASSUME NEW i \in DOMAIN more
          PROVE  more[i] = RowAt(more, contents, first, i)
      <3> DEFINE earlier == {j \in D : j < i}
      <3>1. i \in D /\ i \in Nat /\ i < k
        OBVIOUS
      <3>2. earlier # {} => Max(earlier) \in D /\ Max(earlier) < i
        BY MaxIsGreatest
      <3>3. earlier # {} => more[Max(earlier)] = rows[Max(earlier)]
        BY <3>1, <3>2
      <3>4. i < k - 1 => rows[i] = RowAt(rows, contents, first, i)
        BY <2>5, <3>1 DEF Upto
      <3>5. more[i] = RowAt(rows, contents, first, i)
        BY <3>1, <3>4
      <3> HIDE DEF more
      <3>6. RowAt(more, contents, first, i) = RowAt(rows, contents, first, i)
        BY <3>3 DEF RowAt
      <3> QED
        BY <3>5, <3>6
    <2>7. DOMAIN more = {j \in D : j < k} /\ more = [i \in DOMAIN more |-> more[i]]
      OBVIOUS
    <2> HIDE DEF more
    <2>8. Upto(contents, first, k, more)
      BY <2>6, <2>7 DEF Upto
    <2> QED
      BY <2>2, <2>8
  <1>2. n + 1 \in Nat /\ n + 1 \notin Fails
    BY <1>1
  <1>3. PICK rows : Upto(contents, first, n + 1, rows)
    BY <1>2
  <1>4. D = {j \in D : j < n + 1}
    OBVIOUS
  <1>5. rows = [i \in D |-> RowAt(rows, contents, first, i)]
    BY <1>3, <1>4 DEF Upto
  <1>6. LET c == Chained(contents, first) IN c = [i \in D |-> RowAt(c, contents, first, i)]
    BY <1>5 DEF Chained, RowAt
  <1> QED
    BY <1>6

(* What the recursion yields: sealed rows, each linked to the one before.   *)
LEMMA ChainedIsChain ==
  ASSUME NEW n \in Nat, NEW contents, DOMAIN contents \subseteq 0 .. n, NEW first,
         NEW rows, rows = Chained(contents, first)
  PROVE  /\ DOMAIN rows = DOMAIN contents
         /\ \A i \in DOMAIN rows :
              /\ rows[i].content = contents[i] /\ Sealed(rows, i)
              /\ IsFirst(rows, i) => rows[i].prev = first
              /\ \A j \in DOMAIN rows : Precedes(rows, j, i) => rows[i].prev = rows[j].sum
  <1>1. /\ DOMAIN rows = DOMAIN contents
        /\ \A i \in DOMAIN rows : rows[i] = RowAt(rows, contents, first, i)
    BY ChainedIsDefined
  <1>2. ASSUME NEW i \in DOMAIN rows
        PROVE  /\ rows[i].content = contents[i] /\ Sealed(rows, i)
               /\ IsFirst(rows, i) => rows[i].prev = first
               /\ \A j \in DOMAIN rows : Precedes(rows, j, i) => rows[i].prev = rows[j].sum
    <2> DEFINE earlier == {j \in DOMAIN contents : j < i}
    <2>1. /\ rows[i].content = contents[i] /\ Sealed(rows, i)
          /\ rows[i].prev = IF earlier = {} THEN first ELSE rows[Max(earlier)].sum
      BY <1>1 DEF RowAt, WithChecksum, Sealed
    <2>2. IsFirst(rows, i) => earlier = {}
      BY <1>1 DEF IsFirst
    <2>3. ASSUME NEW j \in DOMAIN rows, Precedes(rows, j, i)
          PROVE  earlier # {} /\ j = Max(earlier)
      <3>1. j \in earlier /\ \A k \in earlier : k <= j
        BY <1>1, <2>3 DEF Precedes
      <3>2. Max(earlier) \in earlier /\ j <= Max(earlier) /\ Max(earlier) <= j
        BY <3>1, MaxIsGreatest
      <3> QED
        BY <3>1, <3>2
    <2> QED
      BY <2>1, <2>2, <2>3
  <1> QED
    BY <1>1, <1>2

\* What verify_chain() sees of a row.
SameRow(a, b) == a.content = b.content /\ a.prev = b.prev /\ a.sum = b.sum

(* The rows of a chain from an id on may be exchanged for another chain     *)
(* that starts at the same checksum: what a redaction does to the trail.    *)
LEMMA RehashKeepsChain ==
  ASSUME NEW n \in Nat, NEW m \in Nat, NEW base, NEW own, NEW rows, NEW contents, NEW first,
         DOMAIN base \subseteq 0 .. n, VerifyChain(base),
         DOMAIN own = {i \in DOMAIN base : i >= m}, DOMAIN contents = DOMAIN own,
         rows = Chained(contents, first), \A i \in DOMAIN own : SameRow(own[i], rows[i]),
         LET before == {i \in DOMAIN base : i < m}
         IN  first = IF before = {} THEN Genesis ELSE base[Max(before)].sum
  PROVE  VerifyChain(Overlay(own, base))
  <1> DEFINE new == Overlay(own, base)
             before == {i \in DOMAIN base : i < m}
  <1>1. /\ DOMAIN new = DOMAIN base
        /\ \A i \in DOMAIN own : new[i] = own[i] /\ i \in DOMAIN base /\ i >= m
        /\ \A i \in DOMAIN base : i \notin DOMAIN own => new[i] = base[i] /\ i < m
    BY DEF Overlay
  <1>2. /\ DOMAIN rows = DOMAIN own
        /\ \A i \in DOMAIN rows :
              /\ rows[i].content = contents[i] /\ Sealed(rows, i)
              /\ IsFirst(rows, i) => rows[i].prev = first
              /\ \A j \in DOMAIN rows : Precedes(rows, j, i) => rows[i].prev = rows[j].sum
    BY ChainedIsChain
  <1> HIDE DEF new
  <1>3. ASSUME NEW i \in DOMAIN base, i \notin DOMAIN own
        PROVE  Linked(new, i) /\ Sealed(new, i)
    <2>1. Linked(base, i) /\ Sealed(base, i) /\ new[i] = base[i] /\ i < m
      BY <1>1, <1>3 DEF VerifyChain
    <2>2. IsFirst(new, i) => IsFirst(base, i)
      BY <1>1 DEF IsFirst
    <2>3. ASSUME NEW j \in DOMAIN base, Precedes(new, j, i)
          PROVE  Precedes(base, j, i) /\ new[j] = base[j]
      BY <1>1, <2>1, <2>3 DEF Precedes
    <2> QED
      BY <1>1, <2>1, <2>2, <2>3 DEF Linked, Sealed
  <1>4. ASSUME NEW i \in DOMAIN own
        PROVE  Linked(new, i) /\ Sealed(new, i)
    <2>1. SameRow(new[i], rows[i]) /\ i \in DOMAIN rows /\ i \in DOMAIN base /\ i >= m
      BY <1>1, <1>2
    <2>2. Sealed(new, i)
      <3>1. rows[i].sum = Hash(rows[i].content, rows[i].prev)
        BY <1>2, <2>1 DEF Sealed
      <3> QED
        BY <2>1, <3>1 DEF Sealed, SameRow
    <2>3. ASSUME IsFirst(new, i)
          PROVE  new[i].prev = Genesis
      <3>1. IsFirst(rows, i) /\ before = {}
        BY <1>1, <1>2, <2>1, <2>3 DEF IsFirst
      <3> QED
        BY <1>2, <2>1, <3>1 DEF SameRow
    <2>4. ASSUME NEW j \in DOMAIN base, Precedes(new, j, i)
          PROVE  new[i].prev = new[j].sum
      <3>1. CASE j \in DOMAIN own
        <4>1. Precedes(rows, j, i) /\ j \in DOMAIN rows
          BY <1>1, <1>2, <2>1, <2>4, <3>1 DEF Precedes
        <4>2. SameRow(new[j], rows[j])
          BY <1>1, <3>1
        <4> QED
          BY <1>2, <2>1, <4>1, <4>2 DEF SameRow
      <3>2. CASE j \notin DOMAIN own
        <4>1. j \in before /\ new[j] = base[j]
          BY <1>1, <3>2
        <4>2. \A k \in DOMAIN base : k <= j \/ i <= k
          BY <1>1, <2>4 DEF Precedes
        <4>3. IsFirst(rows, i)
          BY <1>1, <1>2, <2>1, <4>1, <4>2 DEF IsFirst
        <4>4. Max(before) = j
          <5>1. Max(before) \in before /\ j <= Max(before)
            BY <4>1, MaxIsGreatest
          <5> QED
            BY <2>1, <4>1, <4>2, <5>1
        <4>5. first = new[j].sum
          BY <4>1, <4>4
        <4>6. rows[i].prev = first
          BY <1>2, <2>1, <4>3
        <4> QED
          BY <2>1, <4>5, <4>6 DEF SameRow
      <3> QED
        BY <3>1, <3>2
    <2> QED
      BY <1>1, <2>2, <2>3, <2>4 DEF Linked
  <1>5. VerifyChain(new)
    BY <1>1, <1>3, <1>4 DEF VerifyChain
  <1> QED
    BY <1>5 DEF new

-----------------------------------------------------------------------------

\* Redactions.  RInv says which rows a session holds, that nobody else holds
\* them, that markers survive in them, and what a redaction that nobody raced has
\* loaded.

Content == [of : People \cup {Nobody}, diff : {Data} \cup Redactors]

RedactionTypes ==
  /\ RTypeOK /\ DOMAIN ids = Redactors /\ DOMAIN loaded = Redactors
  /\ \A r \in Redactors : DOMAIN loaded[r] \subseteq DOMAIN log

ContentInv ==
  /\ \A i \in DOMAIN log : log[i].content \in Content
  /\ \A s \in Sessions : \A i \in DOMAIN mine[s] : mine[s][i].content \in Content
  /\ \A r \in Redactors : \A i \in DOMAIN loaded[r] : loaded[r][i].content \in Content

\* Sessions that have rewritten nothing yet.
Untouched(s) == s \in Redactors => stage[s] # "ready" \/ ids[s] = {}

StageInv ==
  /\ \A r \in Redactors : pc[r] # "idle" => stage[r] = "ready"
  /\ \A r \in Redactors : stage[r] \in {"loaded", "rehash"} => ids[r] # {}
  /\ \A s \in Sessions : pc[s] = "idle" /\ Untouched(s) => DOMAIN mine[s] = {}

ApartInv ==
  \A s, q \in Sessions : s # q => DOMAIN mine[s] \cap DOMAIN mine[q] = {}

\* Who rewrites rows has opted in to the bypass of the trigger.
BypassInv ==
  \A r \in Redactors :
    stage[r] \in {"loaded", "rehash", "ready"} /\ ids[r] # {} => r \in bypass

StickInv ==
  \A s \in Sessions : \A i \in DOMAIN log \cap DOMAIN mine[s] :
    log[i].content.diff # Data => mine[s][i].content.diff # Data

Before(r) == {i \in DOMAIN log : i < Min(ids[r])}
Preceding(r) == IF Before(r) = {} THEN Genesis ELSE log[Max(Before(r))].sum
FromFirst(r) == [i \in {k \in DOMAIN log : k >= Min(ids[r])} |-> log[i]]

LoadedInv ==
  \A r \in Redactors :
    /\ stage[r] \in {"loaded", "rehash"} => loaded[r] = FromFirst(r)
    /\ stage[r] = "rehash" => prev[r] = Preceding(r)

RacedInv == ~raced => ChainIntact /\ ViewInv /\ LoadedInv

RInv == /\ RedactionTypes /\ HolderInv /\ ContentInv /\ StageInv /\ ApartInv
        /\ BypassInv /\ StickInv /\ RacedInv

-----------------------------------------------------------------------------

\* Every step of record(), with what redactions and ordinary sessions add to it.
Records(s) ==
  /\ s \in Redactors => stage[s] = "ready"
  /\ \/ AcquireLock(s) \/ ReadTail(s) \/ SealRefused(s)
     \/ \E c \in Content : c.diff = Data /\ InsertRow(s, c)
     \/ SealRow(s)
  /\ UNCHANGED <<rvars, guarded>>

Ends(s) ==
  /\ stage' = [stage EXCEPT ![s] = "done"]
  /\ bypass' = bypass \ {s}
  /\ UNCHANGED <<ids, loaded, guarded>>

Commits(s) == Commit(s) /\ raced' = Races(s) /\ Ends(s)
Aborts(s) == Release(s) /\ UNCHANGED <<log, raced>> /\ Ends(s)

Prepares(r) ==
  /\ \/ \E p \in People : SelectIds(r, p)
     \/ NothingToRedact(r) \/ LoadRows(r) \/ LoadPreceding(r) \/ FlushRedaction(r)
  /\ UNCHANGED guarded

LEMMA RNextCases ==
  ASSUME RedactionTypes, RNext
  PROVE  \/ \E s \in Sessions : Records(s) \/ Commits(s) \/ Aborts(s)
         \/ \E r \in Redactors : Prepares(r)
  <1>1. guarded' = guarded
    BY DEF RNext
  <1>2. ASSUME NEW s \in Sessions \ Redactors
        PROVE  /\ s \notin bypass /\ bypass \ {s} = bypass
               /\ [stage EXCEPT ![s] = "done"] = stage
    BY <1>2 DEF RedactionTypes, RTypeOK
  <1>3. ASSUME NEW s \in Sessions \ Redactors, Write(s)
        PROVE  Records(s) \/ Commits(s) \/ Aborts(s)
    <2>1. \A c \in Contents : c \in Content /\ c.diff = Data
      BY ContentsAssumption DEF Content
    <2>2. CASE Commit(s) /\ raced' = Races(s) /\ UNCHANGED <<stage, ids, loaded, bypass>>
      BY <1>1, <1>2, <2>2 DEF Commits, Ends
    <2>3. CASE Rollback(s) /\ UNCHANGED rvars
      BY <1>1, <1>2, <2>3 DEF Rollback, Aborts, Ends, rvars
    <2>4. CASE /\ AcquireLock(s) \/ ReadTail(s) \/ Insert(s) \/ Seal(s) \/ SealRefused(s)
               /\ UNCHANGED rvars
      BY <1>1, <2>1, <2>4 DEF Records, Insert, Seal
    <2> QED
      BY <1>3, <2>2, <2>3, <2>4 DEF Write
  <1>4. ASSUME NEW r \in Redactors, RedactorRecords(r)
        PROVE  Records(r)
    <2>1. Notice \in Content /\ Notice.diff = Data
      BY DEF Notice, Entry, Content
    <2> QED
      BY <1>1, <1>4, <2>1 DEF RedactorRecords, Records, Seal
  <1>5. ASSUME NEW r \in Redactors, RedactorCommits(r) \/ RedactorFails(r)
        PROVE  Commits(r) \/ Aborts(r)
    BY <1>1, <1>5 DEF RedactorCommits, RedactorFails, Commits, Aborts, Ends
  <1> QED
    BY <1>1, <1>3, <1>4, <1>5, RedactorsAssumption DEF RNext, Redact, Prepares

\* A session's own step of record(): what it changes, and for whom.
Recorded(s) ==
  /\ log' = log /\ nextId' \in {nextId, nextId + 1} /\ UNCHANGED rvars /\ guarded' = guarded
  /\ DOMAIN mine' = Sessions /\ DOMAIN prev' = Sessions /\ pc' \in [Sessions -> Stages]
  /\ \A q \in Sessions \ {s} : pc'[q] = pc[q] /\ mine'[q] = mine[q] /\ prev'[q] = prev[q]
  /\ pc'[s] # "idle"
  /\ holder \in {NoSession, s} /\ holder' = s
  /\ s \in Redactors => stage[s] = "ready"
  /\ DOMAIN mine[s] \subseteq DOMAIN mine'[s]
  /\ \A i \in DOMAIN mine'[s] :
       \/ i \in DOMAIN mine[s] /\ mine'[s][i].content = mine[s][i].content
       \/ /\ i = nextId /\ nextId' = nextId + 1
          /\ mine'[s][i].content \in Content /\ mine'[s][i].content.diff = Data

LEMMA RecordsChanges ==
  ASSUME RedactionTypes, HolderInv, NEW s \in Sessions, Records(s)
  PROVE  Recorded(s)
  <1>1. TypeOK
    BY DEF RedactionTypes, RTypeOK
  <1>2. UNCHANGED rvars /\ guarded' = guarded /\ (s \in Redactors => stage[s] = "ready")
    BY DEF Records
  <1>3. CASE AcquireLock(s)
    BY <1>1, <1>2, <1>3 DEF AcquireLock, Recorded, TypeOK, Stages
  <1>4. CASE ReadTail(s)
    <2>1. DOMAIN prev' = Sessions /\ \A q \in Sessions \ {s} : prev'[q] = prev[q]
      BY <1>1, <1>4 DEF ReadTail, TypeOK
    <2> QED
      BY <1>1, <1>2, <1>4, <2>1 DEF ReadTail, Recorded, TypeOK, Stages, HolderInv
  <1>5. CASE SealRefused(s)
    BY <1>1, <1>2, <1>5 DEF SealRefused, Recorded, TypeOK, Stages, HolderInv
  <1>6. ASSUME NEW c \in Content, c.diff = Data, InsertRow(s, c)
        PROVE  Recorded(s)
    <2>1. /\ DOMAIN mine' = Sessions /\ DOMAIN mine'[s] = DOMAIN mine[s] \cup {nextId}
          /\ \A q \in Sessions \ {s} : mine'[q] = mine[q]
          /\ \A i \in DOMAIN mine[s] : i # nextId /\ mine'[s][i] = mine[s][i]
          /\ mine'[s][nextId].content = c
      BY <1>1, <1>6 DEF InsertRow, TypeOK
    <2> QED
      BY <1>1, <1>2, <1>6, <2>1 DEF InsertRow, Recorded, TypeOK, Stages, HolderInv
  <1>7. CASE SealRow(s)
    <2>1. /\ DOMAIN mine' = Sessions /\ DOMAIN mine'[s] = DOMAIN mine[s]
          /\ \A q \in Sessions \ {s} : mine'[q] = mine[q]
          /\ \A i \in DOMAIN mine[s] : mine'[s][i].content = mine[s][i].content
      BY <1>1, <1>7 DEF SealRow, TypeOK, WithChecksum
    <2> QED
      BY <1>1, <1>2, <1>7, <2>1 DEF SealRow, Recorded, TypeOK, Stages, HolderInv
  <1> QED
    BY <1>3, <1>4, <1>5, <1>6, <1>7 DEF Records

LEMMA RecordStep ==
  ASSUME RInv, NEW s \in Sessions, Records(s)
  PROVE  RInv'
  <1>1. Recorded(s)
    BY RecordsChanges DEF RInv
  <1>2. UNCHANGED <<stage, ids, loaded, bypass, raced>>
    BY <1>1 DEF Recorded, rvars
  <1>3. RedactionTypes'
    <2>1. TypeOK'
      <3>1. nextId \in Nat \ {0} /\ nextId' \in Nat \ {0} /\ nextId <= nextId'
        BY <1>1 DEF RInv, RedactionTypes, RTypeOK, TypeOK, Recorded
      <3>2. ASSUME NEW q \in Sessions
            PROVE  DOMAIN mine'[q] \subseteq 1 .. (nextId' - 1)
        <4>1. DOMAIN mine[q] \subseteq 1 .. (nextId - 1)
          BY DEF RInv, RedactionTypes, RTypeOK, TypeOK
        <4>2. CASE q = s
          BY <1>1, <3>1, <4>1, <4>2 DEF Recorded
        <4>3. CASE q # s
          BY <1>1, <3>1, <4>1, <4>3 DEF Recorded
        <4> QED
          BY <4>2, <4>3
      <3> QED
        BY <1>1, <3>1, <3>2 DEF RInv, RedactionTypes, RTypeOK, TypeOK, Recorded
    <2> QED
      BY <1>1, <1>2, <2>1 DEF RInv, RedactionTypes, RTypeOK, Recorded
  <1>4. HolderInv'
    BY <1>1, SessionsAssumption DEF RInv, HolderInv, Recorded
  <1>5. ContentInv'
    <2>1. ASSUME NEW q \in Sessions, NEW i \in DOMAIN mine'[q]
          PROVE  mine'[q][i].content \in Content
      BY <1>1, <2>1 DEF RInv, ContentInv, Recorded
    <2> QED
      BY <1>1, <1>2, <2>1 DEF RInv, ContentInv, Recorded
  <1>6. StageInv'
    <2>1. \A r \in Redactors : pc'[r] # "idle" => stage'[r] = "ready"
      BY <1>1, <1>2, RedactorsAssumption DEF RInv, StageInv, Recorded
    <2>2. ASSUME NEW q \in Sessions, pc'[q] = "idle", Untouched(q)
          PROVE  DOMAIN mine'[q] = {}
      BY <1>1, <2>2 DEF RInv, StageInv, Recorded
    <2> QED
      BY <1>2, <2>1, <2>2 DEF RInv, StageInv, Untouched
  <1>7. ApartInv'
    <2>1. ASSUME NEW q \in Sessions, q # s
          PROVE  DOMAIN mine'[s] \cap DOMAIN mine'[q] = {}
      <3>1. nextId \notin DOMAIN mine[q] /\ DOMAIN mine[s] \cap DOMAIN mine[q] = {}
        BY <2>1 DEF RInv, RedactionTypes, RTypeOK, TypeOK, ApartInv
      <3> QED
        BY <1>1, <2>1, <3>1 DEF Recorded
    <2> QED
      BY <1>1, <2>1 DEF RInv, ApartInv, Recorded
  <1>8. BypassInv'
    BY <1>2 DEF RInv, BypassInv
  <1>9. StickInv'
    <2>1. ASSUME NEW q \in Sessions, NEW i \in DOMAIN log \cap DOMAIN mine'[q]
          PROVE  i \in DOMAIN mine[q] /\ mine'[q][i].content = mine[q][i].content
      <3>1. i # nextId
        BY <2>1 DEF RInv, RedactionTypes, RTypeOK, TypeOK
      <3> QED
        BY <1>1, <2>1, <3>1 DEF Recorded
    <2> QED
      BY <1>1, <2>1 DEF RInv, StickInv, Recorded
  <1>10. RacedInv'
    <2> SUFFICES ASSUME ~raced
                 PROVE  (ChainIntact /\ ViewInv /\ LoadedInv)'
      BY <1>2 DEF RacedInv
    <2>1. ChainIntact /\ ViewInv /\ LoadedInv
      BY DEF RInv, RacedInv
    <2>2. ChainIntact'
      BY <1>1, <2>1 DEF ChainIntact, Recorded
    <2>3. ViewInv'
      BY <2>1, RecordKeepsView DEF RInv, RedactionTypes, RTypeOK, Records
    <2>4. LoadedInv'
      <3>1. ASSUME NEW r \in Redactors, stage[r] \in {"loaded", "rehash"}
            PROVE  prev'[r] = prev[r]
        BY <1>1, <3>1, RedactorsAssumption DEF Recorded
      <3> QED
        BY <1>1, <1>2, <2>1, <3>1 DEF LoadedInv, FromFirst, Preceding, Before, Recorded
    <2> QED
      BY <2>2, <2>3, <2>4
  <1> QED
    BY <1>3, <1>4, <1>5, <1>6, <1>7, <1>8, <1>9, <1>10 DEF RInv

\* The end of a transaction: its rows are in the trail or gone.
Ended(s) ==
  /\ Ends(s) /\ nextId' = nextId /\ prev' = prev
  /\ pc' \in [Sessions -> Stages] /\ pc'[s] = "idle"
  /\ DOMAIN mine' = Sessions /\ DOMAIN mine'[s] = {}
  /\ \A q \in Sessions \ {s} : pc'[q] = pc[q] /\ mine'[q] = mine[q]
  /\ \A r \in Redactors : stage'[r] = IF r = s THEN "done" ELSE stage[r]
  /\ holder' = IF holder = s THEN NoSession ELSE holder

LEMMA EndsChanges ==
  ASSUME RedactionTypes, NEW s \in Sessions, Release(s), Ends(s)
  PROVE  Ended(s)
  BY DEF RedactionTypes, RTypeOK, TypeOK, Stages, Release, Ends, Ended, NoRows

(* What the end of a transaction keeps, if it puts at most its own rows     *)
(* into the trail.                                                          *)
LEMMA EndStep ==
  ASSUME RInv, NEW s \in Sessions, Ended(s), log' = log \/ log' = View(s), raced' \in BOOLEAN
  PROVE  /\ RedactionTypes' /\ HolderInv' /\ ContentInv' /\ StageInv' /\ ApartInv'
         /\ BypassInv' /\ StickInv'
  <1>1. /\ DOMAIN log \subseteq DOMAIN log' /\ DOMAIN log' \subseteq DOMAIN log \cup DOMAIN mine[s]
        /\ \A i \in DOMAIN log' :
             \/ i \in DOMAIN log /\ log'[i] = log[i]
             \/ i \in DOMAIN mine[s] /\ log'[i] = mine[s][i]
    BY DEF View, Overlay
  <1>2. /\ UNCHANGED <<ids, loaded, guarded>> /\ bypass' = bypass \ {s}
        /\ stage' = [stage EXCEPT ![s] = "done"]
    BY DEF Ended, Ends
  <1>3. RedactionTypes'
    <2>1. TypeOK'
      BY <1>1, <1>2 DEF RInv, RedactionTypes, RTypeOK, TypeOK, Ended
    <2>2. bypass' \subseteq Redactors /\ DOMAIN ids' = Redactors /\ DOMAIN loaded' = Redactors
      BY <1>2 DEF RInv, RedactionTypes, RTypeOK
    <2>3. stage' \in [Redactors -> {"start", "selected", "loaded", "rehash", "ready", "done"}]
      BY <1>2 DEF RInv, RedactionTypes, RTypeOK
    <2>4. \A r \in Redactors :
            ids'[r] \subseteq DOMAIN log' /\ DOMAIN loaded'[r] \subseteq DOMAIN log'
      BY <1>1, <1>2 DEF RInv, RedactionTypes, RTypeOK
    <2> QED
      BY <2>1, <2>2, <2>3, <2>4 DEF RedactionTypes, RTypeOK
  <1>4. HolderInv'
    BY DEF RInv, HolderInv, Ended
  <1>5. ContentInv'
    <2>1. \A i \in DOMAIN log' : log'[i].content \in Content
      BY <1>1 DEF RInv, ContentInv
    <2>2. \A q \in Sessions : \A i \in DOMAIN mine'[q] : mine'[q][i].content \in Content
      BY DEF RInv, ContentInv, Ended
    <2> QED
      BY <1>2, <2>1, <2>2 DEF RInv, ContentInv
  <1>6. StageInv'
    <2>1. \A r \in Redactors : pc'[r] # "idle" => stage'[r] = "ready"
      BY RedactorsAssumption DEF RInv, StageInv, Ended
    <2>2. \A r \in Redactors : stage'[r] \in {"loaded", "rehash"} => ids'[r] # {}
      BY <1>2 DEF RInv, StageInv, Ended
    <2>3. ASSUME NEW q \in Sessions, pc'[q] = "idle", Untouched(q)'
          PROVE  DOMAIN mine'[q] = {}
      BY <1>2, <2>3 DEF RInv, StageInv, Ended, Untouched
    <2> QED
      BY <2>1, <2>2, <2>3 DEF StageInv
  <1>7. ApartInv'
    BY DEF RInv, ApartInv, Ended
  <1>8. BypassInv'
    BY <1>2 DEF RInv, BypassInv, Ended
  <1>9. StickInv'
    <2>1. ASSUME NEW q \in Sessions, NEW i \in DOMAIN log' \cap DOMAIN mine'[q]
          PROVE  i \in DOMAIN log /\ log'[i] = log[i] /\ mine'[q] = mine[q]
      <3>1. q # s /\ mine'[q] = mine[q]
        BY <2>1 DEF Ended
      <3>2. i \notin DOMAIN mine[s]
        BY <2>1, <3>1 DEF RInv, ApartInv
      <3> QED
        BY <1>1, <3>1, <3>2
    <2> QED
      BY <2>1 DEF RInv, StickInv
  <1> QED
    BY <1>3, <1>4, <1>5, <1>6, <1>7, <1>8, <1>9

LEMMA AbortStep ==
  ASSUME RInv, NEW s \in Sessions, Aborts(s)
  PROVE  RInv'
  <1>1. Ended(s) /\ log' = log /\ raced' = raced /\ UNCHANGED <<ids, loaded>>
    BY EndsChanges DEF RInv, Aborts, Ends
  <1>2. raced' \in BOOLEAN
    BY <1>1 DEF RInv, RedactionTypes, RTypeOK
  <1>3. ASSUME ~raced
        PROVE  (ChainIntact /\ ViewInv /\ LoadedInv)'
    <2>1. ChainIntact /\ ViewInv /\ LoadedInv
      BY <1>3 DEF RInv, RacedInv
    <2>2. ChainIntact'
      BY <1>1, <2>1 DEF ChainIntact
    <2>3. Seen(s)'
      <3>1. VerifyChain(View(s)')
        BY <1>1, <2>2, OverlaidByNothing DEF Ended, View, ChainIntact
      <3> QED
        BY <1>1, <3>1 DEF Seen, Ended
    <2>4. ASSUME NEW q \in Sessions, q # s
          PROVE  Seen(q)'
      <3>1. pc'[q] = pc[q] /\ View(q)' = View(q) /\ Seen(q) /\ mine'[q] = mine[q]
        BY <1>1, <2>1, <2>4 DEF Ended, View, ViewInv
      <3> QED
        BY <1>1, <3>1 DEF Ended, Seen
    <2>5. LoadedInv'
      BY <1>1, <2>1 DEF LoadedInv, Ended, FromFirst, Preceding, Before
    <2> QED
      BY <2>2, <2>3, <2>4, <2>5 DEF ViewInv
  <1> QED
    BY <1>1, <1>2, <1>3, EndStep DEF RInv, RacedInv

LEMMA CommitStep ==
  ASSUME RInv, NEW s \in Sessions, Commits(s)
  PROVE  RInv'
  <1>1. Ended(s) /\ log' = View(s) /\ raced' = Races(s) /\ pc[s] = "sealed"
    BY EndsChanges DEF RInv, Commits, Commit
  <1>2. raced' \in BOOLEAN
    BY <1>1 DEF RInv, RedactionTypes, RTypeOK, Races
  <1>3. ASSUME ~raced'
        PROVE  (ChainIntact /\ ViewInv /\ LoadedInv)'
    <2>1. ~raced /\ \A r \in Redactors \ {s} : ~InWindow(r)
      BY <1>1, <1>3 DEF Races
    <2>2. ChainIntact'
      BY <1>1, <2>1 DEF RInv, RacedInv, ViewInv, Seen, ChainIntact
    <2>3. ASSUME NEW q \in Sessions, q # s
          PROVE  pc[q] = "idle"
      BY <1>1, <2>3 DEF RInv, HolderInv
    <2>4. ASSUME NEW q \in Sessions
          PROVE  pc'[q] = "idle" /\ DOMAIN mine'[q] = {}
      <3>1. CASE q = s
        BY <1>1, <3>1 DEF Ended
      <3>2. CASE q # s
        <4>1. pc[q] = "idle" /\ Untouched(q)
          BY <2>1, <2>3, <3>2 DEF InWindow, Untouched
        <4> QED
          BY <1>1, <3>2, <4>1 DEF RInv, StageInv, Ended
      <3> QED
        BY <3>1, <3>2
    <2>5. ViewInv'
      <3>1. \A q \in Sessions : VerifyChain(View(q)')
        BY <2>2, <2>4, OverlaidByNothing DEF View, ChainIntact
      <3> QED
        BY <2>4, <3>1 DEF ViewInv, Seen
    <2>6. LoadedInv'
      <3>1. ASSUME NEW r \in Redactors, stage'[r] \in {"loaded", "rehash"}
            PROVE  FALSE
        <4>1. r # s /\ stage[r] \in {"loaded", "rehash"}
          BY <1>1, <3>1 DEF Ended
        <4>2. ids[r] # {} /\ pc[r] = "idle"
          BY <2>3, <4>1, RedactorsAssumption DEF RInv, StageInv
        <4> QED
          BY <2>1, <4>1, <4>2 DEF InWindow
      <3> QED
        BY <3>1 DEF LoadedInv
    <2> QED
      BY <2>2, <2>5, <2>6
  <1> QED
    BY <1>1, <1>2, <1>3, EndStep DEF RInv, RacedInv

(* The rows a redaction is about to write: their contents, and that nothing *)
(* it does not redact changes.                                              *)
LEMMA RehashedContents ==
  ASSUME RInv, NEW r \in Redactors
  PROVE  /\ DOMAIN Rehashed(r) = DOMAIN loaded[r]
         /\ \A i \in DOMAIN loaded[r] :
              /\ Rehashed(r)[i].content = Redacted(r)[i]
              /\ Rehashed(r)[i].content \in Content
              /\ Rehashed(r)[i].content # loaded[r][i].content
                   => Rehashed(r)[i].content.diff # Data
  <1>1. DOMAIN Redacted(r) = DOMAIN loaded[r] /\ nextId \in Nat
        /\ DOMAIN loaded[r] \subseteq 0 .. nextId
    BY DEF RInv, RedactionTypes, RTypeOK, TypeOK, Redacted
  <1>2. /\ DOMAIN Rehashed(r) = DOMAIN loaded[r]
        /\ \A i \in DOMAIN loaded[r] : Rehashed(r)[i].content = Redacted(r)[i]
    BY <1>1, ChainedIsChain DEF Rehashed
  <1>3. ASSUME NEW i \in DOMAIN loaded[r]
        PROVE  /\ Redacted(r)[i] \in Content
               /\ Redacted(r)[i] # loaded[r][i].content => Redacted(r)[i].diff # Data
    <2>1. loaded[r][i].content \in Content
      BY DEF RInv, ContentInv
    <2>2. Marked(loaded[r][i].content, r) \in Content
          /\ Marked(loaded[r][i].content, r).diff = r
      BY <2>1 DEF Content, Marked
    <2>3. r # Data
      BY DataAssumption
    <2> QED
      BY <2>1, <2>2, <2>3 DEF Redacted
  <1> QED
    BY <1>2, <1>3

(* A step of a redaction that writes no row yet.                            *)
LEMMA LookStep ==
  ASSUME RInv, NEW r \in Redactors, guarded' = guarded,
         \/ \E p \in People : SelectIds(r, p)
         \/ NothingToRedact(r) \/ LoadRows(r) \/ LoadPreceding(r)
  PROVE  RInv'
  <1>1. /\ stage[r] \in {"start", "selected", "loaded"} /\ pc[r] = "idle"
        /\ UNCHANGED <<log, nextId, holder, pc, mine, raced, guarded>>
    <2>1. stage[r] \in {"start", "selected", "loaded"}
      BY DEF SelectIds, NothingToRedact, LoadRows, LoadPreceding
    <2> QED
      BY <2>1 DEF SelectIds, NothingToRedact, LoadRows, LoadPreceding, vars, RInv, StageInv
  <1>2. /\ stage' = [stage EXCEPT ![r] = stage'[r]]
        /\ stage'[r] \in {"selected", "loaded", "rehash", "ready"}
        /\ stage'[r] # "ready" \/ (ids[r] = {} /\ ids' = ids)
    BY DEF SelectIds, NothingToRedact, LoadRows, LoadPreceding, RInv, RedactionTypes, RTypeOK
  <1>3. /\ DOMAIN ids' = Redactors /\ ids'[r] \subseteq DOMAIN log
        /\ \A q \in Redactors \ {r} : ids'[q] = ids[q]
        /\ stage'[r] # "selected" => ids' = ids
    BY DEF SelectIds, NothingToRedact, LoadRows, LoadPreceding, RInv, RedactionTypes, RTypeOK
  <1>4. /\ DOMAIN loaded' = Redactors
        /\ \A q \in Redactors \ {r} : loaded'[q] = loaded[q]
        /\ stage'[r] = "loaded" => loaded'[r] = FromFirst(r) /\ ids[r] # {}
        /\ stage'[r] # "loaded" => loaded' = loaded
    BY DEF SelectIds, NothingToRedact, LoadRows, LoadPreceding, RInv, RedactionTypes, RTypeOK,
           FromFirst
  <1>5. bypass' = bypass \/ bypass' = bypass \cup {r}
    BY DEF SelectIds, NothingToRedact, LoadRows, LoadPreceding
  <1>6. /\ DOMAIN prev' = Sessions /\ \A q \in Sessions \ {r} : prev'[q] = prev[q]
        /\ stage'[r] = "rehash" => prev'[r] = Preceding(r) /\ stage[r] = "loaded"
    BY RedactorsAssumption DEF SelectIds, NothingToRedact, LoadRows, LoadPreceding, vars, RInv,
       RedactionTypes, RTypeOK, TypeOK, Preceding, Before
  <1>7. DOMAIN FromFirst(r) \subseteq DOMAIN log
        /\ \A i \in DOMAIN FromFirst(r) : FromFirst(r)[i] = log[i]
    BY DEF FromFirst
  <1>8. RedactionTypes'
    <2>1. TypeOK'
      BY <1>1, <1>6 DEF RInv, RedactionTypes, RTypeOK, TypeOK
    <2>2. \A q \in Redactors :
            ids'[q] \subseteq DOMAIN log /\ DOMAIN loaded'[q] \subseteq DOMAIN log
      BY <1>3, <1>4, <1>7 DEF RInv, RedactionTypes, RTypeOK
    <2>3. stage' \in [Redactors -> {"start", "selected", "loaded", "rehash", "ready", "done"}]
      BY <1>2 DEF RInv, RedactionTypes, RTypeOK
    <2> QED
      BY <1>1, <1>3, <1>4, <1>5, <2>1, <2>2, <2>3 DEF RInv, RedactionTypes, RTypeOK
  <1>9. HolderInv' /\ ApartInv' /\ BypassInv' /\ StickInv'
    <2>1. ASSUME NEW q \in Redactors, stage'[q] \in {"loaded", "rehash", "ready"}, ids'[q] # {}
          PROVE  q \in bypass'
      <3>1. CASE q # r
        BY <1>2, <1>3, <1>5, <2>1, <3>1 DEF RInv, BypassInv, RedactionTypes, RTypeOK
      <3>2. CASE q = r
        <4>1. CASE LoadRows(r)
          BY <3>2, <4>1 DEF LoadRows
        <4>2. CASE ~LoadRows(r)
          BY <1>2, <1>3, <1>4, <1>5, <1>6, <2>1, <3>2, <4>2 DEF RInv, BypassInv, SelectIds,
             NothingToRedact, LoadPreceding, RedactionTypes, RTypeOK
        <4> QED
          BY <4>1, <4>2
      <3> QED
        BY <3>1, <3>2
    <2> QED
      BY <1>1, <2>1 DEF RInv, HolderInv, ApartInv, BypassInv, StickInv
  <1>10. ContentInv'
    BY <1>1, <1>4, <1>7 DEF RInv, ContentInv
  <1>11. StageInv'
    <2>1. \A q \in Redactors : q # r => stage'[q] = stage[q]
      BY <1>2 DEF RInv, RedactionTypes, RTypeOK
    <2>2. \A q \in Redactors : pc'[q] # "idle" => stage'[q] = "ready"
      BY <1>1, <2>1 DEF RInv, StageInv
    <2>3. \A q \in Redactors : stage'[q] \in {"loaded", "rehash"} => ids'[q] # {}
      BY <1>1, <1>3, <1>4, <1>6, <2>1 DEF RInv, StageInv
    <2>4. ASSUME NEW q \in Sessions, Untouched(q)'
          PROVE  Untouched(q)
      BY <1>1, <1>3, <2>1, <2>4 DEF Untouched
    <2> QED
      BY <1>1, <2>2, <2>3, <2>4 DEF RInv, StageInv
  <1>12. ASSUME ~raced
         PROVE  (ChainIntact /\ ViewInv /\ LoadedInv)'
    <2>1. ChainIntact /\ ViewInv /\ LoadedInv
      BY <1>12 DEF RInv, RacedInv
    <2>2. ChainIntact'
      BY <1>1, <2>1 DEF ChainIntact
    <2>3. ASSUME NEW q \in Sessions
          PROVE  Seen(q)'
      <3>1. pc'[q] = pc[q] /\ View(q)' = View(q) /\ Seen(q)
        BY <1>1, <2>1 DEF View, ViewInv
      <3>2. pc[q] = "read" => prev'[q] = prev[q]
        BY <1>1, <1>6
      <3> QED
        BY <1>1, <3>1, <3>2 DEF Seen
    <2>4. ASSUME NEW q \in Redactors, stage'[q] \in {"loaded", "rehash"}
          PROVE  /\ loaded'[q] = FromFirst(q)'
                 /\ stage'[q] = "rehash" => prev'[q] = Preceding(q)'
      <3>1. ids'[q] = ids[q] /\ FromFirst(q)' = FromFirst(q) /\ Preceding(q)' = Preceding(q)
        BY <1>1, <1>3, <2>4 DEF FromFirst, Preceding, Before
      <3>2. CASE q = r
        BY <1>4, <1>6, <2>1, <2>4, <3>1, <3>2 DEF LoadedInv
      <3>3. CASE q # r
        <4>1. stage'[q] = stage[q] /\ loaded'[q] = loaded[q] /\ prev'[q] = prev[q]
          BY <1>2, <1>4, <1>6, <3>3, RedactorsAssumption DEF RInv, RedactionTypes, RTypeOK
        <4> QED
          BY <2>1, <2>4, <3>1, <4>1 DEF LoadedInv
      <3> QED
        BY <3>2, <3>3
    <2> QED
      BY <2>2, <2>3, <2>4 DEF ViewInv, LoadedInv
  <1> QED
    BY <1>1, <1>8, <1>9, <1>10, <1>11, <1>12 DEF RInv, RacedInv

LEMMA WrittenColumns ==
  ASSUME NEW a, NEW b, NEW c, NEW w, w = Written(a, b, c)
  PROVE  /\ w.content = IF b.content # a.content THEN b.content ELSE c.content
         /\ w.prev = IF b.prev # a.prev THEN b.prev ELSE c.prev
         /\ w.sum = IF b.sum # a.sum THEN b.sum ELSE c.sum
  BY DEF Written

(* The UPDATEs of a redaction: if nobody raced it, they leave the trail it  *)
(* sees a chain.                                                            *)
LEMMA FlushStep ==
  ASSUME RInv, NEW r \in Redactors, guarded' = guarded, FlushRedaction(r)
  PROVE  RInv'
  <1>0. r \in Sessions
    BY RedactorsAssumption
  <1>1. /\ stage[r] = "rehash" /\ pc[r] = "idle" /\ ids[r] # {}
        /\ stage' = [stage EXCEPT ![r] = "ready"]
        /\ UNCHANGED <<log, nextId, holder, pc, prev, ids, loaded, bypass, raced, guarded>>
    BY DEF FlushRedaction, RInv, StageInv
  <1>2. /\ DOMAIN mine' = Sessions /\ DOMAIN mine'[r] = DOMAIN loaded[r]
        /\ \A i \in DOMAIN loaded[r] :
             mine'[r][i] = Written(loaded[r][i], Rehashed(r)[i], log[i])
        /\ \A q \in Sessions \ {r} : mine'[q] = mine[q]
    BY <1>0 DEF FlushRedaction, RInv, RedactionTypes, RTypeOK, TypeOK
  <1>3. DOMAIN loaded[r] \subseteq DOMAIN log
    BY DEF RInv, RedactionTypes
  <1>4. ASSUME NEW i \in DOMAIN loaded[r]
        PROVE  /\ mine'[r][i].content \in Content
               /\ log[i].content.diff # Data => mine'[r][i].content.diff # Data
    <2>1. /\ Rehashed(r)[i].content \in Content
          /\ Rehashed(r)[i].content # loaded[r][i].content
               => Rehashed(r)[i].content.diff # Data
      BY RehashedContents
    <2>2. mine'[r][i].content = IF Rehashed(r)[i].content # loaded[r][i].content
                                  THEN Rehashed(r)[i].content ELSE log[i].content
      BY <1>2, WrittenColumns
    <2>3. log[i].content \in Content
      BY <1>3 DEF RInv, ContentInv
    <2> QED
      BY <2>1, <2>2, <2>3
  <1>5. RedactionTypes'
    <2>1. \A q \in Sessions : DOMAIN mine'[q] \subseteq 1 .. (nextId - 1)
      BY <1>2, <1>3 DEF RInv, RedactionTypes, RTypeOK, TypeOK
    <2>2. TypeOK'
      BY <1>1, <1>2, <2>1 DEF RInv, RedactionTypes, RTypeOK, TypeOK
    <2> QED
      BY <1>1, <2>2 DEF RInv, RedactionTypes, RTypeOK
  <1>6. HolderInv' /\ BypassInv'
    BY <1>1 DEF RInv, HolderInv, BypassInv, RedactionTypes, RTypeOK
  <1>7. ContentInv'
    <2>1. ASSUME NEW q \in Sessions, NEW i \in DOMAIN mine'[q]
          PROVE  mine'[q][i].content \in Content
      BY <1>2, <1>4 DEF RInv, ContentInv
    <2> QED
      BY <1>1, <2>1 DEF RInv, ContentInv
  <1>8. StageInv'
    <2>1. \A q \in Redactors : stage'[q] = IF q = r THEN "ready" ELSE stage[q]
      BY <1>1 DEF RInv, RedactionTypes, RTypeOK
    <2>2. ASSUME NEW q \in Sessions, pc'[q] = "idle", Untouched(q)'
          PROVE  DOMAIN mine'[q] = {}
      <3>1. q # r
        BY <1>1, <2>1, <2>2 DEF Untouched
      <3> QED
        BY <1>1, <1>2, <2>1, <2>2, <3>1 DEF RInv, StageInv, Untouched
    <2> QED
      BY <1>1, <2>1, <2>2 DEF RInv, StageInv
  <1>9. ApartInv'
    <2>1. \A q \in Sessions \ {r} : DOMAIN mine[q] \cap DOMAIN loaded[r] = {}
      BY DEF FlushRedaction
    <2> QED
      BY <1>2, <2>1 DEF RInv, ApartInv
  <1>10. StickInv'
    <2>1. ASSUME NEW q \in Sessions, NEW i \in DOMAIN log \cap DOMAIN mine'[q],
                 log[i].content.diff # Data
          PROVE  mine'[q][i].content.diff # Data
      BY <1>2, <1>4, <2>1 DEF RInv, StickInv
    <2> QED
      BY <1>1, <2>1 DEF StickInv
  <1>11. ASSUME ~raced
         PROVE  (ChainIntact /\ ViewInv /\ LoadedInv)'
    <2>1. ChainIntact /\ ViewInv /\ LoadedInv
      BY <1>11 DEF RInv, RacedInv
    <2>2. ChainIntact'
      BY <1>1, <2>1 DEF ChainIntact
    <2>3. PICK m \in Nat : m = Min(ids[r])
      <3>1. ids[r] \subseteq Nat
        BY DEF RInv, RedactionTypes, RTypeOK, TypeOK
      <3>2. \E x \in ids[r] : \A y \in ids[r] : x <= y
        BY <1>1, <3>1, LeastElement
      <3>3. Min(ids[r]) \in ids[r]
        BY <3>2, Zenon DEF Min
      <3> QED
        BY <3>1, <3>3
    <2>4. loaded[r] = FromFirst(r) /\ prev[r] = Preceding(r)
      BY <1>1, <2>1 DEF LoadedInv
    <2>5. /\ DOMAIN loaded[r] = {i \in DOMAIN log : i >= m}
          /\ \A i \in DOMAIN loaded[r] : loaded[r][i] = log[i]
      BY <2>3, <2>4 DEF FromFirst
    <2>6. \A i \in DOMAIN mine'[r] : SameRow(mine'[r][i], Rehashed(r)[i])
      BY <1>2, <2>5, WrittenColumns DEF SameRow
    <2>7. PICK own : own = mine'[r]
      OBVIOUS
    <2>8. LET before == {i \in DOMAIN log : i < m}
          IN  prev[r] = IF before = {} THEN Genesis ELSE log[Max(before)].sum
      BY <2>3, <2>4 DEF Preceding, Before
    <2>9. nextId \in Nat /\ DOMAIN log \subseteq 0 .. nextId
      BY DEF RInv, RedactionTypes, RTypeOK, TypeOK
    <2>10. DOMAIN Redacted(r) = DOMAIN own
      BY <1>2, <2>7 DEF Redacted
    <2>11. VerifyChain(Overlay(own, log))
      BY <1>2, <2>1, <2>5, <2>6, <2>7, <2>8, <2>9, <2>10, RehashKeepsChain
      DEF Rehashed, ChainIntact
    <2>12. VerifyChain(View(r)')
      BY <1>1, <2>7, <2>11 DEF View
    <2>13. Seen(r)'
      BY <1>1, <2>12 DEF Seen
    <2>14. ASSUME NEW q \in Sessions, q # r
           PROVE  Seen(q)'
      <3>1. pc'[q] = pc[q] /\ View(q)' = View(q) /\ Seen(q) /\ mine'[q] = mine[q]
        BY <1>1, <1>2, <2>1, <2>14 DEF View, ViewInv
      <3> QED
        BY <1>1, <3>1 DEF Seen
    <2>15. LoadedInv'
      <3>1. \A q \in Redactors : stage'[q] \in {"loaded", "rehash"} => q # r /\ stage'[q] = stage[q]
        BY <1>1 DEF RInv, RedactionTypes, RTypeOK
      <3>2. ASSUME NEW q \in Redactors
            PROVE  FromFirst(q)' = FromFirst(q) /\ Preceding(q)' = Preceding(q)
        BY <1>1 DEF FromFirst, Preceding, Before
      <3> QED
        BY <1>1, <2>1, <3>1, <3>2 DEF LoadedInv
    <2> QED
      BY <2>2, <2>13, <2>14, <2>15 DEF ViewInv
  <1> QED
    BY <1>1, <1>5, <1>6, <1>7, <1>8, <1>9, <1>10, <1>11 DEF RInv, RacedInv

(* The rows from before are as they were recorded.                          *)
LEMMA HistoricData ==
  ASSUME RInit
  PROVE  \A i \in DOMAIN log : log[i].content.diff = Data
  <1> DEFINE n == Len(History)
             Old == [k \in DOMAIN History |-> Entry(History[k])]
  <1>1. /\ n \in Nat /\ DOMAIN Old = 1 .. n /\ DOMAIN Old \subseteq 0 .. n
        /\ \A k \in DOMAIN Old : Old[k].diff = Data
    BY HistoryAssumption DEF Entry
  <1>2. log = Chained(Old, Genesis)
    BY DEF RInit, HistoricRows
  <1> HIDE DEF Old, n
  <1>3. PICK rows : rows = Chained(Old, Genesis)
    OBVIOUS
  <1>4. DOMAIN rows = 1 .. n /\ \A i \in DOMAIN rows : rows[i].content = Old[i]
    BY <1>1, <1>3, ChainedIsChain
  <1> QED
    BY <1>1, <1>2, <1>3, <1>4

LEMMA RInitInv == RInit => RInv
  <1> SUFFICES ASSUME RInit
               PROVE  RInv
    OBVIOUS
  <1> DEFINE n == Len(History)
             Old == [k \in DOMAIN History |-> Entry(History[k])]
  <1>1. /\ n \in Nat /\ DOMAIN Old = 1 .. n /\ DOMAIN Old \subseteq 0 .. n
        /\ \A k \in DOMAIN Old : Old[k] \in Content
    BY HistoryAssumption DEF Entry, Content
  <1>2. log = Chained(Old, Genesis) /\ nextId = n + 1
    BY DEF RInit, HistoricRows
  <1> HIDE DEF Old, n
  <1>3. PICK rows : rows = Chained(Old, Genesis)
    OBVIOUS
  <1>4. /\ DOMAIN rows = 1 .. n
        /\ \A i \in DOMAIN rows :
              /\ rows[i].content = Old[i] /\ Sealed(rows, i)
              /\ IsFirst(rows, i) => rows[i].prev = Genesis
              /\ \A j \in DOMAIN rows : Precedes(rows, j, i) => rows[i].prev = rows[j].sum
    BY <1>1, <1>3, ChainedIsChain
  <1>5. VerifyChain(rows)
    BY <1>4 DEF VerifyChain, Linked
  <1>6. DOMAIN log = 1 .. n /\ VerifyChain(log) /\ \A i \in DOMAIN log : log[i].content \in Content
    BY <1>1, <1>2, <1>3, <1>4, <1>5
  <1>7. /\ pc = [s \in Sessions |-> "idle"] /\ \A s \in Sessions : DOMAIN mine[s] = {}
        /\ stage = [r \in Redactors |-> "start"] /\ \A r \in Redactors : DOMAIN loaded[r] = {}
        /\ ids = [r \in Redactors |-> {}] /\ bypass = {} /\ raced = FALSE
        /\ DOMAIN mine = Sessions /\ DOMAIN prev = Sessions /\ DOMAIN loaded = Redactors
        /\ holder = NoSession /\ guarded \in Guards
    BY DEF RInit, NoRows
  <1>8. RedactionTypes
    <2>1. nextId \in Nat \ {0} /\ DOMAIN log \subseteq 1 .. (nextId - 1)
      BY <1>1, <1>2, <1>6
    <2>2. TypeOK
      BY <1>7, <2>1 DEF TypeOK, Stages
    <2> QED
      BY <1>7, <2>2 DEF RedactionTypes, RTypeOK
  <1>9. HolderInv /\ ContentInv /\ StageInv /\ ApartInv /\ BypassInv /\ StickInv
    BY <1>6, <1>7, RedactorsAssumption
    DEF HolderInv, ContentInv, StageInv, ApartInv, BypassInv, StickInv
  <1>10. RacedInv
    <2>1. \A s \in Sessions : VerifyChain(View(s))
      BY <1>6, <1>7, OverlaidByNothing DEF View
    <2> QED
      BY <1>6, <1>7, <2>1 DEF RacedInv, ChainIntact, ViewInv, Seen, LoadedInv
  <1> QED
    BY <1>8, <1>9, <1>10 DEF RInv

LEMMA RStep ==
  ASSUME RInv, [RNext]_allvars
  PROVE  RInv'
  <1>1. CASE RNext
    <2>1. ASSUME NEW s \in Sessions, Records(s) \/ Commits(s) \/ Aborts(s)
          PROVE  RInv'
      BY <2>1, RecordStep, CommitStep, AbortStep
    <2>2. ASSUME NEW r \in Redactors, Prepares(r)
          PROVE  RInv'
      BY <2>2, LookStep, FlushStep DEF Prepares
    <2> QED
      BY <1>1, <2>1, <2>2, RNextCases DEF RInv
  <1>2. CASE UNCHANGED allvars
    <2> USE <1>2 DEF allvars, vars, rvars
    <2>1. RedactionTypes' /\ HolderInv' /\ ContentInv'
      BY DEF RInv, RedactionTypes, RTypeOK, TypeOK, HolderInv, ContentInv
    <2>2. StageInv' /\ ApartInv' /\ BypassInv' /\ StickInv'
      BY DEF RInv, StageInv, Untouched, ApartInv, BypassInv, StickInv
    <2>3. RacedInv'
      BY DEF RInv, RacedInv, ChainIntact, ViewInv, Seen, View, LoadedInv, FromFirst, Preceding,
         Before
    <2> QED
      BY <2>1, <2>2, <2>3 DEF RInv
  <1> QED
    BY <1>1, <1>2

LEMMA RInvariance == RSpec => []RInv
  BY RInitInv, RStep, PTL DEF RSpec

(* Types of the redactions: each looks only at rows that are committed.     *)
THEOREM RedactionTypesCorrect == RSpec => []RTypeOK
  BY RInvariance, PTL DEF RInv, RedactionTypes

(* Whatever redactions and ordinary sessions do, the trail passes           *)
(* verify_chain() as long as no transaction commits between the load of a   *)
(* redaction and the lock it takes: that race is the one way to break it.   *)
THEOREM RedactionKeepsChain == RSpec => []IntactUnlessRaced
  <1>1. RInv => IntactUnlessRaced
    BY DEF RInv, RacedInv, ChainIntact, IntactUnlessRaced
  <1> QED
    BY RInvariance, <1>1, PTL

(* Only a commit changes the trail.                                         *)
LEMMA OnlyCommitsWrite ==
  ASSUME RInv, RNext, log' # log
  PROVE  \E s \in Sessions : Commits(s)
  <1>1. ASSUME NEW s \in Sessions, Records(s)
        PROVE  log' = log
    BY <1>1, RecordsChanges DEF RInv, Recorded
  <1>2. ASSUME NEW s \in Sessions, Aborts(s)
        PROVE  log' = log
    BY <1>2 DEF Aborts
  <1>3. ASSUME NEW r \in Redactors, Prepares(r)
        PROVE  log' = log
    BY <1>3 DEF Prepares, SelectIds, NothingToRedact, LoadRows, LoadPreceding, FlushRedaction, vars
  <1> QED
    BY <1>1, <1>2, <1>3, RNextCases DEF RInv

(* What was redacted stays redacted, in races too: no commit puts a diff    *)
(* back that an earlier one replaced.                                       *)
THEOREM RedactedStaysRedacted == RSpec => RedactionSticks
  <1> DEFINE Sticks == \A i \in DOMAIN log :
                         log[i].content.diff # Data => log'[i].content.diff # Data
  <1>1. ASSUME RInv, [RNext]_allvars
        PROVE  [Sticks]_allvars
    <2>1. CASE log' = log
      BY <2>1
    <2>2. CASE log' # log
      <3>1. RNext
        BY <1>1, <2>2 DEF allvars, vars
      <3>2. PICK s \in Sessions : Commits(s)
        BY <1>1, <2>2, <3>1, OnlyCommitsWrite
      <3>3. \A i \in DOMAIN log : log'[i] = IF i \in DOMAIN mine[s] THEN mine[s][i] ELSE log[i]
        BY <3>2 DEF Commits, Commit, View, Overlay
      <3> QED
        BY <1>1, <3>3 DEF RInv, StickInv
    <2> QED
      BY <2>1, <2>2
  <1> QED
    BY RInvariance, <1>1, PTL DEF RSpec, RedactionSticks

-----------------------------------------------------------------------------

\* Until a redaction is done its marker is in its own rows only.
MarksInv ==
  \A r \in Redactors : stage[r] # "done" =>
    /\ \A i \in DOMAIN log : log[i].content.diff # r
    /\ \A s \in Sessions \ {r} : \A i \in DOMAIN mine[s] : mine[s][i].content.diff # r
    /\ \A q \in Redactors : \A i \in DOMAIN loaded[q] : loaded[q][i].content.diff # r

\* What it has selected it has loaded, and then written.
CoverInv ==
  \A r \in Redactors :
    /\ stage[r] \in {"loaded", "rehash"} => ids[r] \subseteq DOMAIN loaded[r]
    /\ stage[r] = "ready" => ids[r] \subseteq DOMAIN mine[r]

\* What it will do to the diffs of the trail.
RewriteInv ==
  \A s \in Sessions : \A i \in DOMAIN log \cap DOMAIN mine[s] :
    /\ s \in Redactors
    /\ i \in ids[s] => mine[s][i].content.diff = s
    /\ i \notin ids[s] => mine[s][i].content.diff = log[i].content.diff

ExactInv == MarksInv /\ CoverInv /\ RewriteInv

(* A step of record() writes a row of its own that no redaction has marked. *)
LEMMA ExactRecord ==
  ASSUME RInv, ExactInv, NEW s \in Sessions, Recorded(s)
  PROVE  ExactInv'
  <1>1. UNCHANGED <<log, stage, ids, loaded>>
    BY DEF Recorded, rvars
  <1>2. nextId \notin DOMAIN log
    BY DEF RInv, RedactionTypes, RTypeOK, TypeOK
  <1>3. ASSUME NEW q \in Sessions, NEW i \in DOMAIN mine'[q]
        PROVE  \/ i \in DOMAIN mine[q] /\ mine'[q][i].content = mine[q][i].content
               \/ i \notin DOMAIN log /\ mine'[q][i].content.diff = Data
    BY <1>2, <1>3 DEF Recorded
  <1>4. MarksInv'
    BY <1>1, <1>3, DataAssumption DEF ExactInv, MarksInv
  <1>5. \A r \in Redactors : DOMAIN mine[r] \subseteq DOMAIN mine'[r]
    BY RedactorsAssumption DEF Recorded
  <1>6. CoverInv'
    BY <1>1, <1>5 DEF ExactInv, CoverInv
  <1>7. RewriteInv'
    BY <1>1, <1>3 DEF ExactInv, RewriteInv
  <1> QED
    BY <1>4, <1>6, <1>7 DEF ExactInv

(* The end of a transaction puts its own rows into the trail, or none.      *)
LEMMA ExactEnd ==
  ASSUME RInv, ExactInv, NEW s \in Sessions, Ended(s), log' = log \/ log' = View(s)
  PROVE  ExactInv'
  <1>1. \A i \in DOMAIN log' :
          \/ i \in DOMAIN log /\ log'[i] = log[i]
          \/ i \in DOMAIN mine[s] /\ log'[i] = mine[s][i]
    BY DEF View, Overlay
  <1>2. UNCHANGED <<ids, loaded>>
    BY DEF Ended, Ends
  <1>3. \A r \in Redactors : stage'[r] # "done" => r # s /\ stage'[r] = stage[r]
    BY DEF Ended
  <1>4. \A q \in Sessions : (q = s /\ DOMAIN mine'[q] = {}) \/ (q # s /\ mine'[q] = mine[q])
    BY DEF Ended
  <1>5. MarksInv'
    <2> SUFFICES ASSUME NEW r \in Redactors, stage'[r] # "done"
                 PROVE  /\ \A i \in DOMAIN log' : log'[i].content.diff # r
                        /\ \A q \in Sessions \ {r} :
                             \A i \in DOMAIN mine'[q] : mine'[q][i].content.diff # r
                        /\ \A q \in Redactors :
                             \A i \in DOMAIN loaded'[q] : loaded'[q][i].content.diff # r
      BY DEF MarksInv
    <2>1. r # s /\ stage[r] # "done"
      BY <1>3
    <2> QED
      BY <1>1, <1>2, <1>4, <2>1 DEF ExactInv, MarksInv
  <1>6. CoverInv'
    <2>1. \A r \in Redactors : r # s => mine'[r] = mine[r]
      BY <1>4, RedactorsAssumption
    <2> QED
      BY <1>2, <1>3, <2>1 DEF ExactInv, CoverInv
  <1>7. RewriteInv'
    <2>1. ASSUME NEW q \in Sessions, NEW i \in DOMAIN log' \cap DOMAIN mine'[q]
          PROVE  i \in DOMAIN log /\ log'[i] = log[i] /\ mine'[q] = mine[q]
      <3>1. q # s /\ mine'[q] = mine[q]
        BY <1>4, <2>1
      <3>2. i \notin DOMAIN mine[s]
        BY <2>1, <3>1 DEF RInv, ApartInv
      <3> QED
        BY <1>1, <2>1, <3>1, <3>2
    <2> QED
      BY <1>2, <2>1 DEF ExactInv, RewriteInv
  <1> QED
    BY <1>5, <1>6, <1>7 DEF ExactInv

(* Selecting and loading: nothing is rewritten yet.                         *)
LEMMA ExactLook ==
  ASSUME RInv, ExactInv, NEW r \in Redactors,
         \/ \E p \in People : SelectIds(r, p)
         \/ NothingToRedact(r) \/ LoadRows(r) \/ LoadPreceding(r)
  PROVE  ExactInv'
  <1>0. r \in Sessions /\ \A q \in Redactors : q \in Sessions
    BY RedactorsAssumption
  <1>1. /\ stage[r] \in {"start", "selected", "loaded"} /\ UNCHANGED <<log, mine>>
        /\ stage'[r] \in {"selected", "loaded", "rehash", "ready"}
        /\ \A q \in Redactors \ {r} : stage'[q] = stage[q] /\ ids'[q] = ids[q]
                                                       /\ loaded'[q] = loaded[q]
        /\ stage'[r] = "ready" => ids'[r] = {}
    BY DEF SelectIds, NothingToRedact, LoadRows, LoadPreceding, vars, RInv, RedactionTypes, RTypeOK
  <1>2. \/ loaded'[r] = loaded[r] /\ (stage'[r] = "rehash" => stage[r] = "loaded" /\ ids' = ids)
                                 /\ stage'[r] # "loaded"
        \/ LoadRows(r) /\ ids' = ids /\ ids[r] # {} /\ loaded'[r] = FromFirst(r)
    BY DEF SelectIds, NothingToRedact, LoadRows, LoadPreceding, RInv, RedactionTypes, RTypeOK,
           FromFirst
  <1>3. \A i \in DOMAIN FromFirst(r) : i \in DOMAIN log /\ FromFirst(r)[i] = log[i]
    BY DEF FromFirst
  <1>4. MarksInv'
    <2> SUFFICES ASSUME NEW t \in Redactors, stage'[t] # "done"
                 PROVE  /\ \A i \in DOMAIN log' : log'[i].content.diff # t
                        /\ \A q \in Sessions \ {t} :
                             \A i \in DOMAIN mine'[q] : mine'[q][i].content.diff # t
                        /\ \A q \in Redactors :
                             \A i \in DOMAIN loaded'[q] : loaded'[q][i].content.diff # t
      BY DEF MarksInv
    <2>1. stage[t] # "done"
      BY <1>1
    <2> QED
      BY <1>1, <1>2, <1>3, <2>1 DEF ExactInv, MarksInv
  <1>5. ASSUME ids[r] # {}
        PROVE  ids[r] \subseteq DOMAIN FromFirst(r)
    <2>1. ids[r] \subseteq DOMAIN log /\ DOMAIN log \subseteq Nat
      BY DEF RInv, RedactionTypes, RTypeOK, TypeOK
    <2>2. \E x \in ids[r] : \A y \in ids[r] : x <= y
      BY <1>5, <2>1, LeastElement
    <2>3. PICK x \in ids[r] : \A y \in ids[r] : x <= y
      BY <2>2
    <2>4. \A y \in ids[r] : Min(ids[r]) <= y
      BY <2>2, Zenon DEF Min
    <2>5. Min(ids[r]) \in Nat
      <3>1. Min(ids[r]) \in ids[r]
        BY <2>2, Zenon DEF Min
      <3> QED
        BY <2>1, <3>1
    <2> QED
      BY <2>1, <2>4, <2>5 DEF FromFirst
  <1>6. CoverInv'
    BY <1>1, <1>2, <1>5 DEF ExactInv, CoverInv
  <1>7. DOMAIN mine[r] = {}
    <2>1. pc[r] = "idle" /\ Untouched(r)
      BY <1>1 DEF RInv, StageInv, Untouched
    <2> QED
      BY <1>0, <2>1 DEF RInv, StageInv
  <1>8. RewriteInv'
    BY <1>1, <1>7 DEF ExactInv, RewriteInv
  <1> QED
    BY <1>4, <1>6, <1>8 DEF ExactInv

(* The UPDATEs put the marker into what was selected, and write the diff of *)
(* no other row.                                                            *)
LEMMA ExactFlush ==
  ASSUME RInv, ExactInv, NEW r \in Redactors, FlushRedaction(r)
  PROVE  ExactInv'
  <1>0. r \in Sessions
    BY RedactorsAssumption
  <1>1. /\ stage[r] = "rehash" /\ \A q \in Redactors : stage'[q] = IF q = r THEN "ready" ELSE stage[q]
        /\ UNCHANGED <<log, ids, loaded>>
    BY DEF FlushRedaction, RInv, RedactionTypes, RTypeOK
  <1>2. /\ DOMAIN mine'[r] = DOMAIN loaded[r] /\ DOMAIN loaded[r] \subseteq DOMAIN log
        /\ \A i \in DOMAIN loaded[r] :
             mine'[r][i] = Written(loaded[r][i], Rehashed(r)[i], log[i])
        /\ \A q \in Sessions \ {r} : mine'[q] = mine[q]
    BY <1>0 DEF FlushRedaction, RInv, RedactionTypes, RTypeOK, TypeOK
  <1>3. ASSUME NEW i \in DOMAIN loaded[r]
        PROVE  /\ i \in ids[r] => mine'[r][i].content.diff = r
               /\ i \notin ids[r] => mine'[r][i].content.diff = log[i].content.diff
    <2>1. mine'[r][i].content = IF Rehashed(r)[i].content # loaded[r][i].content
                                  THEN Rehashed(r)[i].content ELSE log[i].content
      BY <1>2, WrittenColumns
    <2>2. Rehashed(r)[i].content = Redacted(r)[i]
      BY RehashedContents
    <2>3. CASE i \in ids[r]
      <3>1. loaded[r][i].content \in Content /\ loaded[r][i].content.diff # r
        BY <1>1 DEF RInv, ContentInv, ExactInv, MarksInv
      <3>2. Redacted(r)[i] = Marked(loaded[r][i].content, r)
        BY <2>3 DEF Redacted
      <3>3. Redacted(r)[i].diff = r
        BY <3>1, <3>2 DEF Marked, Content
      <3> QED
        BY <2>1, <2>2, <2>3, <3>1, <3>3
    <2>4. CASE i \notin ids[r]
      BY <2>1, <2>2, <2>4 DEF Redacted
    <2> QED
      BY <2>3, <2>4
  <1>4. MarksInv'
    <2> SUFFICES ASSUME NEW t \in Redactors, stage'[t] # "done"
                 PROVE  /\ \A i \in DOMAIN log' : log'[i].content.diff # t
                        /\ \A q \in Sessions \ {t} :
                             \A i \in DOMAIN mine'[q] : mine'[q][i].content.diff # t
                        /\ \A q \in Redactors :
                             \A i \in DOMAIN loaded'[q] : loaded'[q][i].content.diff # t
      BY DEF MarksInv
    <2>1. stage[t] # "done"
      BY <1>1
    <2>2. ASSUME NEW q \in Sessions \ {t}, NEW i \in DOMAIN mine'[q]
          PROVE  mine'[q][i].content.diff # t
      <3>1. CASE q = r
        <4>1. log[i].content.diff # t
          BY <1>2, <2>1, <2>2, <3>1 DEF ExactInv, MarksInv
        <4> QED
          BY <1>2, <1>3, <2>2, <3>1, <4>1
      <3>2. CASE q # r
        BY <1>2, <2>1, <2>2, <3>2 DEF ExactInv, MarksInv
      <3> QED
        BY <3>1, <3>2
    <2> QED
      BY <1>1, <2>1, <2>2 DEF ExactInv, MarksInv
  <1>5. CoverInv'
    <2>1. ids[r] \subseteq DOMAIN mine'[r]
      BY <1>1, <1>2 DEF ExactInv, CoverInv
    <2>2. \A q \in Redactors : q # r => mine'[q] = mine[q]
      BY <1>2, RedactorsAssumption
    <2> QED
      BY <1>1, <2>1, <2>2 DEF ExactInv, CoverInv
  <1>6. RewriteInv'
    <2>1. ASSUME NEW q \in Sessions, NEW i \in DOMAIN log \cap DOMAIN mine'[q]
          PROVE  /\ q \in Redactors
                 /\ i \in ids[q] => mine'[q][i].content.diff = q
                 /\ i \notin ids[q] => mine'[q][i].content.diff = log[i].content.diff
      <3>1. CASE q = r
        BY <1>2, <1>3, <2>1, <3>1
      <3>2. CASE q # r
        BY <1>2, <2>1, <3>2 DEF ExactInv, RewriteInv
      <3> QED
        BY <3>1, <3>2
    <2> QED
      BY <1>1, <2>1 DEF RewriteInv
  <1> QED
    BY <1>4, <1>5, <1>6 DEF ExactInv

LEMMA ExactInvariance == RSpec => [](RInv /\ ExactInv)
  <1>1. RInit => RInv /\ ExactInv
    <2> SUFFICES ASSUME RInit
                 PROVE  ExactInv
      BY RInitInv
    <2>1. /\ \A s \in Sessions : DOMAIN mine[s] = {}
          /\ \A r \in Redactors : DOMAIN loaded[r] = {} /\ ids[r] = {}
      BY DEF RInit, NoRows
    <2>2. \A i \in DOMAIN log : log[i].content.diff = Data
      BY HistoricData
    <2> QED
      BY <2>1, <2>2, DataAssumption DEF ExactInv, MarksInv, CoverInv, RewriteInv
  <1>2. RInv /\ ExactInv /\ [RNext]_allvars => (RInv /\ ExactInv)'
    <2> SUFFICES ASSUME RInv, ExactInv, [RNext]_allvars
                 PROVE  ExactInv'
      BY RStep
    <2>1. CASE UNCHANGED allvars
      BY <2>1 DEF allvars, vars, rvars, ExactInv, MarksInv, CoverInv, RewriteInv
    <2>2. ASSUME NEW s \in Sessions, Records(s)
          PROVE  ExactInv'
      BY <2>2, RecordsChanges, ExactRecord DEF RInv
    <2>3. ASSUME NEW s \in Sessions, Commits(s) \/ Aborts(s)
          PROVE  ExactInv'
      <3>1. Ended(s) /\ (log' = log \/ log' = View(s))
        BY <2>3, EndsChanges DEF RInv, Commits, Aborts, Commit
      <3> QED
        BY <3>1, ExactEnd
    <2>4. ASSUME NEW r \in Redactors, Prepares(r)
          PROVE  ExactInv'
      BY <2>4, ExactLook, ExactFlush DEF Prepares
    <2> QED
      BY <2>1, <2>2, <2>3, <2>4, RNextCases DEF RInv
  <1> QED
    BY <1>1, <1>2, PTL DEF RSpec

(* Redactions are exact, raced or not: when one commits, all it selected    *)
(* carries its marker, and every other diff is the one that was committed.  *)
THEOREM RedactionsAreExact == RSpec => RedactionIsExact
  <1> DEFINE Exact ==
        /\ \A r \in Redactors : Completes(r) => \A i \in ids[r] : log'[i].content.diff = r
        /\ \A i \in DOMAIN log : log'[i].content.diff # log[i].content.diff
                              => \E r \in bypass : Completes(r) /\ i \in ids[r]
  <1>1. ASSUME RInv, ExactInv, [RNext]_allvars
        PROVE  [Exact]_allvars
    <2>1. CASE log' = log
      BY <2>1 DEF Completes
    <2>2. CASE log' # log
      <3>1. RNext
        BY <1>1, <2>2 DEF allvars, vars
      <3>2. PICK s \in Sessions : Commits(s)
        BY <1>1, <2>2, <3>1, OnlyCommitsWrite
      <3>3. \A i \in DOMAIN log' : log'[i] = IF i \in DOMAIN mine[s] THEN mine[s][i] ELSE log[i]
        BY <3>2 DEF Commits, Commit, View, Overlay
      <3>4. DOMAIN log \subseteq DOMAIN log'
        BY <3>2 DEF Commits, Commit, View, Overlay
      <3>5. s \in Redactors => stage[s] = "ready" /\ stage'[s] = "done"
        BY <1>1, <3>2 DEF Commits, Commit, Ends, RInv, StageInv, RedactionTypes, RTypeOK
      <3>6. ASSUME NEW r \in Redactors, Completes(r), NEW i \in ids[r]
            PROVE  log'[i].content.diff = r
        <4>1. r = s
          BY <1>1, <3>2, <3>6 DEF Completes, Commits, Ends, RInv, RedactionTypes, RTypeOK
        <4>2. i \in DOMAIN log /\ i \in DOMAIN mine[s]
          BY <1>1, <3>5, <3>6, <4>1 DEF RInv, RedactionTypes, RTypeOK, ExactInv, CoverInv
        <4> QED
          BY <1>1, <3>3, <3>4, <3>6, <4>1, <4>2 DEF ExactInv, RewriteInv
      <3>7. ASSUME NEW i \in DOMAIN log, log'[i].content.diff # log[i].content.diff
            PROVE  \E r \in bypass : Completes(r) /\ i \in ids[r]
        <4>1. i \in DOMAIN mine[s] /\ s \in Redactors /\ i \in ids[s]
          BY <1>1, <3>3, <3>4, <3>7 DEF ExactInv, RewriteInv
        <4>2. s \in bypass /\ Completes(s)
          BY <1>1, <2>2, <3>5, <4>1 DEF RInv, BypassInv, Completes
        <4> QED
          BY <4>1, <4>2
      <3> QED
        BY <3>6, <3>7
    <2> QED
      BY <2>1, <2>2
  <1> QED
    BY ExactInvariance, <1>1, PTL DEF RSpec, RedactionIsExact

-----------------------------------------------------------------------------

(* The committed rows as a ledger.  The walk in id order takes each row at  *)
(* the place that the number of ids up to its own says.                     *)

LEMMA RankGrows ==
  ASSUME NEW n \in Nat, NEW T, T \subseteq Nat, \A i \in T : i <= n
  PROVE  /\ IsFiniteSet(T) /\ Cardinality(T) \in Nat
         /\ \A i \in T : Rank(T, i) \in 1 .. Cardinality(T)
         /\ \A i, j \in T : i < j => Rank(T, i) < Rank(T, j)
  <1>1. \A S \in SUBSET T : IsFiniteSet(S) /\ Cardinality(S) \in Nat
    BY FS_BoundedSetOfNaturals, FS_CardinalityType
  <1>2. \A S \in SUBSET T, R \in SUBSET T :
          S \subseteq R => /\ Cardinality(S) <= Cardinality(R)
                           /\ Cardinality(S) = Cardinality(R) => S = R
    BY <1>1, FS_Subset
  <1>3. ASSUME NEW i \in T
        PROVE  Rank(T, i) \in 1 .. Cardinality(T)
    <2> DEFINE S == {j \in T : j <= i}
    <2>1. S \in SUBSET T /\ i \in S
      OBVIOUS
    <2>2. Cardinality(S) # 0
      BY <1>1, <2>1, FS_EmptySet
    <2>3. Cardinality(S) \in Nat /\ Cardinality(T) \in Nat /\ Cardinality(S) <= Cardinality(T)
      BY <1>1, <1>2, <2>1
    <2> HIDE DEF S
    <2>4. Cardinality(S) \in 1 .. Cardinality(T)
      BY <2>2, <2>3
    <2> QED
      BY <2>4 DEF Rank, S
  <1>4. ASSUME NEW i \in T, NEW j \in T, i < j
        PROVE  Rank(T, i) < Rank(T, j)
    <2> DEFINE S == {k \in T : k <= i}
               R == {k \in T : k <= j}
    <2>0. i \in Nat /\ j \in Nat /\ \A m \in T : m \in Nat /\ (m <= i => m <= j)
      BY <1>4
    <2>1. S \in SUBSET T /\ R \in SUBSET T /\ S \subseteq R /\ j \in R /\ j \notin S
      <3>1. S \in SUBSET T /\ R \in SUBSET T
        OBVIOUS
      <3>2. S \subseteq R
        BY <2>0
      <3>3. j \in R /\ j \notin S
        BY <1>4, <2>0
      <3> QED
        BY <3>1, <3>2, <3>3
    <2> HIDE DEF S, R
    <2>2. Cardinality(S) <= Cardinality(R) /\ Cardinality(S) # Cardinality(R)
      BY <1>2, <2>1
    <2>3. Cardinality(S) < Cardinality(R)
      BY <1>1, <2>1, <2>2
    <2> QED
      BY <2>3 DEF Rank, S, R
  <1> QED
    BY <1>1, <1>3, <1>4

LEMMA EveryRankIsTaken ==
  ASSUME NEW n \in Nat, NEW T, T \subseteq Nat, \A i \in T : i <= n, NEW k \in 1 .. Cardinality(T)
  PROVE  \E i \in T : Rank(T, i) = k
  <1> DEFINE H == {i \in T : Rank(T, i) >= k}
  <1>0. /\ IsFiniteSet(T) /\ Cardinality(T) \in Nat
        /\ \A i \in T : Rank(T, i) \in 1 .. Cardinality(T)
    BY RankGrows
  <1>1. H # {}
    <2>1. T # {}
      BY <1>0, FS_EmptySet
    <2>2. PICK m \in T : \A y \in T : y <= m
      <3>1. T \subseteq 0 .. n
        OBVIOUS
      <3> QED
        BY <2>1, <3>1, MaxIsGreatest
    <2>3. {j \in T : j <= m} = T
      BY <2>2
    <2>4. Rank(T, m) = Cardinality(T)
      BY <2>3 DEF Rank
    <2> QED
      BY <1>0, <2>4
  <1>2. PICK i \in H : \A y \in H : i <= y
    <2>1. H \subseteq Nat
      BY <1>0
    <2> HIDE DEF H
    <2> QED
      BY <1>1, <2>1, LeastElement
  <1>3. SUFFICES ASSUME Rank(T, i) # k PROVE FALSE
    OBVIOUS
  <1> DEFINE S == {j \in T : j <= i}
             B == S \ {i}
  <1>4. Rank(T, i) = Cardinality(S) /\ i \in S /\ S \subseteq T
    BY DEF Rank
  <1>5. IsFiniteSet(B) /\ Cardinality(B) = Rank(T, i) - 1
    <2>1. IsFiniteSet(S)
      BY <1>0, <1>4, FS_Subset
    <2> HIDE DEF S
    <2> QED
      BY <1>4, <2>1, FS_RemoveElement
  <1>6. Cardinality(B) >= k /\ k >= 1
    BY <1>0, <1>3, <1>5
  <1>7. B # {} /\ B \subseteq 0 .. n
    <2>1. \A m \in B : m \in 0 .. n
      <3>1. \A m \in T : m \in 0 .. n
        OBVIOUS
      <3> QED
        BY <3>1
    <2> HIDE DEF B
    <2> QED
      BY <1>5, <1>6, <2>1, FS_EmptySet
  <1>8. PICK b \in B : \A y \in B : y <= b
    BY <1>7, MaxIsGreatest
  <1>9. {j \in T : j <= b} = B /\ b \in T /\ b < i
    <2>1. b \in T /\ b <= i /\ b # i /\ b \in Nat /\ i \in Nat
      OBVIOUS
    <2>2. ASSUME NEW j \in T
          PROVE  j \in B <=> j <= b
      <3>1. j \in B <=> j <= i /\ j # i
        OBVIOUS
      <3>2. j \in Nat /\ (j \in B => j <= b)
        BY <1>8
      <3> HIDE DEF B
      <3> QED
        BY <2>1, <3>1, <3>2
    <2> HIDE DEF B
    <2>3. B \subseteq T
      BY DEF B
    <2>4. {j \in T : j <= b} = B
      BY <2>2, <2>3, Zenon
    <2> QED
      BY <2>1, <2>4
  <1>10. Rank(T, b) = Cardinality(B)
    BY <1>9 DEF Rank
  <1> QED
    BY <1>2, <1>6, <1>9, <1>10

LEMMA AtRank ==
  ASSUME NEW n \in Nat, NEW T, T \subseteq Nat, \A i \in T : i <= n
  PROVE  /\ \A k \in 1 .. Cardinality(T) : At(T, k) \in T /\ Rank(T, At(T, k)) = k
         /\ \A i \in T : At(T, Rank(T, i)) = i
  <1>1. \A k \in 1 .. Cardinality(T) : At(T, k) \in T /\ Rank(T, At(T, k)) = k
    BY EveryRankIsTaken DEF At
  <1>2. ASSUME NEW i \in T
        PROVE  At(T, Rank(T, i)) = i
    <2>1. \A j \in T : j \in Nat /\ Rank(T, j) \in 1 .. Cardinality(T)
      BY RankGrows
    <2>2. \A j \in T : Rank(T, j) = Rank(T, i) => j = i
      <3>1. \A j \in T : i < j => Rank(T, i) < Rank(T, j)
        BY RankGrows
      <3>2. \A j \in T : j < i => Rank(T, j) < Rank(T, i)
        BY RankGrows
      <3>3. Cardinality(T) \in Nat
        BY RankGrows
      <3> QED
        BY <2>1, <3>1, <3>2, <3>3
    <2>3. At(T, Rank(T, i)) \in T /\ Rank(T, At(T, Rank(T, i))) = Rank(T, i)
      BY <1>1, RankGrows
    <2> QED
      BY <2>2, <2>3
  <1> QED
    BY <1>1, <1>2

\* Neighbours on the walk are neighbours in id order.
LEMMA WalkInOrder ==
  ASSUME NEW n \in Nat, NEW rows,
         DOMAIN rows \subseteq Nat, \A i \in DOMAIN rows : i <= n,
         NEW k \in 1 .. Cardinality(DOMAIN rows)
  PROVE  /\ k = 1 => IsFirst(rows, At(DOMAIN rows, k))
         /\ k # 1 => Precedes(rows, At(DOMAIN rows, k - 1), At(DOMAIN rows, k))
  <1> DEFINE T == DOMAIN rows
             i == At(T, k)
  <1>1. /\ Cardinality(T) \in Nat /\ \A m \in T : Rank(T, m) \in 1 .. Cardinality(T)
        /\ \A a, b \in T : a < b => Rank(T, a) < Rank(T, b)
    BY RankGrows
  <1>2. i \in T /\ Rank(T, i) = k
    BY AtRank
  <1>3. ASSUME k = 1
        PROVE  IsFirst(rows, i)
    <2>1. ASSUME NEW m \in T, m < i PROVE FALSE
      BY <1>1, <1>2, <1>3, <2>1
    <2> HIDE DEF i
    <2> QED
      BY <1>2, <2>1 DEF IsFirst
  <1>4. ASSUME k # 1
        PROVE  Precedes(rows, At(T, k - 1), i)
    <2> DEFINE j == At(T, k - 1)
    <2>1. k - 1 \in 1 .. Cardinality(T)
      BY <1>1, <1>4
    <2>2. j \in T /\ Rank(T, j) = k - 1
      BY <2>1, AtRank
    <2> HIDE DEF i, j
    <2>3. j < i
      BY <1>1, <1>2, <2>2
    <2>4. ASSUME NEW m \in T, j < m, m < i PROVE FALSE
      BY <1>1, <1>2, <2>2, <2>4
    <2>5. Precedes(rows, j, i)
      BY <1>2, <2>2, <2>3, <2>4 DEF Precedes
    <2> QED
      BY <2>5 DEF j
  <1> QED
    BY <1>3, <1>4

\* Ids above all the others do not move them.
LEMMA AtStays ==
  ASSUME NEW n \in Nat, NEW T, NEW U, T \subseteq U, U \subseteq Nat,
         \A i \in U : i <= n,
         \A i \in T, j \in U \ T : i < j
  PROVE  \A k \in 1 .. Cardinality(T) : At(U, k) = At(T, k)
  <1> SUFFICES ASSUME NEW k \in 1 .. Cardinality(T)
               PROVE  At(U, k) = At(T, k)
    OBVIOUS
  <1> DEFINE i == At(T, k)
  <1>1. i \in T /\ Rank(T, i) = k
    BY AtRank
  <1> HIDE DEF i
  <1>2. {j \in U : j <= i} = {j \in T : j <= i}
    <2>1. i \in T /\ i \in Nat
      BY <1>1
    <2>2. ASSUME NEW j \in U, j \notin T PROVE ~(j <= i)
      BY <2>1, <2>2
    <2> QED
      BY <2>2
  <1>3. Rank(U, i) = k
    BY <1>1, <1>2 DEF Rank
  <1>4. At(U, k) = i
    BY <1>1, <1>3, AtRank
  <1> QED
    BY <1>4 DEF i


\* What record() may be given, in every row.
EntriesInv ==
  /\ \A i \in DOMAIN log : log[i].content \in Contents
  /\ \A s \in Sessions : \A i \in DOMAIN mine[s] : mine[s][i].content \in Contents

LEMMA EntriesStep ==
  ASSUME IInv, EntriesInv, [Next]_vars
  PROVE  EntriesInv'
  <1> USE DEF EntriesInv
  <1>0. TypeOK
    BY DEF IInv
  <1>1. ASSUME NEW s \in Sessions, AcquireLock(s) \/ ReadTail(s) \/ SealRefused(s)
        PROVE  EntriesInv'
    BY <1>1 DEF AcquireLock, ReadTail, SealRefused
  <1>2. ASSUME NEW s \in Sessions, Insert(s)
        PROVE  EntriesInv'
    <2>1. PICK c \in Contents : InsertRow(s, c)
      BY <1>2 DEF Insert
    <2>2. /\ DOMAIN mine'[s] = DOMAIN mine[s] \cup {nextId} /\ mine'[s][nextId].content = c
          /\ \A i \in DOMAIN mine[s] : i # nextId => mine'[s][i] = mine[s][i]
          /\ \A q \in Sessions \ {s} : mine'[q] = mine[q]
          /\ log' = log
      BY <1>0, <2>1 DEF InsertRow, TypeOK
    <2> QED
      BY <2>2
  <1>3. ASSUME NEW s \in Sessions, SealRow(s)
        PROVE  EntriesInv'
    <2>1. /\ DOMAIN mine'[s] = DOMAIN mine[s] /\ log' = log
          /\ \A i \in DOMAIN mine[s] : mine'[s][i].content = mine[s][i].content
          /\ \A q \in Sessions \ {s} : mine'[q] = mine[q]
      BY <1>0, <1>3 DEF SealRow, TypeOK, WithChecksum
    <2> QED
      BY <2>1
  <1>4. ASSUME NEW s \in Sessions, Commit(s) \/ Rollback(s)
        PROVE  EntriesInv'
    <2>1. /\ DOMAIN mine'[s] = {} /\ \A q \in Sessions \ {s} : mine'[q] = mine[q]
          /\ log' = log \/ log' = View(s)
      BY <1>0, <1>4 DEF Commit, Rollback, Release, NoRows, TypeOK
    <2>2. \A i \in DOMAIN log' : log'[i].content \in Contents
      BY <2>1 DEF View, Overlay
    <2> QED
      BY <2>1, <2>2
  <1>5. CASE UNCHANGED vars
    BY <1>5 DEF vars
  <1> QED
    BY <1>1, <1>2, <1>3, <1>4, <1>5 DEF Next, Step, Seal

LEMMA EntriesInvariance == Spec => []EntriesInv
  <1>1. Init => EntriesInv
    BY DEF Init, NoRows, EntriesInv
  <1> QED
    BY Invariance, <1>1, EntriesStep, PTL DEF Spec

Longer(old, new, walk, longer) ==
  /\ DOMAIN old = DOMAIN new => longer = walk
  /\ DOMAIN old # DOMAIN new => Len(longer) > Len(walk)
  /\ SubSeq(longer, 1, Len(walk)) = walk
  /\ \A k \in 1 .. Len(longer) : Ledger!Chained(longer, k)

(* Rows behind the others extend the walk; each of them carries the hash of *)
(* its predecessor.                                                         *)
LEMMA WalkExtends ==
  ASSUME NEW n \in Nat, NEW old, NEW new, NEW walk, NEW longer,
         DOMAIN new \subseteq Nat, \A i \in DOMAIN new : i <= n, VerifyChain(new),
         \A i \in DOMAIN new : new[i].content \in Contents,
         DOMAIN old \subseteq DOMAIN new, \A i \in DOMAIN old : new[i] = old[i],
         \A i \in DOMAIN old, j \in DOMAIN new \ DOMAIN old : i < j,
         walk = [k \in 1 .. Cardinality(DOMAIN old) |-> old[At(DOMAIN old, k)]],
         longer = [k \in 1 .. Cardinality(DOMAIN new) |-> new[At(DOMAIN new, k)]]
  PROVE  Longer(old, new, walk, longer)
  <1> DEFINE T == DOMAIN old
             U == DOMAIN new
  <1>1. IsFiniteSet(U) /\ Cardinality(U) \in Nat
    BY RankGrows
  <1>2. /\ IsFiniteSet(T) /\ Cardinality(T) \in Nat /\ Cardinality(T) <= Cardinality(U)
        /\ (T # U => Cardinality(T) # Cardinality(U))
    BY <1>1, FS_Subset, FS_CardinalityType
  <1>3. \A k \in 1 .. Cardinality(T) : At(U, k) = At(T, k)
    BY AtStays
  <1>4. \A k \in 1 .. Cardinality(T) : At(T, k) \in T
    BY AtRank
  <1>5. \A k \in 1 .. Cardinality(T) : k \in 1 .. Cardinality(U) /\ longer[k] = walk[k]
    BY <1>1, <1>2, <1>3, <1>4
  <1>6. /\ DOMAIN walk = 1 .. Cardinality(T) /\ DOMAIN longer = 1 .. Cardinality(U)
        /\ Len(walk) = Cardinality(T) /\ Len(longer) = Cardinality(U)
        /\ longer = [k \in 1 .. Cardinality(U) |-> longer[k]]
        /\ walk = [k \in 1 .. Cardinality(T) |-> walk[k]]
    BY <1>1, <1>2
  <1>7. SubSeq(longer, 1, Len(walk)) = walk
    <2> DEFINE S == {new[i] : i \in U}
               sub == SubSeq(longer, 1, Cardinality(T))
    <2>1. \A k \in 1 .. Cardinality(T) : longer[k] \in S
      BY <1>2, <1>3, <1>4, <1>5
    <2> HIDE DEF S
    <2>2. /\ sub \in Seq(S)
          /\ Len(sub) = IF 1 <= Cardinality(T) THEN Cardinality(T) - 1 + 1 ELSE 0
          /\ \A k \in 1 .. Cardinality(T) - 1 + 1 : sub[k] = longer[1 + k - 1]
      BY <1>2, <2>1, SubSeqProperties
    <2> HIDE DEF sub
    <2>3. Len(sub) = Cardinality(T) /\ \A k \in 1 .. Cardinality(T) : sub[k] = longer[k]
      <3>1. PICK c \in Nat : c = Cardinality(T)
        BY <1>2
      <3>2. c - 1 + 1 = c /\ (IF 1 <= c THEN c - 1 + 1 ELSE 0) = c
            /\ \A k \in 1 .. c : 1 + k - 1 = k
        OBVIOUS
      <3>3. Len(sub) = c /\ \A k \in 1 .. c : sub[k] = longer[1 + k - 1]
        BY <2>2, <3>1, <3>2
      <3> QED
        BY <3>1, <3>2, <3>3
    <2>4. sub = [k \in 1 .. Cardinality(T) |-> sub[k]]
      BY <2>2, <2>3
    <2>5. sub = walk
      BY <1>5, <1>6, <2>3, <2>4
    <2> QED
      BY <1>6, <2>5 DEF sub
  <1>8. ASSUME NEW k \in 1 .. Len(longer)
        PROVE  Ledger!Chained(longer, k)
    <2>1. k \in 1 .. Cardinality(U) /\ At(U, k) \in U /\ longer[k] = new[At(U, k)]
      BY <1>6, AtRank
    <2>2. Linked(new, At(U, k)) /\ Sealed(new, At(U, k))
      BY <2>1 DEF VerifyChain
    <2>3. k = 1 => IsFirst(new, At(U, k))
      BY <2>1, WalkInOrder
    <2>4. k # 1 => /\ Precedes(new, At(U, k - 1), At(U, k))
                   /\ longer[k - 1] = new[At(U, k - 1)]
      <3>1. k # 1 => k - 1 \in 1 .. Cardinality(U)
        BY <1>1, <2>1
      <3> QED
        BY <2>1, <3>1, WalkInOrder
    <2>5. longer[k].prev = IF k = 1 THEN Genesis ELSE longer[k - 1].sum
      BY <2>1, <2>2, <2>3, <2>4 DEF Linked, Precedes
    <2>6. new[At(U, k)].sum = Hash(new[At(U, k)].content, new[At(U, k)].prev)
      BY <2>2 DEF Sealed
    <2> QED
      BY <2>1, <2>5, <2>6 DEF Ledger!Chained
  <1>9. T = U => longer = walk
    BY <1>5, <1>6
  <1>10. T # U => Len(longer) > Len(walk)
    BY <1>1, <1>2, <1>6
  <1> QED
    BY <1>7, <1>8, <1>9, <1>10 DEF Longer

LEMMA LedgerStep ==
  ASSUME IInv, IInv', EntriesInv', [Next]_vars
  PROVE  Ledger!Extend \/ Walk' = Walk
  <1>1. PICK n \in Nat : n = nextId'
    BY DEF IInv, TypeOK
  <1>2. PICK old, new, walk, longer : old = log /\ new = log' /\ walk = Walk /\ longer = Walk'
    OBVIOUS
  <1>3. /\ DOMAIN new \subseteq Nat /\ \A i \in DOMAIN new : i <= n
        /\ \A i \in DOMAIN new : new[i].content \in Contents
    BY <1>1, <1>2 DEF IInv, TypeOK, EntriesInv
  <1>4. VerifyChain(new)
    BY <1>2 DEF IInv, ChainIntact
  <1>5. /\ DOMAIN old \subseteq DOMAIN new /\ \A i \in DOMAIN old : new[i] = old[i]
        /\ \A i \in DOMAIN old, j \in DOMAIN new \ DOMAIN old : i < j
    BY <1>2, TrailGrows
  <1>6. /\ walk = [k \in 1 .. Cardinality(DOMAIN old) |-> old[At(DOMAIN old, k)]]
        /\ longer = [k \in 1 .. Cardinality(DOMAIN new) |-> new[At(DOMAIN new, k)]]
    BY <1>2 DEF Walk
  <1>7. Longer(old, new, walk, longer)
    BY <1>3, <1>4, <1>5, <1>6, WalkExtends
  <1>8. ASSUME DOMAIN old # DOMAIN new
        PROVE  Ledger!Extend
    <2>1. Len(walk) \in Nat /\ Len(longer) \in Nat
      BY <1>3, <1>5, <1>6, RankGrows
    <2> QED
      BY <1>2, <1>7, <1>8, <2>1 DEF Longer, Ledger!Extend
  <1> QED
    BY <1>2, <1>7, <1>8 DEF Longer

(* Any number of sessions, seen through the committed rows in id order, are *)
(* a ledger: it starts empty, and every step adds whole chains of entries   *)
(* behind the last one or changes nothing.                                  *)
THEOREM TrailIsLedger == Spec => ImplementsLedger
  <1>1. Init => Ledger!LedgerInit
    <2> SUFFICES ASSUME Init PROVE Walk = <<>>
      BY DEF Ledger!LedgerInit
    <2>1. DOMAIN log = {} /\ Cardinality(DOMAIN log) = 0
      BY FS_EmptySet DEF Init, NoRows
    <2>2. Walk = [k \in 1 .. 0 |-> log[At(DOMAIN log, k)]]
      BY <2>1 DEF Walk
    <2> QED
      BY <2>2
  <1>2. IInv /\ IInv' /\ EntriesInv' /\ [Next]_vars => [Ledger!Extend]_Walk
    BY LedgerStep
  <1> QED
    BY Invariance, EntriesInvariance, <1>1, <1>2, PTL DEF Spec, ImplementsLedger, Ledger!LedgerSpec
=============================================================================
