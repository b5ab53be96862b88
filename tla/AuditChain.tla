----------------------------- MODULE AuditChain -----------------------------
(***************************************************************************)
(* The hash-chained audit trail: audit.record() as database sessions run   *)
(* it on PostgreSQL, and audit.verify_chain().                             *)
(*                                                                         *)
(* A session is one database transaction.  record() takes the advisory     *)
(* lock of the chain, reads the checksum of the newest row it can see,     *)
(* inserts its row with a blank checksum (first flush) and then updates    *)
(* the row with the checksum (second flush).  The caller commits, maybe    *)
(* after more calls of record(); commit and rollback release the lock.     *)
(* Ids come from a sequence, which a rollback does not turn back.          *)
(***************************************************************************)
EXTENDS Naturals, FiniteSets

CONSTANTS
  Sessions,   \* the database sessions that append to the audit trail
  NoSession,  \* the lock is free
  Contents,   \* the hashed columns of a row but prev, as record() gets them
  Hash(_, _), \* the SHA-256 of a row's content and of its prev_checksum
  Genesis,    \* GENESIS_HASH
  Blank,      \* the checksum a row is first inserted with
  Guards,     \* TRUE, FALSE: databases with and without the trigger
  MaxId       \* bound: ids the sequence hands out

ASSUME SessionsAssumption == NoSession \notin Sessions
ASSUME GuardsAssumption == Guards \subseteq BOOLEAN
ASSUME MaxIdAssumption == MaxId \in Nat

VARIABLES
  log,     \* the committed rows: a function from ids to rows
  nextId,  \* the next value of the id sequence
  holder,  \* the session that holds the advisory lock
  pc,      \* where each session is in record()
  mine,    \* the rows each session has written and not yet committed
  prev,    \* prev_hash, the tail each session has read
  guarded  \* is the trigger audit_log_immutable_trg installed?

vars == <<log, nextId, holder, pc, mine, prev, guarded>>

NoRows == [i \in {} |-> 0]

\* What a session sees: the committed rows, overlaid by its own writes.
Overlay(own, base) ==
  [i \in DOMAIN base \cup DOMAIN own |->
     IF i \in DOMAIN own THEN own[i] ELSE base[i]]

View(s) == Overlay(mine[s], log)

IsLast(rows, i)  == i \in DOMAIN rows /\ \A j \in DOMAIN rows : j <= i
IsFirst(rows, i) == i \in DOMAIN rows /\ \A j \in DOMAIN rows : i <= j

\* j is the row that an ascending walk of rows meets just before i.
Precedes(rows, j, i) ==
  /\ {i, j} \subseteq DOMAIN rows
  /\ j < i
  /\ \A k \in DOMAIN rows : k <= j \/ i <= k

\* The row's link to its predecessor, and its own checksum.
Linked(rows, i) ==
  /\ IsFirst(rows, i) => rows[i].prev = Genesis
  /\ \A j \in DOMAIN rows : Precedes(rows, j, i) => rows[i].prev = rows[j].sum

Sealed(rows, i) == rows[i].sum = Hash(rows[i].content, rows[i].prev)

\* Mutant: the checksum leaves prev_checksum out.
WithUnlinkedChecksum(row) == [content |-> row.content, prev |-> row.prev,
                              sum |-> Hash(row.content, Genesis)]

\* compute_checksum(), stored back into the row.
WithChecksum(row) == [content |-> row.content, prev |-> row.prev,
                      sum |-> Hash(row.content, row.prev)]

\* verify_chain(): every row met on the walk is linked and sealed.
VerifyChain(rows) == \A i \in DOMAIN rows : Linked(rows, i) /\ Sealed(rows, i)

-----------------------------------------------------------------------------

Init ==
  /\ log = NoRows
  /\ nextId = 1
  /\ holder = NoSession
  /\ pc = [s \in Sessions |-> "idle"]
  /\ mine = [s \in Sessions |-> NoRows]
  /\ prev = [s \in Sessions |-> Genesis]
  /\ guarded \in Guards

\* Mutant: pg_try_advisory_xact_lock, with its result ignored.
AcquireLockNoWait(s) ==
  /\ pc[s] \in {"idle", "sealed"}
  /\ holder' = s
  /\ pc' = [pc EXCEPT ![s] = "locked"]
  /\ UNCHANGED <<log, nextId, mine, prev>>

\* pg_advisory_xact_lock: free, or already held by this very transaction.
AcquireLock(s) ==
  /\ pc[s] \in {"idle", "sealed"}
  /\ holder \in {NoSession, s}
  /\ holder' = s
  /\ pc' = [pc EXCEPT ![s] = "locked"]
  /\ UNCHANGED <<log, nextId, mine, prev>>

\* Mutant: the tail is read on another connection, own rows are not seen.
ReadCommittedTail(s) ==
  /\ pc[s] = "locked"
  /\ \/ log = NoRows /\ prev' = [prev EXCEPT ![s] = Genesis]
     \/ \E i \in DOMAIN log :
          IsLast(log, i) /\ prev' = [prev EXCEPT ![s] = log[i].sum]
  /\ pc' = [pc EXCEPT ![s] = "read"]
  /\ UNCHANGED <<log, nextId, holder, mine>>

ReadTail(s) ==
  /\ pc[s] = "locked"
  /\ \/ /\ DOMAIN View(s) = {}
        /\ prev' = [prev EXCEPT ![s] = Genesis]
     \/ \E i \in DOMAIN View(s) :
          /\ IsLast(View(s), i)
          /\ prev' = [prev EXCEPT ![s] = View(s)[i].sum]
  /\ pc' = [pc EXCEPT ![s] = "read"]
  /\ UNCHANGED <<log, nextId, holder, mine>>

\* First flush: INSERT with checksum "".
InsertRow(s, content) ==
  LET row == [content |-> content, prev |-> prev[s], sum |-> Blank] IN
  /\ pc[s] = "read"
  /\ nextId <= MaxId
  /\ mine' = [mine EXCEPT ![s] =
                [i \in DOMAIN mine[s] \cup {nextId} |->
                   IF i = nextId THEN row ELSE mine[s][i]]]
  /\ nextId' = nextId + 1
  /\ pc' = [pc EXCEPT ![s] = "inserted"]
  /\ UNCHANGED <<log, holder, prev>>

Insert(s) == \E c \in Contents : InsertRow(s, c)

\* Second flush: UPDATE of the row just inserted, now with its checksum.
SealRow(s) ==
  /\ pc[s] = "inserted"
  /\ mine' = [mine EXCEPT ![s] =
                [i \in DOMAIN mine[s] |->
                   IF i = nextId - 1 THEN WithChecksum(mine[s][i])
                                     ELSE mine[s][i]]]
  /\ pc' = [pc EXCEPT ![s] = "sealed"]
  /\ UNCHANGED <<log, nextId, holder, prev>>

Seal(s) == ~guarded /\ SealRow(s)

\* BEFORE UPDATE ON audit_log: the trigger refuses every UPDATE.
SealRefused(s) ==
  /\ guarded
  /\ pc[s] = "inserted"
  /\ pc' = [pc EXCEPT ![s] = "failed"]
  /\ UNCHANGED <<log, nextId, holder, mine, prev>>

Release(s) ==
  /\ holder' = IF holder = s THEN NoSession ELSE holder
  /\ pc' = [pc EXCEPT ![s] = "idle"]
  /\ mine' = [mine EXCEPT ![s] = NoRows]
  /\ UNCHANGED <<nextId, prev>>

Commit(s) ==
  /\ pc[s] = "sealed"
  /\ log' = View(s)
  /\ Release(s)

\* An error in the caller, a refused statement, a lost connection, a crash.
Rollback(s) ==
  /\ pc[s] # "idle"
  /\ Release(s)
  /\ UNCHANGED log

Step(s) ==
  \/ AcquireLock(s)
  \/ ReadTail(s)
  \/ Insert(s)
  \/ Seal(s)
  \/ SealRefused(s)
  \/ Commit(s)
  \/ Rollback(s)

Next == (\E s \in Sessions : Step(s)) /\ UNCHANGED guarded

Spec == Init /\ [][Next]_vars

-----------------------------------------------------------------------------

Stages == {"idle", "locked", "read", "inserted", "sealed", "failed"}

\* Types: rows are keyed by ids the sequence has handed out.
TypeOK ==
  /\ nextId \in Nat \ {0}
  /\ holder \in Sessions \cup {NoSession}
  /\ guarded \in Guards
  /\ pc \in [Sessions -> Stages]
  /\ DOMAIN mine = Sessions
  /\ DOMAIN prev = Sessions
  /\ DOMAIN log \subseteq 1 .. (nextId - 1)
  /\ \A s \in Sessions : DOMAIN mine[s] \subseteq 1 .. (nextId - 1)

(* The committed trail always passes verify_chain(), however record() calls *)
(* of concurrent transactions interleave, commit and roll back.             *)
ChainIntact == VerifyChain(log)

(* A commit only ever appends: committed rows keep their contents and       *)
(* checksums, and every new row has an id above all the committed ones, so  *)
(* that the walk in id order is the order of the commits.                   *)
AppendOnly ==
  [][/\ \A i \in DOMAIN log : i \in DOMAIN log' /\ log'[i] = log[i]
     /\ \A i \in DOMAIN log : \A j \in DOMAIN log' \ DOMAIN log : i < j]_vars

\* The place of an id among others, and the id at a place.
Rank(ids, i) == Cardinality({j \in ids : j <= i})
At(ids, k) == CHOOSE i \in ids : Rank(ids, i) = k

\* The committed rows as verify_chain() walks them.
Walk == [k \in 1 .. Cardinality(DOMAIN log) |-> log[At(DOMAIN log, k)]]

Ledger == INSTANCE AuditLedger WITH ledger <- Walk

(* The sessions of AuditChain, seen through the committed rows in id order, *)
(* are a hash-chained ledger that only grows: AuditChain implements it.     *)
ImplementsLedger == Ledger!LedgerSpec

(* "Append a new entry to audit_log" (services/audit.py:65): the database   *)
(* does not refuse an ordinary record() call.  Where the production trigger *)
(* of models/audit.py:19-20 is installed it does, so that nothing but a     *)
(* redaction is recorded any more.                                          *)
RecordNeverRefused == \A s \in Sessions : pc[s] # "failed"
=============================================================================
