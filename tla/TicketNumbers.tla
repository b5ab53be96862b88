--------------------------- MODULE TicketNumbers ---------------------------
(***************************************************************************)
(* The numbers QMS-YYYY-NNNNN of one year, handed out by concurrent calls  *)
(* of create_ticket() on PostgreSQL.  Each call reads the newest number,   *)
(* newest in the order of the text column, and inserts the one after it;   *)
(* the column is UNIQUE, so that an INSERT waits for a transaction that    *)
(* has written the same number and fails when that one commits.  After the *)
(* INSERT, audit.record() takes the lock of the audit chain, which is held *)
(* until the commit.  Transactions that wait for each other are broken up  *)
(* by the database.                                                        *)
(***************************************************************************)
EXTENDS Naturals, FiniteSets

CONSTANTS
  Creators,   \* concurrent transactions that create tickets
  Nobody,     \* the lock of the audit chain is free
  PerCall,    \* bound: tickets of one transaction, as trigger responders create
  Base,       \* the digits a number is written with: ten in the code
  Width,      \* the width it is padded to: five in the code
  MaxNumber   \* bound: tickets of the year

ASSUME CreatorsAssumption == IsFiniteSet(Creators) /\ Nobody \notin Creators
ASSUME BaseAssumption == Base \in Nat \ {0, 1}
ASSUME WidthAssumption == Width \in Nat \ {0}
ASSUME BoundAssumption == PerCall \in Nat \ {0} /\ MaxNumber \in Nat

VARIABLES
  numbers,  \* the numbers of the committed tickets
  chosen,   \* the number each call has generated and not yet inserted, or 0
  written,  \* the numbers each transaction has inserted and not yet committed
  chain     \* the holder of the audit chain's lock

vars == <<numbers, chosen, written, chain>>

\* The digits f"{n:05d}" writes: Width of them, or as many as n needs.
Places(n) == CHOOSE w \in Width .. Width + MaxNumber :
               n < Base ^ w /\ \A v \in Width .. w - 1 : Base ^ v <= n

\* a sorts behind b as text: numbers of one width as numbers do, others as if
\* they were padded with zeros on the right, and the longer one behind its prefix.
TextAfter(a, b) ==
  IF Places(a) = Places(b) THEN a > b
  ELSE LET wide == IF Places(a) > Places(b) THEN Places(a) ELSE Places(b)
           A == a * Base ^ (wide - Places(a))
           B == b * Base ^ (wide - Places(b))
       IN A > B \/ (A = B /\ Places(a) > Places(b))

\* ORDER BY ticket_number DESC LIMIT 1
IsNewest(seen, n) == n \in seen /\ \A m \in seen \ {n} : TextAfter(n, m)

\* A transaction sees what is committed and what it wrote itself.
Seen(c) == numbers \cup written[c]

Busy(c) == chosen[c] # 0 \/ written[c] # {} \/ chain = c

Init ==
  /\ numbers = {}
  /\ chosen = [c \in Creators |-> 0]
  /\ written = [c \in Creators |-> {}]
  /\ chain = Nobody

\* There are numbers left for another transaction, below the bound.
Room == Cardinality(numbers) + PerCall * (Cardinality({c \in Creators : Busy(c)}) + 1) <= MaxNumber

\* generate_ticket_number(), in the first or a further call of the transaction.
Generate(c) ==
  /\ chosen[c] = 0 /\ Cardinality(written[c]) < PerCall
  /\ chain = c \/ (~Busy(c) /\ Room)
  /\ \/ Seen(c) = {} /\ chosen' = [chosen EXCEPT ![c] = 1]
     \/ \E n \in Seen(c) : IsNewest(Seen(c), n) /\ chosen' = [chosen EXCEPT ![c] = n + 1]
  /\ UNCHANGED <<numbers, written, chain>>

\* The flush of the ticket: nobody has committed the number, and nobody who
\* has written it is still undecided.
Insert(c) ==
  /\ chosen[c] # 0
  /\ chosen[c] \notin numbers
  /\ \A d \in Creators : chosen[c] \notin written[d]
  /\ written' = [written EXCEPT ![c] = @ \cup {chosen[c]}]
  /\ chosen' = [chosen EXCEPT ![c] = 0]
  /\ UNCHANGED <<numbers, chain>>

\* record(): the lock of the chain, unless the transaction holds it already;
\* behind a ticket, or for a trigger that fired before the one that creates it.
Record(c) ==
  /\ (written[c] # {} /\ chosen[c] = 0) \/ (~Busy(c) /\ Room)
  /\ chain = Nobody
  /\ chain' = c
  /\ UNCHANGED <<numbers, chosen, written>>

\* Mutant: the session is not closed after an error, its transaction stays.
StillHeld(c) == chain

\* The lock is the transaction's: it ends with it.
Released(c) == IF chain = c THEN Nobody ELSE chain

Commit(c) ==
  /\ chain = c /\ chosen[c] = 0
  /\ numbers' = numbers \cup written[c]
  /\ written' = [written EXCEPT ![c] = {}]
  /\ chain' = Nobody
  /\ UNCHANGED chosen

Rollback(c) ==
  /\ chosen' = [chosen EXCEPT ![c] = 0]
  /\ written' = [written EXCEPT ![c] = {}]
  /\ chain' = Released(c)
  /\ UNCHANGED numbers

\* IntegrityError: no TicketError, so no caller handles it.
Collide(c) == chosen[c] \in numbers /\ Rollback(c)

\* The transaction fails for another reason.
GiveUp(c) == Busy(c) /\ Rollback(c)

\* c waits for d to end: for its number, or for the lock of the chain.
Waits(c, d) ==
  /\ c # d
  /\ \/ chosen[c] # 0 /\ chosen[c] \in written[d]
     \/ chosen[c] = 0 /\ written[c] # {} /\ chain = d

\* The database aborts one of two transactions that wait for each other.
Deadlocked(c, d) == Waits(c, d) /\ Waits(d, c)
Abort(c) == (\E d \in Creators : Deadlocked(c, d)) /\ Rollback(c)

Create(c) == \/ Generate(c) \/ Insert(c) \/ Record(c) \/ Commit(c)
             \/ Collide(c) \/ Abort(c) \/ GiveUp(c)

Next == \E c \in Creators : Create(c)

Spec == Init /\ [][Next]_vars

-----------------------------------------------------------------------------

(* The numbers of a year have no gaps and no repeats, whatever calls race,  *)
(* collide and roll back: the newest is the count of the tickets.           *)
NoGaps == numbers = 1 .. Cardinality(numbers)

(* "QMS-YYYY-NNNNN, monotonic per year" (services/tickets.py:32): a         *)
(* generated number is above all the numbers given out by then.             *)
GeneratedIsNew ==
  [][\A c \in Creators :
       chosen'[c] > chosen[c] => \A n \in numbers : chosen'[c] > n]_vars
=============================================================================
