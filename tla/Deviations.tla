----------------------------- MODULE Deviations -----------------------------
(***************************************************************************)
(* HACCP measurements and SALSA checklists: what conforms is stored, what  *)
(* does not is stored together with a ticket that the same transaction     *)
(* creates.  The measurement is recorded in the audit chain before the     *)
(* ticket gets its number, so that these transactions hold the chain's     *)
(* lock while they read and insert the number; a ticket that is created    *)
(* for itself takes the two in the other order (TicketNumbers).            *)
(*                                                                         *)
(* Abstracted: who measured with what, notes, comments and the text of the *)
(* ticket; a checklist's answers are the set of the items that failed.     *)
(***************************************************************************)
EXTENDS TicketNumbers, Integers

CONSTANTS
  Points,     \* control points and checklists, [Points -> definition]: see Definition
  Readings,   \* values that are entered at a control point
  Items,      \* items of a checklist
  Unlimited   \* the limit that is not set

\* A control point has critical limits, a checklist has not; lines are open,
\* closed (is_active is off), or none, which only a checklist may have.
Definition ==
  [kind: {"ccp", "checklist"}, min: Readings \cup {Unlimited}, max: Readings \cup {Unlimited},
   active: BOOLEAN, line: {"open", "closed", "none"}]

ASSUME DefinitionAssumption ==
  /\ \A p \in DOMAIN Points : /\ Points[p] \in Definition
                              /\ Points[p].kind = "ccp" => Points[p].line # "none"
  /\ Readings \subseteq Int

VARIABLES
  work,     \* the control point or checklist each transaction raises a ticket for
  stored,   \* committed measurements and responses that do not conform
  lost      \* history: the one that was last entered and not stored, and why

records == <<work, stored, lost>>
Idle == "none"

\* CCPDefinition.is_within_limits(); no item of the checklist failed.
is_within_limits(p, value) ==
  /\ Points[p].min = Unlimited \/ value >= Points[p].min
  /\ Points[p].max = Unlimited \/ value <= Points[p].max
Conforms(p, entry) ==
  IF Points[p].kind = "ccp" THEN is_within_limits(p, entry) ELSE entry = {}

\* The form of a control point takes a 0 for a missing value.
Entries(p) == IF Points[p].kind = "ccp" THEN Readings \ {0} ELSE SUBSET Items

NeedsTicket(p, entry) ==
  /\ ~Conforms(p, entry)
  /\ Points[p].kind = "ccp" \/ Points[p].line # "none"

Entered(p, ticket) == [point |-> p, ticket |-> ticket]
Lost(p, why) == [point |-> p, why |-> why]

-----------------------------------------------------------------------------
\* record_measurement() and submit_response() up to the ticket: the row is
\* flushed and recorded in the audit chain, whose lock has to be free.
Enter(c, p) == ~Busy(c) /\ chain = Nobody /\ Points[p].active

\* No ticket is due: commit.
Store(c, p, entry) ==
  /\ Enter(c, p) /\ ~NeedsTicket(p, entry)
  /\ stored' = IF Conforms(p, entry) THEN stored ELSE stored \cup {Entered(p, 0)}
  /\ UNCHANGED <<vars, work, lost>>

Due(c, p, entry, line) == Enter(c, p) /\ NeedsTicket(p, entry) /\ Points[p].line = line

\* Mutant: the measurement is committed before its ticket is created.
StoreFirst(c, p, entry) ==
  /\ Due(c, p, entry, "open") /\ Room
  /\ chain' = c
  /\ work' = [work EXCEPT ![c] = p]
  /\ stored' = stored \cup {Entered(p, 0)}
  /\ UNCHANGED <<numbers, chosen, written, lost>>

\* Mutant: record() comes behind the ticket, as in create_ticket().
RecordLast(c, p, entry) ==
  /\ Due(c, p, entry, "open") /\ Room
  /\ chosen' = [chosen EXCEPT ![c] = Cardinality(numbers) + 1]
  /\ work' = [work EXCEPT ![c] = p]
  /\ UNCHANGED <<numbers, written, chain, stored, lost>>

Deviate(c, p, entry) ==
  /\ Due(c, p, entry, "open") /\ Room
  /\ chain' = c
  /\ work' = [work EXCEPT ![c] = p]
  /\ UNCHANGED <<numbers, chosen, written, stored, lost>>

\* create_ticket() refuses a line that is closed; its TicketError is not the
\* error the views handle, and the row is rolled back.
Refuse(c, p, entry) ==
  /\ Due(c, p, entry, "closed")
  /\ lost' = Lost(p, "closed")
  /\ UNCHANGED <<vars, work, stored>>

\* A measurement and a response raise one ticket.
GenerateOne(c) ==
  /\ work[c] = Idle \/ written[c] = {}
  /\ Generate(c) /\ UNCHANGED records

\* The ticket and the row that is linked to it are committed together.
Raise(c) ==
  /\ work[c] = Idle \/ written[c] # {}
  /\ Commit(c)
  /\ work' = [work EXCEPT ![c] = Idle]
  /\ stored' = IF work[c] = Idle THEN stored
               ELSE stored \cup {Entered(work[c], CHOOSE n \in written[c] : TRUE)}
  /\ UNCHANGED lost

\* The row goes with the rollback of the ticket.
Unwind(c, why) ==
  /\ work' = [work EXCEPT ![c] = Idle]
  /\ lost' = IF work[c] = Idle THEN lost ELSE Lost(work[c], why)
  /\ UNCHANGED stored

InsertFor(c) == Insert(c) /\ UNCHANGED records
RecordFor(c) == Record(c) /\ UNCHANGED records
CollideFor(c) == Collide(c) /\ Unwind(c, "collided")
AbortFor(c) == Abort(c) /\ Unwind(c, "deadlocked")

DevNext ==
  \E c \in Creators :
    \/ \E p \in DOMAIN Points : \E entry \in Entries(p) :
         Store(c, p, entry) \/ Deviate(c, p, entry) \/ Refuse(c, p, entry)
    \/ GenerateOne(c) \/ InsertFor(c) \/ RecordFor(c) \/ Raise(c)
    \/ CollideFor(c) \/ AbortFor(c)
    \/ GiveUp(c) /\ Unwind(c, "given up")

DevInit ==
  /\ Init
  /\ work = [c \in Creators |-> Idle] /\ stored = {} /\ lost = Lost("none", "none")

everything == <<vars, records>>
DevSpec == DevInit /\ [][DevNext]_everything

\* A transaction goes on when it can; who waits for a number or for the lock is
\* woken in turn when it is free, and the database breaks up deadlocks.
DevFairSpec ==
  /\ DevSpec
  /\ WF_everything(\E c \in Creators : AbortFor(c))
  /\ \A c \in Creators :
       /\ WF_everything(Busy(c) /\ GenerateOne(c)) /\ WF_everything(Raise(c))
       /\ WF_everything(CollideFor(c))
       /\ SF_everything(InsertFor(c)) /\ SF_everything(Busy(c) /\ RecordFor(c))

-----------------------------------------------------------------------------

(* What does not conform at a point with a line is not stored without its   *)
(* ticket, which belongs to it alone, whatever calls collide and roll back  *)
(* in between.                                                              *)
DeviationHasTicket ==
  /\ \A r \in stored : Points[r.point].line # "none" => r.ticket \in numbers
  /\ \A r, s \in stored : r.ticket = s.ticket /\ r.ticket # 0 => r = s

(* Measurements and responses hold the chain before they read a number, and *)
(* every ticket is committed under it: they never collide, not even with    *)
(* tickets created for themselves, and never deadlock with each other.      *)
LostOnlyToPlain ==
  /\ lost.why # "collided"
  /\ \A c, d \in Creators : Deadlocked(c, d) => Idle \in {work[c], work[d]}

(* Whoever waits for a number or for the lock of the chain comes to an end, *)
(* although the two are taken in both orders: nobody is left holding them.  *)
EveryCallEnds == \A c \in Creators : Busy(c) ~> ~Busy(c)

(* "create one ticket if any item failed" (services/salsa.py:35), which the *)
(* code does not when the checklist has no line (salsa.py:87).              *)
FailedItemHasTicket == \A r \in stored : r.ticket \in numbers

(* Transactions that create tickets "serialise via the transaction-scoped   *)
(* advisory lock" (services/audit.py:68) without waiting in a circle.       *)
NoDeadlock == \A c, d \in Creators : ~Deadlocked(c, d)
=============================================================================
