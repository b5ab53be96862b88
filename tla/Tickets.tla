------------------------------ MODULE Tickets ------------------------------
(***************************************************************************)
(* Tickets as concurrent web requests and the trigger engine change them.  *)
(*                                                                         *)
(* A request loads the ticket, decides on what it has loaded, reads the    *)
(* clock for the event of the move and commits the columns it changed.     *)
(* From its audit record() to its commit it holds the advisory lock of the *)
(* audit chain, so that writing and committing is one step here; between   *)
(* loading and writing nothing protects the ticket, and others may commit  *)
(* between the reading of the clock and the lock.  The history of a ticket *)
(* is read in the order of those times.                                    *)
(***************************************************************************)
EXTENDS Naturals, FiniteSets

CONSTANTS
  Tickets,
  Requests,   \* the requests and trigger evaluations in flight at once
  Users,
  Closers,    \* the users with the permission TICKETS_CLOSE
  None,       \* no user: unassigned, or the trigger engine
  MaxTime     \* bound: readings of the clock; no move is loaded after the last one

ASSUME ClosersAssumption == Closers \subseteq Users
ASSUME NoneAssumption == None \notin Users
ASSUME MaxTimeAssumption == MaxTime \in Nat

VARIABLES
  status, version, assignee, closedAt,  \* the columns of the tickets table
  events,   \* ticket_events: the set of status moves of each ticket
  stale,    \* history: the tickets that were moved from an older version
  request,  \* what each request has loaded and is about to do
  now       \* the clock: a step for each reading that is kept

columns == <<status, version, assignee, closedAt>>
vars == <<status, version, assignee, closedAt, events, stale, request, now>>

Lifecycle == INSTANCE TicketLifecycle

Statuses == Lifecycle!Statuses
Transitions == Lifecycle!Transitions
ClosedStates == Lifecycle!ClosedStates

Idle == [op |-> "idle"]

Init ==
  /\ status = [t \in Tickets |-> "absent"]
  /\ version = [t \in Tickets |-> 0]
  /\ assignee = [t \in Tickets |-> None]
  /\ closedAt = [t \in Tickets |-> FALSE]
  /\ events = [t \in Tickets |-> {}]
  /\ stale = {}
  /\ request = [q \in Requests |-> Idle]
  /\ now = 0

\* utcnow(); no two readings are the same.
ReadClock ==
  /\ now < MaxTime
  /\ now' = now + 1

\* Mutant: the CREATED event is forgotten.
CreateSilently(t, user) ==
  /\ status[t] = "absent"
  /\ ReadClock
  /\ status' = [status EXCEPT ![t] = "new"]
  /\ version' = [version EXCEPT ![t] = 1]
  /\ UNCHANGED <<assignee, closedAt, events, stale, request>>

\* create_ticket(): the row, its CREATED event and its audit row.  Nobody can load
\* the ticket before the commit, so no time of another event comes before its own.
Create(t, user) ==
  /\ status[t] = "absent"
  /\ ReadClock
  /\ status' = [status EXCEPT ![t] = "new"]
  /\ version' = [version EXCEPT ![t] = 1]
  /\ events' = [events EXCEPT ![t] =
                  @ \cup {[from |-> "absent", to |-> "new", by |-> user, at |-> now']}]
  /\ UNCHANGED <<assignee, closedAt, stale, request>>

-----------------------------------------------------------------------------
\* Loading: db.session.get(Ticket, id), then the checks of the view.

Load(q, t, op, user, target) ==
  /\ request[q] = Idle
  /\ status[t] # "absent"
  /\ request' = [request EXCEPT ![q] =
                   [op |-> op, ticket |-> t, user |-> user, target |-> target,
                    status |-> status[t], version |-> version[t],
                    assignee |-> assignee[t], at |-> 0]]
  /\ UNCHANGED <<columns, events, stale, now>>

\* Mutant: closing asks for no permission.
LoadAnyTransition(q) ==
  \E t \in Tickets, u \in Users, to \in Statuses :
    now < MaxTime /\ Load(q, t, "transition", u, to)

\* POST /tickets/<id>/transition: only closing asks for a permission more.
LoadTransition(q) ==
  \E t \in Tickets, u \in Users, to \in Statuses :
    /\ now < MaxTime
    /\ to = "closed" => u \in Closers
    /\ Load(q, t, "transition", u, to)

\* POST /tickets/<id>/assign with an assignee, and without one.
LoadAssign(q) ==
  \E t \in Tickets, u \in Users, to \in Users : Load(q, t, "assign", u, to)

LoadUnassign(q) ==
  \E t \in Tickets, u \in Users : Load(q, t, "unassign", u, None)

\* The ESCALATE responder of a trigger.
LoadEscalate(q) ==
  \E t \in Tickets : now < MaxTime /\ Load(q, t, "escalate", None, "escalated")

-----------------------------------------------------------------------------
\* Writing: each column is set to what the request computed from its load.

Finish(q) == request' = [request EXCEPT ![q] = Idle]

\* Mutant: every open ticket may go everywhere.
MayMoveWhileOpen(from, to) == from \notin ClosedStates

\* can_transition()
MayMove(from, to) == to \in Transitions[from]

\* The status to which transition() is called to move the ticket; assign_to() calls
\* it for NEW tickets.
Goal(r) == IF r.op = "assign" THEN "assigned" ELSE r.target
Moves(r) == r.op \in {"transition", "escalate"} \/ (r.op = "assign" /\ r.status = "new")

\* The first half of transition(): its check and the time of its event.
Stamp(q) ==
  /\ Moves(request[q]) /\ request[q].at = 0
  /\ MayMove(request[q].status, Goal(request[q]))
  /\ ReadClock
  /\ request' = [request EXCEPT ![q].at = now']
  /\ UNCHANGED <<columns, events, stale>>

\* closed_at: set by a move into CLOSED or REJECTED, cleared by none.
Stamped(old, to) == old \/ to \in ClosedStates

\* The second half of transition(), with the assignee the caller wants to be seen
\* by then.
WriteTransition(q, newAssignee) ==
  LET r == request[q]
      t == r.ticket
      to == Goal(r)
      owner == IF to = "assigned" /\ newAssignee = None THEN r.user
                                                        ELSE newAssignee
  IN /\ r.at # 0
     /\ status' = [status EXCEPT ![t] = to]
     /\ version' = [version EXCEPT ![t] = r.version + 1]
     /\ assignee' = [assignee EXCEPT ![t] = IF owner # r.assignee THEN owner ELSE @]
     /\ closedAt' = [closedAt EXCEPT ![t] = Stamped(@, to)]
     /\ events' = [events EXCEPT ![t] =
                     @ \cup {[from |-> r.status, to |-> to, by |-> r.user, at |-> r.at]}]
     /\ stale' = IF r.version = version[t] THEN stale ELSE stale \cup {t}
     /\ UNCHANGED now

Transition(q) ==
  /\ request[q].op \in {"transition", "escalate"}
  /\ WriteTransition(q, request[q].assignee)
  /\ Finish(q)

\* TicketError, or the "skipped" outcome of the ESCALATE responder.
TransitionRefused(q) ==
  /\ request[q].op \in {"transition", "escalate"}
  /\ ~MayMove(request[q].status, request[q].target)
  /\ Finish(q)
  /\ UNCHANGED <<columns, events, stale, now>>

\* assign_to(): a NEW ticket becomes ASSIGNED on the way.
AssignNew(q) ==
  /\ request[q].op = "assign"
  /\ request[q].status = "new"
  /\ WriteTransition(q, request[q].target)
  /\ Finish(q)

SetAssignee(q, who) ==
  LET r == request[q]
  IN assignee' = [assignee EXCEPT ![r.ticket] = IF who # r.assignee THEN who ELSE @]

\* Mutant: an assignment counts as a version of its own.
AssignOtherCounted(q) ==
  LET t == request[q].ticket IN
  /\ request[q].op = "assign"
  /\ request[q].status # "new"
  /\ SetAssignee(q, request[q].target)
  /\ version' = [version EXCEPT ![t] = @ + 1]
  /\ Finish(q)
  /\ UNCHANGED <<status, closedAt, events, stale, now>>

AssignOther(q) ==
  /\ request[q].op = "assign"
  /\ request[q].status # "new"
  /\ SetAssignee(q, request[q].target)
  /\ Finish(q)
  /\ UNCHANGED <<status, version, closedAt, events, stale, now>>

\* The "unassign" branch of the view clears the column and commits.
Unassign(q) ==
  /\ request[q].op = "unassign"
  /\ SetAssignee(q, None)
  /\ Finish(q)
  /\ UNCHANGED <<status, version, closedAt, events, stale, now>>

\* The request fails before its commit, or its process dies.
Abort(q) ==
  /\ request[q] # Idle
  /\ Finish(q)
  /\ UNCHANGED <<columns, events, stale, now>>

Handle(q) ==
  \/ LoadTransition(q) \/ LoadAssign(q) \/ LoadUnassign(q) \/ LoadEscalate(q)
  \/ Stamp(q) \/ Transition(q) \/ TransitionRefused(q)
  \/ AssignNew(q) \/ AssignOther(q) \/ Unassign(q)
  \/ Abort(q)

Next ==
  \/ \E t \in Tickets, u \in Users \cup {None} : Create(t, u)
  \/ \E q \in Requests : Handle(q)

Spec == Init /\ [][Next]_vars

-----------------------------------------------------------------------------

Event == [from : Statuses \cup {"absent"}, to : Statuses, by : Users \cup {None}, at : Nat]

Loaded ==
  [op : {"transition", "assign", "unassign", "escalate"}, ticket : Tickets,
   user : Users \cup {None}, target : Statuses \cup Users \cup {None},
   status : Statuses, version : Nat, assignee : Users \cup {None},
   at : Nat]  \* 0: the clock has not been read

\* Types of the columns and of what a request carries.
TypeOK ==
  /\ status \in [Tickets -> Statuses \cup {"absent"}]
  /\ version \in [Tickets -> Nat]
  /\ assignee \in [Tickets -> Users \cup {None}]
  /\ closedAt \in [Tickets -> BOOLEAN]
  /\ events \in [Tickets -> SUBSET Event]
  /\ stale \subseteq Tickets /\ now \in 0 .. MaxTime
  /\ request \in [Requests -> {Idle} \cup Loaded]

\* The order in which Ticket.events lists the history.
IsNewest(e, history) == \A f \in history : f.at <= e.at
Follows(f, e, history) ==
  e.at < f.at /\ ~\E g \in history : e.at < g.at /\ g.at < f.at

(* However requests interleave, a ticket is where one of its events moved   *)
(* it; and the newest one did, although the times of events are taken       *)
(* before the requests queue for the lock, unless a request has written the *)
(* ticket from an older version: then history and ticket may disagree.      *)
StatusIsLastEvent ==
  \A t \in Tickets :
    /\ status[t] # "absent" => \E e \in events[t] : e.to = status[t]
    /\ t \notin stale => \A e \in events[t] : IsNewest(e, events[t]) => e.to = status[t]

(* Each recorded event is a move of the table on its own, whatever the      *)
(* request that made it raced with.                                         *)
EventsAreMoves ==
  \A t \in Tickets : \A e \in events[t] :
    e.from # "absent" => e.to \in Transitions[e.from]

(* A ticket in a closed state carries its closing time, also when the write *)
(* that closed it overlapped with others.                                   *)
ClosedIsStamped ==
  \A t \in Tickets : status[t] \in ClosedStates => closedAt[t]

(* Nobody but a holder of TICKETS_CLOSE has ever closed a ticket: neither   *)
(* an assignment, nor the trigger engine, nor a race gets around the check. *)
ClosedByCloser ==
  \A t \in Tickets : \A e \in events[t] : e.to = "closed" => e.by \in Closers

(* As long as no request has written a ticket from an older version, its    *)
(* events, read in the order of their times, replay its life without a gap  *)
(* and its version counts them: equal versions mean equal tickets, whatever *)
(* other requests are in flight.                                            *)
HistoryReplays ==
  \A t \in Tickets \ stale :
    /\ version[t] = Cardinality(events[t])
    /\ \A e, f \in events[t] : Follows(f, e, events[t]) => f.from = e.to

(* As long as no request has written it from an older version, only a       *)
(* ticket that is closed carries a closing time.                            *)
OnlyClosedIsStamped ==
  \A t \in Tickets \ stale : closedAt[t] => status[t] \in ClosedStates

(* Concurrent requests implement the transition table, but for the tickets  *)
(* that are written from an older version: a lost update is the one way off *)
(* the table.                                                               *)
ImplementsLifecycle == Lifecycle!LifecycleSpec

(* "Saving a stale version -> 409 Conflict": every write of a ticket that   *)
(* moves it is based on the version the ticket has then.                    *)
NoStaleWrite ==
  [][\A t \in Tickets : events'[t] # events[t] => version'[t] = version[t] + 1]_vars
=============================================================================
