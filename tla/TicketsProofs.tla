--------------------------- MODULE TicketsProofs ---------------------------
(***************************************************************************)
(* Proofs about Tickets: what holds however many requests race, and that   *)
(* tickets which none of them has overwritten follow the transition table. *)
(***************************************************************************)
EXTENDS Tickets, FiniteSetTheorems, TLAPS

\* What a request has checked by the time it is loaded, and by the time it has read
\* the clock.
RequestInv ==
  \A q \in Requests : request[q].op # "idle" =>
    /\ request[q].op = "transition" =>
         (request[q].target = "closed" => request[q].user \in Closers)
    /\ request[q].op = "escalate" => request[q].target = "escalated"
    /\ request[q].op = "assign" => request[q].target \in Users
    /\ request[q].at <= now
    /\ request[q].at # 0 =>
         Moves(request[q]) /\ MayMove(request[q].status, Goal(request[q]))

\* Every ticket is where one of its events moved it; the clock is past all of them.
HistoryInv ==
  \A t \in Tickets :
    /\ IsFiniteSet(events[t])
    /\ \A e \in events[t] : e.at <= now
    /\ status[t] = "absent" => events[t] = {}
    /\ status[t] # "absent" => \E e \in events[t] : e.to = status[t]

IInv ==
  /\ TypeOK
  /\ RequestInv
  /\ HistoryInv
  /\ EventsAreMoves
  /\ ClosedIsStamped
  /\ ClosedByCloser

-----------------------------------------------------------------------------

(* The targets of the table are statuses; none is NEW, and neither closing  *)
(* nor escalating is what an assignment does.                               *)
LEMMA TableTypes ==
  /\ \A from \in Statuses : Transitions[from] \subseteq Statuses
  /\ ClosedStates \subseteq Statuses
  /\ "assigned" \notin ClosedStates /\ "escalated" \in Statuses
  /\ "new" \in Statuses \ ClosedStates /\ "absent" \notin Statuses
  BY DEF Statuses, Transitions, ClosedStates, Lifecycle!Statuses,
         Lifecycle!Transitions, Lifecycle!ClosedStates

\* Nothing leaves a closed state.
LEMMA ClosedIsFinal ==
  ASSUME NEW from \in ClosedStates
  PROVE  Transitions[from] = {}
  BY DEF Transitions, ClosedStates, Lifecycle!Transitions, Lifecycle!ClosedStates

(* A request that leaves the ticket's status and events alone keeps every   *)
(* part of the invariant but the types.                                     *)
LEMMA QuietStep ==
  ASSUME IInv, UNCHANGED <<status, closedAt, events>>, now' \in {now, now + 1},
         TypeOK', RequestInv'
  PROVE  IInv'
  <1>1. HistoryInv'
    <2> SUFFICES ASSUME NEW t \in Tickets
                 PROVE  /\ IsFiniteSet(events[t])
                        /\ \A e \in events[t] : e.at <= now'
                        /\ status[t] = "absent" => events[t] = {}
                        /\ status[t] # "absent" => \E e \in events[t] : e.to = status[t]
      BY DEF HistoryInv
    <2>1. \A e \in events[t] : e.at \in Nat
      BY DEF IInv, TypeOK, Event
    <2>2. now \in Nat
      BY MaxTimeAssumption DEF IInv, TypeOK
    <2> QED
      BY <2>1, <2>2 DEF IInv, HistoryInv
  <1> QED
    BY <1>1 DEF IInv, EventsAreMoves, ClosedIsStamped, ClosedByCloser

\* What the request of a move has checked before it writes.
LEMMA MoveFacts ==
  ASSUME IInv, NEW q \in Requests, NEW owner,
         request[q].op # "idle", WriteTransition(q, owner),
         NEW r, r = request[q], NEW t, t = r.ticket, NEW to, to = Goal(r),
         NEW e, e = [from |-> r.status, to |-> to, by |-> r.user, at |-> r.at]
  PROVE  /\ r \in Loaded /\ t \in Tickets /\ to \in Transitions[r.status]
         /\ r.at <= now /\ to \in Statuses /\ e \in Event
         /\ e.from = r.status /\ e.to = to /\ e.by = r.user /\ e.at = r.at
         /\ r.at # 0 /\ (to = "closed" => r.user \in Closers)
  <1>1. r \in Loaded
    BY DEF IInv, TypeOK, Idle
  <1>2. /\ t \in Tickets /\ r.status \in Statuses /\ r.version \in Nat
        /\ r.user \in Users \cup {None} /\ r.at \in Nat
    BY <1>1 DEF Loaded
  <1>3. r.at # 0
    BY DEF WriteTransition
  <1>4. /\ to \in Transitions[r.status] /\ Moves(r) /\ r.at <= now
        /\ r.op = "transition" => (r.target = "closed" => r.user \in Closers)
        /\ r.op = "escalate" => r.target = "escalated"
    BY <1>3 DEF IInv, RequestInv, MayMove
  <1>5. to = "closed" => r.user \in Closers
    BY <1>4 DEF Moves, Goal
  <1>6. to \in Statuses
    BY <1>2, <1>4, TableTypes
  <1>7. e \in Event /\ e.from = r.status /\ e.to = to /\ e.by = r.user /\ e.at = r.at
    BY <1>2, <1>6 DEF Event
  <1> QED
    BY <1>1, <1>2, <1>3, <1>4, <1>5, <1>6, <1>7

(* The write of a move adds a legal event and moves the ticket to where it  *)
(* leads.                                                                   *)
LEMMA MoveStep ==
  ASSUME IInv, NEW q \in Requests, NEW owner \in Users \cup {None},
         request[q].op # "idle", WriteTransition(q, owner), Finish(q)
  PROVE  IInv'
  <1>1. PICK r : r = request[q]
    OBVIOUS
  <1>2. PICK t, to : t = r.ticket /\ to = Goal(r)
    OBVIOUS
  <1>3. PICK e : e = [from |-> r.status, to |-> to, by |-> r.user, at |-> r.at]
    OBVIOUS
  <1>4. /\ r \in Loaded /\ t \in Tickets /\ to \in Transitions[r.status]
        /\ r.at <= now /\ to \in Statuses /\ e \in Event
        /\ e.from = r.status /\ e.to = to /\ e.by = r.user /\ e.at = r.at
        /\ to = "closed" => r.user \in Closers
    BY <1>1, <1>2, <1>3, MoveFacts
  <1>5. /\ status' = [status EXCEPT ![t] = to]
        /\ version' = [version EXCEPT ![t] = r.version + 1]
        /\ events' = [events EXCEPT ![t] = events[t] \cup {e}]
        /\ closedAt' = [closedAt EXCEPT ![t] = closedAt[t] \/ to \in ClosedStates]
        /\ stale' = IF r.version = version[t] THEN stale ELSE stale \cup {t}
        /\ request' = [request EXCEPT ![q] = Idle]
        /\ now' = now
    BY <1>1, <1>2, <1>3 DEF WriteTransition, Stamped, Finish
  <1>6. TypeOK'
    <2>1. events' \in [Tickets -> SUBSET Event]
      BY <1>4, <1>5 DEF IInv, TypeOK
    <2>2. closedAt' \in [Tickets -> BOOLEAN]
      BY <1>4, <1>5 DEF IInv, TypeOK
    <2>3. r.version \in Nat
      BY <1>4 DEF Loaded
    <2>4. stale' \subseteq Tickets
      BY <1>4, <1>5 DEF IInv, TypeOK
    <2>5. assignee' \in [Tickets -> Users \cup {None}]
      BY <1>1, <1>4 DEF WriteTransition, Loaded, IInv, TypeOK
    <2> QED
      BY <1>4, <1>5, <2>1, <2>2, <2>3, <2>4, <2>5 DEF IInv, TypeOK
  <1>7. RequestInv'
    BY <1>5 DEF IInv, RequestInv, TypeOK, Idle
  <1>8. /\ \A u \in Tickets \ {t} : /\ events'[u] = events[u]
                                    /\ status'[u] = status[u]
                                    /\ closedAt'[u] = closedAt[u]
        /\ events'[t] = events[t] \cup {e}
        /\ status'[t] = to
        /\ to \in ClosedStates => closedAt'[t]
    BY <1>4, <1>5 DEF IInv, TypeOK
  <1>9. HistoryInv'
    <2>1. IsFiniteSet(events[t])
      BY <1>4 DEF IInv, HistoryInv
    <2>2. IsFiniteSet(events'[t])
      BY <1>8, <2>1, FS_AddElement
    <2>3. to # "absent"
      BY <1>4, TableTypes
    <2>4. \A f \in events'[t] : f.at <= now'
      BY <1>4, <1>5, <1>8 DEF IInv, HistoryInv
    <2>5. \E f \in events'[t] : f.to = status'[t]
      BY <1>4, <1>8
    <2>6. ASSUME NEW u \in Tickets \ {t}
          PROVE  /\ IsFiniteSet(events'[u])
                 /\ \A f \in events'[u] : f.at <= now'
                 /\ status'[u] = "absent" => events'[u] = {}
                 /\ status'[u] # "absent" => \E f \in events'[u] : f.to = status'[u]
      <3>1. events'[u] = events[u] /\ status'[u] = status[u] /\ now' = now
        BY <1>5, <1>8
      <3> QED
        BY <3>1 DEF IInv, HistoryInv
    <2> QED
      BY <1>8, <2>2, <2>3, <2>4, <2>5, <2>6 DEF HistoryInv
  <1>10. EventsAreMoves'
    BY <1>4, <1>8 DEF IInv, EventsAreMoves
  <1>11. ClosedIsStamped'
    BY <1>4, <1>8 DEF IInv, ClosedIsStamped
  <1>12. ClosedByCloser'
    BY <1>4, <1>8 DEF IInv, ClosedByCloser
  <1> QED
    BY <1>6, <1>7, <1>9, <1>10, <1>11, <1>12 DEF IInv

LEMMA InitInv == Init => IInv
  <1> SUFFICES ASSUME Init PROVE IInv
    OBVIOUS
  <1>1. TypeOK
    BY MaxTimeAssumption DEF Init, TypeOK
  <1>2. HistoryInv
    BY FS_EmptySet DEF Init, HistoryInv
  <1>3. "absent" \notin ClosedStates
    BY TableTypes
  <1> QED
    BY <1>1, <1>2, <1>3
    DEF Init, IInv, RequestInv, EventsAreMoves, ClosedIsStamped, ClosedByCloser, Idle

LEMMA CreateStep ==
  ASSUME IInv, NEW t \in Tickets, NEW user \in Users \cup {None}, Create(t, user)
  PROVE  IInv'
  <1>1. PICK e : e = [from |-> "absent", to |-> "new", by |-> user, at |-> now + 1]
    OBVIOUS
  <1>2. now \in Nat /\ now < MaxTime /\ now' = now + 1 /\ now' \in 0 .. MaxTime
    BY MaxTimeAssumption DEF IInv, TypeOK, Create, ReadClock
  <1>3. /\ e \in Event /\ e.from = "absent" /\ e.to = "new" /\ e.at = now'
        /\ "new" \in Statuses \ ClosedStates
    BY <1>1, <1>2, TableTypes DEF Event
  <1>4. events[t] = {} /\ status[t] = "absent"
    BY DEF Create, IInv, HistoryInv
  <1>5. /\ events' = [events EXCEPT ![t] = {e}]
        /\ status' = [status EXCEPT ![t] = "new"]
        /\ version' = [version EXCEPT ![t] = 1]
        /\ UNCHANGED <<assignee, closedAt, stale, request>>
    BY <1>1, <1>2, <1>4 DEF Create, IInv, TypeOK
  <1>6. /\ events'[t] = {e} /\ status'[t] = "new"
        /\ \A u \in Tickets \ {t} : events'[u] = events[u] /\ status'[u] = status[u]
    BY <1>5 DEF IInv, TypeOK
  <1>7. TypeOK'
    <2>1. events' \in [Tickets -> SUBSET Event]
      BY <1>3, <1>5 DEF IInv, TypeOK
    <2> QED
      BY <1>2, <1>3, <1>5, <2>1 DEF IInv, TypeOK
  <1>8. RequestInv'
    <2> SUFFICES ASSUME NEW q \in Requests, request[q].op # "idle"
                 PROVE  request[q].at <= now'
      BY <1>5 DEF IInv, RequestInv
    <2>1. request[q].at \in Nat /\ request[q].at <= now
      BY DEF IInv, TypeOK, RequestInv, Idle, Loaded
    <2> QED
      BY <1>2, <2>1
  <1>9. HistoryInv'
    <2>1. IsFiniteSet({e})
      BY FS_Singleton
    <2>2. \A u \in Tickets : \A f \in events[u] : f.at \in Nat /\ f.at <= now
      BY DEF IInv, TypeOK, HistoryInv, Event
    <2>3. \A u \in Tickets : \A f \in events'[u] : f.at <= now'
      BY <1>2, <1>3, <1>6, <2>2
    <2> QED
      BY <1>3, <1>6, <2>1, <2>3, TableTypes DEF IInv, HistoryInv
  <1>10. EventsAreMoves'
    BY <1>3, <1>6 DEF IInv, EventsAreMoves
  <1>11. ClosedIsStamped'
    BY <1>3, <1>5, <1>6 DEF IInv, ClosedIsStamped
  <1>12. ClosedByCloser'
    BY <1>3, <1>6 DEF IInv, ClosedByCloser
  <1> QED
    BY <1>7, <1>8, <1>9, <1>10, <1>11, <1>12 DEF IInv

LEMMA LoadStep ==
  ASSUME IInv, NEW q \in Requests, NEW t \in Tickets, NEW user \in Users \cup {None},
         NEW op \in {"transition", "assign", "unassign", "escalate"},
         NEW target \in Statuses \cup Users \cup {None},
         Load(q, t, op, user, target),
         op = "transition" => (target = "closed" => user \in Closers),
         op = "escalate" => target = "escalated",
         op = "assign" => target \in Users
  PROVE  IInv'
  <1> DEFINE r == [op |-> op, ticket |-> t, user |-> user, target |-> target,
                   status |-> status[t], version |-> version[t],
                   assignee |-> assignee[t], at |-> 0]
  <1>1. r \in Loaded
    BY DEF Load, IInv, TypeOK, Loaded
  <1>2. /\ request' = [request EXCEPT ![q] = r]
        /\ UNCHANGED <<columns, events, stale, now>>
    BY DEF Load
  <1>3. TypeOK'
    BY <1>1, <1>2 DEF IInv, TypeOK, columns
  <1>4. /\ r.op = "transition" => (r.target = "closed" => r.user \in Closers)
        /\ r.op = "escalate" => r.target = "escalated"
        /\ r.op = "assign" => r.target \in Users
        /\ r.at = 0 /\ 0 <= now
    BY DEF IInv, TypeOK
  <1>5. RequestInv'
    <2> HIDE DEF r
    <2>1. now' = now /\ \A p \in Requests : request'[p] = IF p = q THEN r ELSE request[p]
      BY <1>2 DEF IInv, TypeOK
    <2> QED
      BY <1>4, <2>1 DEF IInv, RequestInv
  <1> QED
    BY <1>2, <1>3, <1>5, QuietStep DEF columns

\* A request that is not idle is one of the loaded ones.
LEMMA Busy ==
  ASSUME IInv, NEW q \in Requests, request[q].op # "idle"
  PROVE  request[q] \in Loaded
  BY DEF IInv, TypeOK, Idle

\* What the first half of a move does to its request.
LEMMA StampFacts ==
  ASSUME IInv, NEW q \in Requests, Stamp(q)
  PROVE  /\ now \in Nat /\ now' = now + 1 /\ now' \in 0 .. MaxTime
         /\ UNCHANGED <<status, version, assignee, closedAt, events, stale>>
         /\ request[q].op # "idle" /\ request[q] \in Loaded
         /\ request' = [request EXCEPT ![q] = [request[q] EXCEPT !.at = now + 1]]
         /\ Moves(request[q]) /\ MayMove(request[q].status, Goal(request[q]))
  <1>1. request[q].op # "idle"
    BY DEF Stamp, Moves
  <1>2. now \in Nat /\ now' = now + 1 /\ now' \in 0 .. MaxTime
    BY MaxTimeAssumption DEF Stamp, ReadClock, IInv, TypeOK
  <1> QED
    BY <1>1, <1>2, Busy DEF Stamp, columns

LEMMA StampStep ==
  ASSUME IInv, NEW q \in Requests, Stamp(q)
  PROVE  IInv'
  <1>1. PICK r : r = [request[q] EXCEPT !.at = now + 1]
    OBVIOUS
  <1>2. /\ now \in Nat /\ now' = now + 1 /\ now' \in 0 .. MaxTime
        /\ UNCHANGED <<status, version, assignee, closedAt, events, stale>>
        /\ request[q].op # "idle" /\ request[q] \in Loaded
        /\ request' = [request EXCEPT ![q] = r]
        /\ Moves(request[q]) /\ MayMove(request[q].status, Goal(request[q]))
    BY <1>1, StampFacts
  <1>3. /\ r \in Loaded /\ r.op = request[q].op /\ r.user = request[q].user
        /\ r.target = request[q].target /\ r.status = request[q].status
        /\ r.at = now'
    BY <1>1, <1>2 DEF Loaded
  <1>4. TypeOK'
    BY <1>2, <1>3 DEF IInv, TypeOK
  <1>5. Moves(r) /\ MayMove(r.status, Goal(r))
    BY <1>2, <1>3 DEF Moves, MayMove, Goal
  <1>6. RequestInv'
    <2>1. \A p \in Requests : request'[p] = IF p = q THEN r ELSE request[p]
      BY <1>2 DEF IInv, TypeOK
    <2>2. \A p \in Requests : request[p].op # "idle" =>
            request[p].at \in Nat /\ request[p].at <= now'
      BY <1>2, Busy DEF IInv, RequestInv, Loaded
    <2>3. r.at <= now'
      BY <1>2, <1>3
    <2> QED
      BY <1>2, <1>3, <1>5, <2>1, <2>2, <2>3 DEF IInv, RequestInv
  <1> QED
    BY <1>2, <1>4, <1>6, QuietStep

LEMMA StepInv == IInv /\ [Next]_vars => IInv'
  <1> SUFFICES ASSUME IInv, [Next]_vars PROVE IInv'
    OBVIOUS
  <1>1. ASSUME NEW t \in Tickets, NEW u \in Users \cup {None}, Create(t, u)
        PROVE  IInv'
    BY <1>1, CreateStep
  <1>2. ASSUME NEW q \in Requests, LoadTransition(q) PROVE IInv'
    BY <1>2, LoadStep DEF LoadTransition
  <1>3. ASSUME NEW q \in Requests, LoadAssign(q) PROVE IInv'
    BY <1>3, LoadStep DEF LoadAssign
  <1>4. ASSUME NEW q \in Requests, LoadUnassign(q) PROVE IInv'
    BY <1>4, LoadStep DEF LoadUnassign
  <1>5. ASSUME NEW q \in Requests, LoadEscalate(q) PROVE IInv'
    BY <1>5, LoadStep, TableTypes DEF LoadEscalate
  <1>6. ASSUME NEW q \in Requests, Stamp(q) PROVE IInv'
    BY <1>6, StampStep
  <1>7. ASSUME NEW q \in Requests, Transition(q) PROVE IInv'
    <2>1. request[q].op # "idle"
      BY <1>7 DEF Transition
    <2>2. request[q].assignee \in Users \cup {None}
      BY <2>1, Busy DEF Loaded
    <2> QED
      BY <1>7, <2>1, <2>2, MoveStep DEF Transition
  <1>8. ASSUME NEW q \in Requests, AssignNew(q) PROVE IInv'
    <2>1. request[q].op # "idle" /\ request[q].target \in Users \cup {None}
      BY <1>8 DEF AssignNew, IInv, RequestInv
    <2> QED
      BY <1>8, <2>1, MoveStep DEF AssignNew
  <1>9. ASSUME NEW q \in Requests,
               \/ TransitionRefused(q) \/ AssignOther(q) \/ Unassign(q) \/ Abort(q)
        PROVE  IInv'
    <2>1. UNCHANGED <<status, version, closedAt, events, stale, now>> /\ Finish(q)
      BY <1>9 DEF TransitionRefused, AssignOther, Unassign, Abort, columns
    <2>2. assignee' \in [Tickets -> Users \cup {None}]
      <3>1. CASE AssignOther(q)
        <4>1. request[q].target \in Users
          BY <3>1 DEF AssignOther, IInv, RequestInv
        <4> QED
          BY <3>1, <4>1 DEF AssignOther, SetAssignee, IInv, TypeOK
      <3>2. CASE Unassign(q)
        BY <3>2 DEF Unassign, SetAssignee, IInv, TypeOK
      <3>3. CASE TransitionRefused(q) \/ Abort(q)
        BY <3>3 DEF TransitionRefused, Abort, columns, IInv, TypeOK
      <3> QED
        BY <1>9, <3>1, <3>2, <3>3
    <2>3. TypeOK'
      BY <2>1, <2>2 DEF Finish, IInv, TypeOK
    <2>4. RequestInv'
      BY <2>1 DEF Finish, IInv, RequestInv, TypeOK, Idle
    <2> QED
      BY <2>1, <2>3, <2>4, QuietStep
  <1>10. CASE UNCHANGED vars
    BY <1>10 DEF vars, IInv, TypeOK, RequestInv, HistoryInv, EventsAreMoves,
       ClosedIsStamped, ClosedByCloser
  <1> QED
    BY <1>1, <1>2, <1>3, <1>4, <1>5, <1>6, <1>7, <1>8, <1>9, <1>10 DEF Next, Handle

LEMMA Invariance == Spec => []IInv
  BY InitInv, StepInv, PTL DEF Spec

(* The columns, events and loaded requests keep their types.                *)
THEOREM TypeCorrect == Spec => []TypeOK
  BY Invariance, PTL DEF IInv

(* However many requests race, a closed ticket is stamped and was closed by *)
(* a holder of TICKETS_CLOSE.                                               *)
THEOREM ClosingIsControlled == Spec => [](ClosedIsStamped /\ ClosedByCloser)
  BY Invariance, PTL DEF IInv

-----------------------------------------------------------------------------
\* Tickets that no request has written from an older version.

\* A loaded ticket exists, and its version tells whether it is still as it was
\* loaded; if it is, it has no event from after the time of the request's own.
StillAsLoaded(r) ==
  /\ status[r.ticket] # "absent"
  /\ r.ticket \notin stale =>
       /\ r.version <= version[r.ticket]
       /\ r.version = version[r.ticket] =>
            /\ r.status = status[r.ticket]
            /\ r.at # 0 => \A e \in events[r.ticket] : e.at < r.at

VersionInv ==
  \A q \in Requests : request[q].op # "idle" => StillAsLoaded(request[q])

NewestInv ==
  \A t \in Tickets \ stale :
    \A e \in events[t] : IsNewest(e, events[t]) => e.to = status[t]

FreshInv == VersionInv /\ NewestInv /\ HistoryReplays /\ OnlyClosedIsStamped

LEMMA FreshInit == Init => FreshInv
  <1>1. Cardinality({}) = 0
    BY FS_EmptySet
  <1> QED
    BY <1>1
    DEF Init, FreshInv, VersionInv, NewestInv, HistoryReplays, OnlyClosedIsStamped, Idle

(* An event later than a history is its only newest one, and it follows the *)
(* one that was newest before.                                              *)
LEMMA LateEvent ==
  ASSUME NEW history \in SUBSET Event, NEW e \in Event,
         \A f \in history : f.at < e.at
  PROVE  /\ e \notin history
         /\ \A x \in history \cup {e} : IsNewest(x, history \cup {e}) => x = e
         /\ \A x, f \in history \cup {e} :
              Follows(f, x, history \cup {e}) =>
                /\ x \in history
                /\ \/ f = e /\ IsNewest(x, history)
                   \/ f \in history /\ Follows(f, x, history)
  <1>1. e.at \in Nat /\ \A f \in history : f.at \in Nat
    BY DEF Event
  <1>2. e \notin history
    BY <1>1
  <1>3. ASSUME NEW x \in history \cup {e}, IsNewest(x, history \cup {e})
        PROVE  x = e
    BY <1>1, <1>3 DEF IsNewest
  <1>4. ASSUME NEW x \in history \cup {e}, NEW f \in history \cup {e},
               Follows(f, x, history \cup {e})
        PROVE  /\ x \in history
               /\ \/ f = e /\ IsNewest(x, history)
                  \/ f \in history /\ Follows(f, x, history)
    <2>1. x \in history
      BY <1>1, <1>4 DEF Follows
    <2>2. CASE f = e
      BY <1>1, <1>4, <2>1, <2>2 DEF Follows, IsNewest
    <2>3. CASE f \in history
      BY <1>4, <2>1, <2>3 DEF Follows
    <2> QED
      BY <2>1, <2>2, <2>3
  <1> QED
    BY <1>2, <1>3, <1>4

LEMMA FreshCreate ==
  ASSUME IInv, FreshInv, NEW t \in Tickets, NEW user \in Users \cup {None},
         Create(t, user)
  PROVE  FreshInv'
  <1>1. PICK e : e = [from |-> "absent", to |-> "new", by |-> user, at |-> now']
    OBVIOUS
  <1>2. events[t] = {} /\ status[t] = "absent"
    BY DEF Create, IInv, HistoryInv
  <1>3. now' \in Nat
    BY MaxTimeAssumption DEF Create, ReadClock, IInv, TypeOK
  <1>4. e.at \in Nat /\ e.to = "new"
    BY <1>1, <1>3
  <1>5. /\ events'[t] = {e} /\ status'[t] = "new" /\ version'[t] = 1
        /\ UNCHANGED <<assignee, closedAt, stale, request>>
    BY <1>1, <1>2 DEF Create, IInv, TypeOK
  <1>6. \A u \in Tickets \ {t} : /\ events'[u] = events[u] /\ status'[u] = status[u]
                                 /\ version'[u] = version[u]
    BY DEF Create, IInv, TypeOK
  <1>7. VersionInv'
    <2>1. \A q \in Requests :
            request[q].op # "idle" => request[q].ticket \in Tickets \ {t}
      BY <1>2, Busy DEF Loaded, FreshInv, VersionInv, StillAsLoaded
    <2> QED
      BY <1>5, <1>6, <2>1 DEF VersionInv, StillAsLoaded, FreshInv
  <1>8. NewestInv'
    BY <1>4, <1>5, <1>6 DEF FreshInv, NewestInv, IsNewest
  <1>9. HistoryReplays'
    <2>1. Cardinality({e}) = 1
      BY FS_Singleton
    <2>2. \A x, f \in {e} : ~Follows(f, x, {e})
      BY <1>4 DEF Follows
    <2>3. /\ version'[t] = Cardinality(events'[t])
          /\ \A x, f \in events'[t] : Follows(f, x, events'[t]) => f.from = x.to
      BY <1>5, <2>1, <2>2
    <2>4. ASSUME NEW u \in Tickets \ stale', u # t
          PROVE  /\ version'[u] = Cardinality(events'[u])
                 /\ \A x, f \in events'[u] : Follows(f, x, events'[u]) => f.from = x.to
      <3>1. /\ u \in Tickets \ stale
            /\ events'[u] = events[u] /\ version'[u] = version[u]
        BY <1>5, <1>6, <2>4
      <3> QED
        BY <3>1 DEF FreshInv, HistoryReplays
    <2> QED
      BY <2>3, <2>4 DEF HistoryReplays
  <1>10. OnlyClosedIsStamped'
    <2>1. ~closedAt[t] \/ t \in stale
      BY <1>2, TableTypes DEF FreshInv, OnlyClosedIsStamped
    <2> QED
      BY <1>5, <1>6, <2>1 DEF FreshInv, OnlyClosedIsStamped
  <1> QED
    BY <1>7, <1>8, <1>9, <1>10 DEF FreshInv

\* Steps that leave the tickets alone.
LEMMA FreshRequest ==
  ASSUME IInv, FreshInv, UNCHANGED <<status, version, closedAt, events, stale>>,
         NEW q \in Requests, NEW r, request' = [request EXCEPT ![q] = r],
         r.op # "idle" => StillAsLoaded(r)
  PROVE  FreshInv'
  <1>1. \A p \in Requests : request'[p] = IF p = q THEN r ELSE request[p]
    BY DEF IInv, TypeOK
  <1>2. VersionInv'
    BY <1>1 DEF FreshInv, VersionInv, StillAsLoaded
  <1>3. NewestInv' /\ HistoryReplays' /\ OnlyClosedIsStamped'
    BY DEF FreshInv, NewestInv, HistoryReplays, OnlyClosedIsStamped
  <1> QED
    BY <1>2, <1>3 DEF FreshInv

LEMMA FreshLoad ==
  ASSUME IInv, FreshInv, NEW q \in Requests, NEW t \in Tickets,
         NEW op, NEW user, NEW target, Load(q, t, op, user, target)
  PROVE  FreshInv'
  <1> DEFINE r == [op |-> op, ticket |-> t, user |-> user, target |-> target,
                   status |-> status[t], version |-> version[t],
                   assignee |-> assignee[t], at |-> 0]
  <1>1. /\ UNCHANGED <<status, version, closedAt, events, stale>>
        /\ request' = [request EXCEPT ![q] = r]
        /\ status[t] # "absent"
    BY DEF Load, columns
  <1>2. StillAsLoaded(r)
    BY <1>1 DEF StillAsLoaded, IInv, TypeOK
  <1> HIDE DEF r
  <1> QED
    BY <1>1, <1>2, FreshRequest

\* The clock is past every event of the ticket.
LEMMA FreshStamp ==
  ASSUME IInv, FreshInv, NEW q \in Requests, Stamp(q)
  PROVE  FreshInv'
  <1>1. PICK r : r = [request[q] EXCEPT !.at = now + 1]
    OBVIOUS
  <1>2. /\ now \in Nat /\ request[q].op # "idle" /\ request[q] \in Loaded
        /\ UNCHANGED <<status, version, closedAt, events, stale>>
        /\ request' = [request EXCEPT ![q] = r]
    BY <1>1, StampFacts
  <1>3. /\ r.ticket = request[q].ticket /\ r.version = request[q].version
        /\ r.status = request[q].status /\ r.at = now + 1 /\ r.ticket \in Tickets
    BY <1>1, <1>2 DEF Loaded
  <1>4. \A e \in events[r.ticket] : e.at < r.at
    <2>1. \A e \in events[r.ticket] : e.at \in Nat /\ e.at <= now
      BY <1>3 DEF IInv, TypeOK, HistoryInv, Event
    <2> QED
      BY <1>2, <1>3, <2>1
  <1>5. StillAsLoaded(r)
    BY <1>2, <1>3, <1>4 DEF FreshInv, VersionInv, StillAsLoaded
  <1> QED
    BY <1>2, <1>5, FreshRequest

\* The move of a ticket, seen from the requests that keep it loaded.
LEMMA FreshMove ==
  ASSUME IInv, FreshInv, NEW q \in Requests, NEW owner \in Users \cup {None},
         request[q].op # "idle", WriteTransition(q, owner), Finish(q)
  PROVE  FreshInv'
  <1>1. PICK r : r = request[q]
    OBVIOUS
  <1>2. PICK t, to : t = r.ticket /\ to = Goal(r)
    OBVIOUS
  <1>3. PICK e : e = [from |-> r.status, to |-> to, by |-> r.user, at |-> r.at]
    OBVIOUS
  <1>4. /\ r \in Loaded /\ t \in Tickets /\ to \in Transitions[r.status]
        /\ to \in Statuses /\ to # "absent" /\ e \in Event
        /\ e.from = r.status /\ e.to = to /\ e.at = r.at /\ r.at # 0
        /\ r.version \in Nat /\ r.status \in Statuses
    BY <1>1, <1>2, <1>3, MoveFacts, TableTypes DEF Loaded
  <1>5. /\ status' = [status EXCEPT ![t] = to]
        /\ version' = [version EXCEPT ![t] = r.version + 1]
        /\ events' = [events EXCEPT ![t] = events[t] \cup {e}]
        /\ closedAt' = [closedAt EXCEPT ![t] = closedAt[t] \/ to \in ClosedStates]
        /\ stale' = IF r.version = version[t] THEN stale ELSE stale \cup {t}
        /\ request' = [request EXCEPT ![q] = Idle]
    BY <1>1, <1>2, <1>3 DEF WriteTransition, Stamped, Finish
  <1>6. /\ \A u \in Tickets \ {t} :
             /\ status'[u] = status[u] /\ version'[u] = version[u]
             /\ events'[u] = events[u] /\ closedAt'[u] = closedAt[u]
             /\ u \in stale' <=> u \in stale
        /\ status'[t] = to /\ version'[t] = r.version + 1
        /\ events'[t] = events[t] \cup {e}
        /\ closedAt'[t] = (closedAt[t] \/ to \in ClosedStates)
        /\ \A p \in Requests : request'[p] = IF p = q THEN Idle ELSE request[p]
        /\ version \in [Tickets -> Nat] /\ events[t] \in SUBSET Event
    BY <1>4, <1>5 DEF IInv, TypeOK
  <1>7. t \notin stale' =>
          /\ t \notin stale /\ r.version = version[t] /\ r.status = status[t]
          /\ \A f \in events[t] : f.at < e.at
    BY <1>1, <1>2, <1>4, <1>5 DEF FreshInv, VersionInv, StillAsLoaded
  <1>8. t \notin stale' =>
          /\ e \notin events[t]
          /\ \A x \in events'[t] : IsNewest(x, events'[t]) => x = e
          /\ \A x, f \in events'[t] :
               Follows(f, x, events'[t]) =>
                 /\ x \in events[t]
                 /\ \/ f = e /\ IsNewest(x, events[t])
                    \/ f \in events[t] /\ Follows(f, x, events[t])
    <2>1. CASE t \notin stale'
      <3>1. events[t] \in SUBSET Event /\ e \in Event /\ \A f \in events[t] : f.at < e.at
        BY <1>4, <1>6, <1>7, <2>1
      <3>2. /\ e \notin events[t]
            /\ \A x \in events[t] \cup {e} : IsNewest(x, events[t] \cup {e}) => x = e
            /\ \A x, f \in events[t] \cup {e} :
                 Follows(f, x, events[t] \cup {e}) =>
                   /\ x \in events[t]
                   /\ \/ f = e /\ IsNewest(x, events[t])
                      \/ f \in events[t] /\ Follows(f, x, events[t])
        BY <3>1, LateEvent
      <3> QED
        BY <1>6, <3>2
    <2> QED
      BY <2>1
  <1>9. VersionInv'
    <2> SUFFICES ASSUME NEW p \in Requests, request'[p].op # "idle"
                 PROVE  StillAsLoaded(request[p])'
      BY DEF VersionInv
    <2>1. request'[p] = request[p] /\ StillAsLoaded(request[p]) /\ request[p] \in Loaded
      BY <1>6, Busy DEF Idle, FreshInv, VersionInv
    <2>2. CASE request[p].ticket = t
      <3>1. t \notin stale' => request[p].version < version'[t]
        BY <1>4, <1>6, <1>7, <2>1, <2>2 DEF StillAsLoaded, Loaded
      <3> QED
        BY <1>4, <1>6, <2>1, <2>2, <3>1 DEF StillAsLoaded, Loaded
    <2>3. CASE request[p].ticket # t
      BY <1>6, <2>1, <2>3 DEF StillAsLoaded, Loaded
    <2> QED
      BY <2>2, <2>3
  <1>10. NewestInv'
    BY <1>4, <1>6, <1>8 DEF FreshInv, NewestInv
  <1>11. HistoryReplays'
    <2>1. ASSUME t \notin stale'
          PROVE  /\ version'[t] = Cardinality(events'[t])
                 /\ \A x, f \in events'[t] : Follows(f, x, events'[t]) => f.from = x.to
      <3>1. /\ version[t] = Cardinality(events[t])
            /\ \A x, f \in events[t] : Follows(f, x, events[t]) => f.from = x.to
            /\ \A x \in events[t] : IsNewest(x, events[t]) => x.to = status[t]
        BY <1>4, <1>7, <2>1 DEF FreshInv, HistoryReplays, NewestInv
      <3>2. Cardinality(events'[t]) = Cardinality(events[t]) + 1
        <4>1. IsFiniteSet(events[t]) /\ e \notin events[t]
          BY <1>4, <1>8, <2>1 DEF IInv, HistoryInv
        <4>2. Cardinality(events[t] \cup {e}) = Cardinality(events[t]) + 1
          BY <4>1, FS_AddElement
        <4> QED
          BY <1>6, <4>2
      <3> QED
        BY <1>4, <1>6, <1>7, <1>8, <2>1, <3>1, <3>2
    <2>2. ASSUME NEW u \in Tickets \ stale', u # t
          PROVE  /\ version'[u] = Cardinality(events'[u])
                 /\ \A x, f \in events'[u] : Follows(f, x, events'[u]) => f.from = x.to
      <3>1. /\ u \in Tickets \ stale
            /\ events'[u] = events[u] /\ version'[u] = version[u]
        BY <1>6, <2>2
      <3> QED
        BY <3>1 DEF FreshInv, HistoryReplays
    <2> QED
      BY <2>1, <2>2 DEF HistoryReplays
  <1>12. OnlyClosedIsStamped'
    <2>1. ASSUME t \notin stale', closedAt'[t]
          PROVE  to \in ClosedStates
      <3>1. status[t] \notin ClosedStates
        BY <1>4, <1>7, <2>1, ClosedIsFinal
      <3> QED
        BY <1>4, <1>6, <1>7, <2>1, <3>1 DEF FreshInv, OnlyClosedIsStamped
    <2> QED
      BY <1>6, <2>1 DEF FreshInv, OnlyClosedIsStamped
  <1> QED
    BY <1>9, <1>10, <1>11, <1>12 DEF FreshInv

LEMMA FreshStep == IInv /\ FreshInv /\ [Next]_vars => FreshInv'
  <1> SUFFICES ASSUME IInv, FreshInv, [Next]_vars PROVE FreshInv'
    OBVIOUS
  <1>1. ASSUME NEW t \in Tickets, NEW u \in Users \cup {None}, Create(t, u)
        PROVE  FreshInv'
    BY <1>1, FreshCreate
  <1>2. ASSUME NEW q \in Requests,
               LoadTransition(q) \/ LoadAssign(q) \/ LoadUnassign(q) \/ LoadEscalate(q)
        PROVE  FreshInv'
    BY <1>2, FreshLoad DEF LoadTransition, LoadAssign, LoadUnassign, LoadEscalate
  <1>3. ASSUME NEW q \in Requests, Stamp(q) PROVE FreshInv'
    BY <1>3, FreshStamp
  <1>4. ASSUME NEW q \in Requests, Transition(q) \/ AssignNew(q)
        PROVE  FreshInv'
    <2>1. request[q].op # "idle"
      BY <1>4 DEF Transition, AssignNew
    <2>2. /\ request[q].assignee \in Users \cup {None}
          /\ request[q].op = "assign" => request[q].target \in Users
      BY <2>1, Busy DEF Loaded, IInv, RequestInv
    <2> QED
      BY <1>4, <2>1, <2>2, FreshMove DEF Transition, AssignNew
  <1>5. ASSUME NEW q \in Requests,
               TransitionRefused(q) \/ AssignOther(q) \/ Unassign(q) \/ Abort(q)
        PROVE  FreshInv'
    <2>1. /\ UNCHANGED <<status, version, closedAt, events, stale>>
          /\ request' = [request EXCEPT ![q] = Idle]
      BY <1>5 DEF TransitionRefused, AssignOther, Unassign, Abort, columns, Finish
    <2>2. Idle.op = "idle"
      BY DEF Idle
    <2> QED
      BY <2>1, <2>2, FreshRequest
  <1>6. CASE UNCHANGED vars
    BY <1>6 DEF vars, FreshInv, VersionInv, StillAsLoaded, NewestInv, HistoryReplays,
       OnlyClosedIsStamped
  <1> QED
    BY <1>1, <1>2, <1>3, <1>4, <1>5, <1>6 DEF Next, Handle

(* However many requests race, each event is a move of the table and a      *)
(* ticket is where one of its events moved it: the newest of them, also in  *)
(* the order of the times taken before the lock, unless a request has       *)
(* written the ticket from an older version.                                *)
THEOREM HistoryMatchesTicket == Spec => [](StatusIsLastEvent /\ EventsAreMoves)
  <1>1. IInv /\ FreshInv => StatusIsLastEvent /\ EventsAreMoves
    BY DEF IInv, HistoryInv, FreshInv, NewestInv, StatusIsLastEvent
  <1> QED
    BY <1>1, Invariance, FreshInit, FreshStep, PTL DEF Spec

(* However many requests race, a ticket that none of them has written from  *)
(* an older version has a history without gaps that its version counts, and *)
(* carries a closing time only when it is closed.                           *)
THEOREM FreshTicketsReplay == Spec => [](HistoryReplays /\ OnlyClosedIsStamped)
  BY Invariance, FreshInit, FreshStep, PTL DEF Spec, FreshInv

LEMMA LifecycleStep ==
  ASSUME IInv, FreshInv, [Next]_vars
  PROVE  [\E t \in Tickets : Lifecycle!Move(t) \/ Lifecycle!Overwrite(t)]_<<status, stale>>
  <1>1. ASSUME NEW t \in Tickets, NEW u \in Users \cup {None}, Create(t, u)
        PROVE  Lifecycle!Move(t)
    BY <1>1 DEF Create, Lifecycle!Move
  <1>2. ASSUME NEW q \in Requests, NEW owner \in Users \cup {None},
               request[q].op # "idle", WriteTransition(q, owner), Finish(q)
        PROVE  \E t \in Tickets : Lifecycle!Move(t) \/ Lifecycle!Overwrite(t)
    <2> DEFINE t == request[q].ticket
    <2>0. PICK to : to = Goal(request[q])
      OBVIOUS
    <2>1. /\ t \in Tickets /\ request[q].status \in Statuses
          /\ to \in Transitions[request[q].status] /\ to \in Statuses
          /\ status[t] # "absent"
      <3>1. to \in Transitions[request[q].status]
        BY <1>2, <2>0 DEF WriteTransition, IInv, RequestInv, MayMove
      <3> QED
        BY <1>2, <3>1, Busy, TableTypes DEF Loaded, FreshInv, VersionInv, StillAsLoaded
    <2>2. /\ status' = [status EXCEPT ![t] = to]
          /\ stale' = IF request[q].version = version[t] THEN stale ELSE stale \cup {t}
      BY <1>2, <2>0 DEF WriteTransition
    <2>3. CASE t \in stale \/ request[q].version # version[t]
      <3>1. Lifecycle!Overwrite(t)
        BY <2>1, <2>2, <2>3 DEF Lifecycle!Overwrite, Statuses
      <3> QED
        BY <2>1, <3>1
    <2>4. CASE t \notin stale /\ request[q].version = version[t]
      <3>1. request[q].status = status[t]
        BY <1>2, <2>4 DEF FreshInv, VersionInv, StillAsLoaded
      <3>2. Lifecycle!Move(t)
        BY <2>1, <2>2, <2>4, <3>1 DEF Lifecycle!Move, Statuses, Transitions
      <3> QED
        BY <2>1, <3>2
    <2> QED
      BY <2>3, <2>4
  <1>3. ASSUME NEW q \in Requests, Transition(q) \/ AssignNew(q)
        PROVE  \E t \in Tickets : Lifecycle!Move(t) \/ Lifecycle!Overwrite(t)
    <2>1. request[q].op # "idle"
      BY <1>3 DEF Transition, AssignNew
    <2>2. /\ request[q].assignee \in Users \cup {None}
          /\ request[q].op = "assign" => request[q].target \in Users
      BY <2>1, Busy DEF Loaded, IInv, RequestInv
    <2> QED
      BY <1>2, <1>3, <2>1, <2>2 DEF Transition, AssignNew
  <1>4. ASSUME NEW q \in Requests,
               \/ LoadTransition(q) \/ LoadAssign(q) \/ LoadUnassign(q)
               \/ LoadEscalate(q) \/ Stamp(q) \/ TransitionRefused(q)
               \/ AssignOther(q) \/ Unassign(q) \/ Abort(q)
        PROVE  UNCHANGED <<status, stale>>
    BY <1>4 DEF LoadTransition, LoadAssign, LoadUnassign, LoadEscalate, Load,
       Stamp, TransitionRefused, AssignOther, Unassign, Abort, columns
  <1>5. CASE UNCHANGED vars
    BY <1>5 DEF vars
  <1> QED
    BY <1>1, <1>3, <1>4, <1>5 DEF Next, Handle

(* However many requests race, every ticket is created NEW and moves along  *)
(* the transition table until, if ever, a request writes it from an older   *)
(* version.                                                                 *)
THEOREM TicketsImplementLifecycle == Spec => ImplementsLifecycle
  <1>1. Init => Lifecycle!LifecycleInit
    BY DEF Init, Lifecycle!LifecycleInit
  <1>2. IInv /\ FreshInv /\ [Next]_vars =>
          [\E t \in Tickets : Lifecycle!Move(t) \/ Lifecycle!Overwrite(t)]_<<status, stale>>
    BY LifecycleStep
  <1> QED
    BY Invariance, FreshInit, FreshStep, <1>1, <1>2, PTL
    DEF Spec, ImplementsLifecycle, Lifecycle!LifecycleSpec
=============================================================================
