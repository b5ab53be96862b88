-------------------------- MODULE TicketLifecycle --------------------------
(***************************************************************************)
(* What TICKET_TRANSITIONS promises of every ticket: it is created NEW and *)
(* moves only along the table; CLOSED and REJECTED have no way out.  The   *)
(* promise ends for a ticket once a request overwrites it from an older    *)
(* version.                                                                *)
(***************************************************************************)
CONSTANT Tickets

VARIABLES
  status,
  stale    \* the tickets that were overwritten

Statuses == {"new", "assigned", "in_progress", "awaiting_verification",
             "escalated", "rejected", "closed"}

ClosedStates == {"closed", "rejected"}

Transitions ==
  [new |-> {"assigned", "rejected"},
   assigned |-> {"in_progress", "escalated", "rejected"},
   in_progress |-> {"awaiting_verification", "escalated", "rejected"},
   awaiting_verification |-> {"closed", "in_progress"},
   escalated |-> {"in_progress", "closed", "rejected"},
   rejected |-> {},
   closed |-> {}]

LifecycleInit ==
  /\ status = [t \in Tickets |-> "absent"]
  /\ stale = {}

Move(t) ==
  /\ \/ status[t] = "absent" /\ status' = [status EXCEPT ![t] = "new"]
     \/ /\ status[t] \in Statuses
        /\ \E to \in Transitions[status[t]] : status' = [status EXCEPT ![t] = to]
  /\ UNCHANGED stale

Overwrite(t) ==
  /\ status[t] # "absent"
  /\ \E to \in Statuses : status' = [status EXCEPT ![t] = to]
  /\ stale' = stale \cup {t}

LifecycleSpec ==
  LifecycleInit /\ [][\E t \in Tickets : Move(t) \/ Overwrite(t)]_<<status, stale>>
=============================================================================
