----------------------------- MODULE MCTickets -----------------------------
(* Model checking of Tickets.                                               *)
EXTENDS Tickets, TLC

Symmetry == Permutations(Requests)
=============================================================================
