---------------------------- MODULE MCDeviations ----------------------------
(* A control point with both limits, one with one limit on a closed line,   *)
(* and a checklist with a line and one without.                             *)
EXTENDS Deviations, TLC

MCPoints ==
  LET point(kind, min, max, line) ==
        [kind |-> kind, min |-> min, max |-> max, active |-> TRUE, line |-> line]
  IN ("oven" :> point("ccp", -1, 1, "open")) @@
     ("chiller" :> point("ccp", Unlimited, 1, "closed")) @@
     ("hygiene" :> point("checklist", Unlimited, Unlimited, "open")) @@
     ("visitors" :> point("checklist", Unlimited, Unlimited, "none"))

Degrees == -1 .. 2
=============================================================================
