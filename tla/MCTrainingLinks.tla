-------------------------- MODULE MCTrainingLinks --------------------------
(***************************************************************************)
(* Two workers who need one course, one by role and one by line; a link    *)
(* lives a day and a certificate two, the second of which is its lead.     *)
(***************************************************************************)
EXTENDS TrainingLinks, TLC

CONSTANTS t1, t2, c1, r1, r2, l1, l2

MCRole == (t1 :> r1) @@ (t2 :> r2)
MCLine == (t1 :> l1) @@ (t2 :> l2)
MCAssignments == {[course |-> c1, role |-> r1, line |-> AnyValue],
                  [course |-> c1, role |-> AnyValue, line |-> l2]}
=============================================================================
