-------------------------- MODULE MCTriggerEngine --------------------------
(* Model checking of TriggerEngine: "oven" has a duration, "trial" is a dry *)
(* run, "door" fires at once; "humid" readings carry another metric.        *)
EXTENDS TriggerEngine, TLC

MCScopesOf == [oven |-> Scopes, trial |-> {"B"}, door |-> {"A"}]
MCMeasures == [oven |-> {"hot", "normal"}, trial |-> {"humid"}, door |-> {"humid"}]
MCBreaches == [oven |-> {"hot"}, trial |-> {"humid"}, door |-> {"humid"}]
MCDuration == [oven |-> 1, trial |-> 0, door |-> 0]
MCResponders == [oven |-> {"sms"}, trial |-> {"email"}, door |-> {"ticket", "email"}]

Symmetry == Permutations(Evaluators)
=============================================================================
