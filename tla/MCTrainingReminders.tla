------------------------ MODULE MCTrainingReminders ------------------------
\* Two workers, one who wants both channels and one whose email is missing; the
\* link of the first lives one day or three, that of the other two days, the
\* reminders are due after one and two.
EXTENDS TrainingReminders, TLC

CONSTANTS l1, l2

MCTtls == (l1 :> {1, 3}) @@ (l2 :> {2})
MCChannel == (l1 :> "both") @@ (l2 :> "email")
===========================================================================
