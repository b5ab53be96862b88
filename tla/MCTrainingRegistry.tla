------------------------ MODULE MCTrainingRegistry ------------------------
\* Two managers, two employee numbers, three phone numbers; who is edited in a
\* form can be given no number, lose the email or leave.
EXTENDS TrainingRegistry, TLC

MCFileRows == [emp: Emps, phone: Phones, email: BOOLEAN, channel: {"email"}, active: {TRUE}]
MCForms == {r \in TraineeRow :
                        \/ r.active /\ r.email /\ r.emp # NoEmp
                        \/ ~r.email /\ r.active /\ r.emp = NoEmp
                        \/ ~r.email /\ ~r.active /\ r.emp # NoEmp /\ r.channel = "sms"}
Symmetry == Permutations(Managers) \cup Permutations(Emps) \cup Permutations(Phones)
===========================================================================
