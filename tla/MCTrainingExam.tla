--------------------------- MODULE MCTrainingExam ---------------------------
(* Two overlapping requests of the trainee and two authors, interchangeable.*)
EXTENDS TrainingExam, TLC

Symmetry == Permutations(Requests) \cup Permutations(Authors) \cup Permutations(Questions)
=============================================================================
