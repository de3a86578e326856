----------------------------- MODULE MCSchedules -----------------------------
(* Small instances of Schedules for TLC. *)
EXTENDS Schedules, TLC

\* Entry ids and request threads are interchangeable.
IdSymmetry == Permutations(Ids) \cup Permutations(Handlers)
==============================================================================
