----------------------------- MODULE MCSchedules -----------------------------
(* Instances of Schedules for TLC. *)
EXTENDS Schedules, TLC

\* A recurring schedule and one with a cron expression.  Only a restart tells kinds
\* apart, so a one-off is the recurring one at its last instant.
MCFrequencies == {[kind |-> "calendar", at |-> {2, 4}], [kind |-> "cron", at |-> {3}]}

\* Schedules are interchangeable: no property singles one out.
IdSymmetry == Permutations(Ids)
=============================================================================
