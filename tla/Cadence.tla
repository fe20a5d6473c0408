------------------------------- MODULE Cadence -------------------------------
(* What executeRun and the worker's loop count by: a tenant's schedules, and *)
(* time in units of FAILURE_BACKOFF_MS (one hour).                           *)
EXTENDS Integers, FiniteSets

CONSTANTS
  Schedules,    \* payroll schedules of one tenant
  Period        \* hours between two occurrences of a recurring schedule

Backoff == 1    \* FAILURE_BACKOFF_MS

ASSUME CadenceAssumption ==
  /\ Schedules # {} /\ IsFiniteSet(Schedules)
  /\ Period \in Nat \ {0}
=============================================================================
