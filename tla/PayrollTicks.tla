---------------------------- MODULE PayrollTicks ----------------------------
(***************************************************************************)
(* The worker's scheduled-payroll loop over the schedules of one tenant    *)
(* (apps/worker/src/jobs/scheduledPayroll.ts), hour after hour.            *)
(*                                                                         *)
(* PayrollWorker has the interleavings inside one run; here a call of      *)
(* executeRun is one step, and the question is what the loop gives each    *)
(* schedule in the long run: a failed call ends the tenant's tick, so the  *)
(* schedules behind it wait for the next poll.                             *)
(*                                                                         *)
(* A call that throws anywhere but after a settlement that failed backs    *)
(* nothing off: its schedule is as due as before and heads the next list.  *)
(*                                                                         *)
(* All schedules here are active and recurring.                            *)
(* A date is kept as the hours from now to it, so the state is finite.     *)
(***************************************************************************)
EXTENDS Cadence, Sequences

CONSTANTS
  Broken,       \* the schedules whose every settlement fails, for want of an employee
  PollsPerHour, \* bound on the polls the model makes in an hour
  MaxLate       \* bound on the lateness the model tells apart, in hours

ASSUME TicksAssumption ==
  /\ Broken \subseteq Schedules
  /\ PollsPerHour \in Nat \ {0}
  /\ MaxLate \in Nat \ {0}

VARIABLES
  due,      \* hours from now to nextRunAt, not below -MaxLate
  list,     \* the due schedules the current tick has yet to trigger
  polls,    \* polls since the hour began
  failures, \* settlements of each schedule that failed since the hour began
  lost,     \* the backoffs of these that the database lost
  thrown    \* history: some call has thrown without backing its schedule off

ticksVars == <<due, list, polls, failures, lost, thrown>>

TicksInit ==
  /\ due \in [Schedules -> -1 .. 1]
  /\ list = <<>>
  /\ polls = 0
  /\ failures = [s \in Schedules |-> 0]
  /\ lost = [s \in Schedules |-> 0]
  /\ thrown = FALSE

Later(x, y) == IF x < y THEN y ELSE x

-----------------------------------------------------------------------------

DueNow == {s \in Schedules : due[s] <= 0}

\* The lists a tick may work through: upcomingObligations sorts by nextRunAt,
\* and the order of equal dates is the database's.
Orders(D) ==
  {q \in [1..Cardinality(D) -> D] : \A i, j \in DOMAIN q : q[i] = q[j] => i = j}
TickOrderMutant(q) == TRUE
TickOrder(q) == \A i, j \in DOMAIN q : i < j => due[q[i]] <= due[q[j]]

\* The row a run leaves whose settlement failed.
DueAfterFailureMutant(s) == [due EXCEPT ![s] = 0]
DueAfterFailure(s) == [due EXCEPT ![s] = Backoff]

\* The row a completed run leaves: one occurrence on from the scheduled date.
DueAfterRun(s) == [due EXCEPT ![s] = @ + Period]

\* A poll reads the obligations and lists what is due.
Poll ==
  /\ list = <<>>
  /\ polls < PollsPerHour
  /\ list' \in {q \in Orders(DueNow) : TickOrder(q)}
  /\ polls' = polls + 1
  /\ UNCHANGED <<due, failures, lost, thrown>>

\* The first schedule of the list is run and moves to its next occurrence.
RunCompletes ==
  /\ list # <<>>
  /\ Head(list) \notin Broken
  /\ due' = DueAfterRun(Head(list))
  /\ list' = Tail(list)
  /\ UNCHANGED <<polls, failures, lost, thrown>>

\* The settlement of the first schedule of the list fails: it is backed off, and
\* the error ends the tick for the schedules behind it.
RunFails ==
  /\ list # <<>>
  /\ Head(list) \in Broken
  /\ due' = DueAfterFailure(Head(list))
  /\ list' = <<>>
  /\ failures' = [failures EXCEPT ![Head(list)] = @ + 1]
  /\ UNCHANGED <<polls, lost, thrown>>

\* The same, and one of the two writes that follow fails: no backoff.
BackoffLost ==
  /\ list # <<>>
  /\ Head(list) \in Broken
  /\ list' = <<>>
  /\ failures' = [failures EXCEPT ![Head(list)] = @ + 1]
  /\ lost' = [lost EXCEPT ![Head(list)] = @ + 1]
  /\ thrown' = TRUE
  /\ UNCHANGED <<due, polls>>

\* The call throws before anything is settled (the schedule is gone, the tenant
\* has no legal context, a request of the database fails) or after a settlement
\* that succeeded (the status or the next date is not written).
RunThrows ==
  /\ list # <<>>
  /\ list' = <<>>
  /\ thrown' = TRUE
  /\ UNCHANGED <<due, polls, failures, lost>>

\* An hour goes by.  AGENT_POLL_INTERVAL_SECONDS is 300 unless configured, so
\* the job has polled at least once, and every call it awaits has a deadline.
Hour ==
  /\ polls > 0
  /\ list = <<>>
  /\ due' = [s \in Schedules |-> Later(due[s] - 1, -MaxLate)]
  /\ polls' = 0
  /\ failures' = [s \in Schedules |-> 0]
  /\ lost' = [s \in Schedules |-> 0]
  /\ UNCHANGED <<list, thrown>>

TicksNext == Poll \/ RunCompletes \/ RunFails \/ BackoffLost \/ RunThrows \/ Hour

\* Timers fire, awaited calls return, one way or another, and time passes.
FairTicksSpec ==
  /\ TicksInit /\ [][TicksNext]_ticksVars
  /\ WF_ticksVars(Poll) /\ WF_ticksVars(RunCompletes)
  /\ WF_ticksVars(RunFails) /\ WF_ticksVars(Hour)

-----------------------------------------------------------------------------
(* Properties.                                                             *)

TicksTypeOK ==
  /\ due \in [Schedules -> -MaxLate .. Later(Period, Backoff)]
  /\ list \in Seq(Schedules)
  /\ polls \in 0 .. PollsPerHour
  /\ failures \in [Schedules -> 0 .. PollsPerHour]
  /\ lost \in [Schedules -> 0 .. PollsPerHour]
  /\ thrown \in BOOLEAN

\* As long as only settlements fail, no schedule falls so far behind that the
\* model stops counting: those that fail, hour after hour, push the others back
\* by a bounded time only.
LatenessBounded == ~thrown => \A s \in Schedules : due[s] > -MaxLate

\* If from some time on only settlements fail, a schedule that can be paid and has
\* come due is paid until it is no longer behind, however far behind the throws
\* before have left it and although every tick that meets a failing schedule stops
\* there.  It rests on the backoff and on the sort by date: a failed schedule goes
\* behind those that are later than it.
HealthySchedulesCatchUp ==
  \A s \in Schedules \ Broken :
    <>[][~RunThrows /\ ~BackoffLost]_ticksVars => (due[s] <= 0 ~> due[s] > 0)

\* However many times an hour the worker polls, a settlement that keeps failing is
\* tried once in it: the retry storm the backoff was written against (lines 16-25).
\* Only a backoff that the database loses allows one more.
NoRetryStorm == \A s \in Schedules : failures[s] <= 1 + lost[s]
=============================================================================
