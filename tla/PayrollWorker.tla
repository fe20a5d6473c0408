---------------------------- MODULE PayrollWorker ----------------------------
(***************************************************************************)
(* Who calls executeRun, and when: the worker's scheduled-payroll job      *)
(* (apps/worker/src/jobs/scheduledPayroll.ts under scheduler.ts) and users *)
(* who press "run" (POST /payroll/runs), on top of PayrollRuns.            *)
(*                                                                         *)
(* The scheduler never lets a task overlap itself and the job awaits each  *)
(* call before the next, so one worker has at most one call in progress;   *)
(* a worker that restarts forgets the call, which goes on in the API.      *)
(***************************************************************************)
EXTENDS PayrollRuns

CONSTANTS
  UserCalls,    \* the calls of Calls that users make; the rest are the worker's
  Restarts,     \* whether the worker process may restart
  AgentDryRun,  \* AGENT_DRY_RUN
  NoCall

ASSUME WorkerAssumption ==
  /\ UserCalls \subseteq Calls
  /\ Restarts \in BOOLEAN
  /\ AgentDryRun \in BOOLEAN
  /\ NoCall \notin Calls

VARIABLES
  queue,        \* schedules the current tick found due and has yet to trigger
  serving       \* the call the worker is waiting for

workerVars == <<queue, serving>>
allVars == <<vars, workerVars>>

WorkerInit ==
  /\ Init
  /\ queue = <<>>
  /\ serving = NoCall

-----------------------------------------------------------------------------

\* upcomingObligations lists active schedules; the job keeps those whose
\* nextRunAt has passed.
DueMutant == {s \in Schedules : row[s].active}
Due == {s \in Schedules : row[s].active /\ row[s].due <= now}

\* The order upcomingObligations sorts by; equal dates come in any order.
ByDueDate(D) ==
  {q \in [1..Cardinality(D) -> D] :
     \A i, j \in DOMAIN q :
       i < j => q[i] # q[j] /\ row[q[i]].due <= row[q[j]].due}

\* The scheduler starts no tick, and the job no call, while a call is awaited.
WorkerIdleMutant == TRUE
WorkerIdle == serving = NoCall

\* A tick reads the obligations; with nothing due it is over at once.
WorkerTick ==
  /\ WorkerIdle
  /\ queue = <<>>
  /\ Due # {}
  /\ queue' \in ByDueDate(Due)
  /\ UNCHANGED <<vars, serving>>

\* api.executeRun for the next schedule of the list.
TriggerRun ==
  /\ WorkerIdle
  /\ queue # <<>>
  /\ \E c \in Calls \ UserCalls :
       /\ Receive(c, Head(queue), "agent", AgentDryRun)
       /\ serving' = c
  /\ UNCHANGED queue

RunTriggered ==
  /\ serving # NoCall
  /\ pc[serving] = "returned"
  /\ serving' = NoCall
  /\ queue' = Tail(queue)
  /\ UNCHANGED vars

\* The catch block is outside the loop: one failed call ends the tick.
TickFailed ==
  /\ serving # NoCall
  /\ pc[serving] \in {"threw", "crashed"}
  /\ serving' = NoCall
  /\ queue' = <<>>
  /\ UNCHANGED vars

\* A deploy or a crash of the worker.  The first tick after it is immediate.
WorkerRestart ==
  /\ Restarts
  /\ serving # NoCall \/ queue # <<>>
  /\ serving' = NoCall
  /\ queue' = <<>>
  /\ UNCHANGED vars

WorkerStep ==
  WorkerTick \/ TriggerRun \/ RunTriggered \/ TickFailed \/ WorkerRestart

\* A user of the tenant runs a schedule, due or not, active or not.
UserRun ==
  /\ \E c \in UserCalls, s \in Schedules, dry \in BOOLEAN :
       Receive(c, s, "user", dry)
  /\ UNCHANGED workerVars

WorkerNext ==
  /\ \/ WorkerStep
     \/ UserRun
     \/ (SystemStep \/ TenantStep) /\ UNCHANGED workerVars
  /\ UNCHANGED env

WorkerSpec == WorkerInit /\ [][WorkerNext]_allVars

\* The event loop resumes every call whose await has settled, and every await
\* settles: polling and Horizon's submission both have a deadline.  Nothing is
\* assumed of the network, of the worker or of the tenant.
FairWorkerSpec ==
  /\ WorkerSpec
  /\ \A c \in Calls : WF_allVars(CallStep(c) /\ UNCHANGED <<env, workerVars>>)

-----------------------------------------------------------------------------
(* Properties.                                                             *)

\* Two calls that worked on the same payday: the same occurrence of the same
\* schedule.
SamePayday(c1, c2) ==
  /\ c1 # c2
  /\ job[c1].sched = job[c2].sched
  /\ snap[c1].occ = snap[c2].occ

\* No user has moved the date of the call's schedule.  Users may have saved it
\* otherwise: switched it, changed its cadence or whom it pays.
DateKept(c) == job[c].sched \notin redated

\* A payday is paid at most once ("a retried submission is rejected
\* (`AlreadyExecuted`) rather than paying twice", contracts/README.md, line 44).
\* Retries draw a new run id, so neither the contract nor the database tells a
\* second payment from a first.
PaidOncePerPayday ==
  \A c1, c2 \in Calls :
    SamePayday(c1, c2) => ~(payout[c1] = "landed" /\ payout[c2] = "landed")

\* Where a payout can only be confirmed or rejected, and everything after it
\* succeeds, the worker alone pays a payday at most once, however often it
\* retries, as long as no user moves the schedule's date.
ConfirmedPaydaysPaidOnce ==
  \A c1, c2 \in Calls :
    SamePayday(c1, c2) /\ DateKept(c1) /\ Faults \subseteq {"payout_rejected"} =>
      ~(payout[c1] = "landed" /\ payout[c2] = "landed")

\* Unless the API crashes or a database request fails, a payday whose date no user
\* has moved has at most one run that the database calls completed, even where
\* lost confirmations make the worker pay it twice.
CompletedOncePerPayday ==
  \A c1, c2 \in Calls :
    SamePayday(c1, c2) /\ DateKept(c1) /\ Faults \cap {"crash", "db"} = {} =>
      ~(run[c1] = "completed" /\ run[c2] = "completed")

\* Once a call has reported success for a payday, the worker starts nothing more
\* for it, whatever failed before, as long as no user moves the schedule's date.
\* What else users save meanwhile (and the call then writes over) changes nothing.
ServedIsNotRepaid ==
  \A c1, c2 \in Calls :
    /\ SamePayday(c1, c2) /\ DateKept(c1)
    /\ pc[c1] = "returned" /\ ~job[c1].dry
    => pc[c2] \notin Running \ {"schedule"}

\* The worker pays nothing ahead of its date: between the obligations it read and
\* the row executeRun reads again nothing moves the date forward, as long as
\* neither a user's run nor a user's form does.
WorkerPaysWhatIsDue ==
  \A c \in Calls :
    job[c].actor = "agent" /\ payout[c] # "unsent" /\ DateKept(c) =>
      snap[c].due <= now

\* A schedule that a run has just moved to its next occurrence is due a whole
\* number of periods after the first, if no user moves its date.
RhythmKept ==
  [][\A s \in Schedules \ redated' :
       row'[s].occ > row[s].occ /\ ~row'[s].oneOff =>
         row'[s].due = Period * row'[s].occ]_allVars

\* A one-off schedule whose date no user moves is paid at most once.
OneOffNeverRecurs ==
  \A c1, c2 \in Calls :
    /\ c1 # c2
    /\ job[c1].sched = job[c2].sched
    /\ DateKept(c1)
    /\ snap[c1].oneOff /\ snap[c2].oneOff
    => ~(payout[c1] = "landed" /\ payout[c2] = "landed")

\* Every run that started executing ends completed or failed, even if the
\* network never answers: no run stays "executing" unless the API crashes or
\* the database fails.
RunsConclude ==
  \A c \in Calls :
    run[c] = "executing" /\ Faults \cap {"crash", "db"} = {}
      ~> run[c] \in {"completed", "failed"}
=============================================================================
