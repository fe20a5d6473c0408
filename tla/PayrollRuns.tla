----------------------------- MODULE PayrollRuns -----------------------------
(***************************************************************************)
(* PayrollService.executeRun (apps/api/src/services/payrollService.ts) as  *)
(* it runs in the API: any number of calls, from users and from the agent, *)
(* interleaved at every await, against the schedules and runs of the       *)
(* database, Horizon (the payout transaction) and the payroll contract     *)
(* (the execute_run transaction).                                          *)
(*                                                                         *)
(* One element of Calls is one call of executeRun.  A call draws a fresh   *)
(* randomUUID for its run, so the run id is the call itself.               *)
(***************************************************************************)
EXTENDS Cadence, Sequences

CONSTANTS
  OneOff,       \* the schedules created with the cadence "one_off"
  Employees,    \* employees of the tenant
  Forms,        \* the schedule forms users may save (bounds what they type)
  Calls,        \* calls of executeRun (bounds how many happen)
  Platform,     \* the platform service account, admin of the contract
  NoAdmin,
  Environments, \* the deployments considered: see Environment
  MaxTime       \* bound on the clock

FaultKinds == {"timeout", "payout_rejected", "record_rejected", "db", "crash"}

\* A deployment: STELLAR_NETWORK ("local" behaves as "testnet" does), whether a
\* service secret and the contract's id are configured, whether USDC_ISSUER is,
\* and what may go wrong.
Environment ==
  [network : {"testnet", "mainnet"}, live : BOOLEAN, issuer : BOOLEAN,
   faults : SUBSET FaultKinds]

\* What scheduleSchema accepts of a form: a date, a cadence, at least one
\* employee, and the switch.
Form == [due : Nat, active : BOOLEAN, oneOff : BOOLEAN,
         employees : SUBSET Employees \ {{}}]

ASSUME PayrollAssumption ==
  /\ OneOff \subseteq Schedules
  /\ Employees # {}
  /\ Forms \subseteq Form
  /\ NoAdmin # Platform
  /\ Environments \subseteq Environment
  \* assertMainnetHasNoHotKey at boot
  /\ \A e \in Environments : e.network = "mainnet" => ~e.live
  /\ MaxTime \in Nat

VARIABLES
  env,          \* the deployment, read from the environment at boot
  now,          \* the wall clock
  row,          \* payroll_schedules: one row per schedule
  staff,        \* payroll_employees: how each is paid
  published,    \* the tenant has a legal context
  redated,      \* history: the schedules whose date a user has moved
  run,          \* payroll_runs.status per run id, "none" before the insert
  pc,           \* where each call is
  job,          \* what each call was asked to do
  snap,         \* the schedule row each call read
  payees,       \* the kinds of lines each call has to settle
  payout,       \* the payout transaction of each call
  record,       \* the execute_run transaction of each call
  admin, operators, executed, events    \* the payroll contract

contractVars == <<admin, operators, executed, events>>
dbVars == <<row, staff, published, redated, run>>
callVars == <<pc, job, snap, payees>>
vars == <<env, now, dbVars, callVars, payout, record, contractVars>>

Network == env.network
Live == env.live
Issuer == env.issuer
Faults == env.faults

\* A schedule row: when it runs next, whether it is active, whether it recurs and
\* whom it pays.  `occ` numbers the occurrence that nextRunAt stands for; the code
\* keeps no such number, it is here to say which payday a payment was for.
\* Of a one-off schedule that has run it numbers an occurrence there is none of.
Row == [due : Nat, active : BOOLEAN, oneOff : BOOLEAN,
        employees : SUBSET Employees, occ : Nat]

\* How an employee is paid: not at all (deleted or inactive), through a bank
\* reference, or to a Stellar wallet.
Staff == {"absent", "bank", "wallet"}

\* The kinds of lines buildRunLines derives.
Lines == SUBSET (Staff \ {"absent"})

Job == [sched : Schedules, actor : {"user", "agent"}, dry : BOOLEAN]

RunStatus == {"none", "simulated", "executing", "completed", "failed"}

\* A transaction is unsent, in flight, applied, or rejected or expired.
TxStatus == {"unsent", "pending", "landed", "dropped"}

Running == {"schedule", "lines", "bind", "insert", "payout", "payoutWait",
            "record", "recordWait", "markFailed", "backoff",
            "markCompleted", "advance"}
Finished == {"returned", "threw", "crashed"}

\* What the contract is told about a run: only the sign of the total and
\* whether anyone is paid matter to it.
TotalOf(p) == IF p = {} THEN 0 ELSE 1
CountOf(p) == IF p = {} THEN 0 ELSE 1

Contract == INSTANCE PayrollContract WITH
  Addresses <- {Platform}, RunIds <- Calls, Totals <- {0, 1}, Counts <- {0, 1}

AnyJob == CHOOSE j \in Job : TRUE

\* A schedule as it is created: the whole staff, due at once.
NewRow(s) == [due |-> 0, active |-> TRUE, oneOff |-> s \in OneOff,
              employees |-> Employees, occ |-> 0]
AnyRow == NewRow(CHOOSE s \in Schedules : TRUE)

Init ==
  /\ env \in Environments
  /\ now = 0
  /\ row = [s \in Schedules |-> NewRow(s)]
  /\ staff \in [Employees -> {"bank", "wallet"}]
  /\ published \in BOOLEAN
  /\ redated = {}
  /\ run = [c \in Calls |-> "none"]
  /\ pc = [c \in Calls |-> "idle"]
  /\ job = [c \in Calls |-> AnyJob]
  /\ snap = [c \in Calls |-> AnyRow]
  /\ payees = [c \in Calls |-> {}]
  /\ payout = [c \in Calls |-> "unsent"]
  /\ record = [c \in Calls |-> "unsent"]
  /\ admin = Platform
  /\ operators = {}
  /\ executed = {}
  /\ events = <<>>

-----------------------------------------------------------------------------
(* Decisions of the call, each preceded by the mutant forms that show      *)
(* which property depends on it.                                           *)

\* assertMainnetNeverAutoExecutesTreasuryActions refuses every actor.
RefusedOnNetwork(j) == Network = "mainnet"

\* The status of the row that is inserted before anything is settled.
InsertedStatusMutant(c) == IF job[c].dry THEN "simulated" ELSE "none"
InsertedStatus(c) == IF job[c].dry THEN "simulated" ELSE "executing"

\* Where executePayrollRun starts: with the payout if there is a wallet to pay
\* and a USDC to pay it in, with the contract otherwise, and nowhere near the
\* chain without a key.
SettleFromRecordFirstMutant(c) == IF ~Live THEN "markCompleted" ELSE "record"
SettleFrom(c) ==
  IF ~Live THEN "markCompleted"
  ELSE IF "wallet" \in payees[c] /\ Issuer THEN "payout"
  ELSE "record"

\* Where a call goes once its run row is in place: a dry run returns.
AfterInsertMutant(c) == SettleFrom(c)
AfterInsert(c) == IF job[c].dry THEN "returned" ELSE SettleFrom(c)

\* A confirmed transaction is one the network reports as SUCCESS.
SucceededMutant(tx) == tx \in {"landed", "dropped"}
Succeeded(tx) == tx = "landed"

\* The client gives up on a transaction that failed, or on one it has polled
\* for too long, which may have landed or may still land.
GivesUpMutant(tx) == tx = "dropped"
GivesUp(tx) == \/ tx = "dropped"
               \/ "timeout" \in Faults

\* The row a failed run writes: all of the snapshot, due one hour from now.
BackedOffMutant(r) == [r EXCEPT !.due = @ + Period, !.occ = @ + 1]
BackedOff(r) == [r EXCEPT !.due = now + Backoff]

\* The row a completed run writes: all of the snapshot, moved to the next
\* occurrence by advanceCadence, or inactive if there is none.
AdvancedMutant(r) == r
Advanced(r) ==
  IF r.oneOff
  THEN [r EXCEPT !.occ = @ + 1, !.active = FALSE]
  ELSE [r EXCEPT !.occ = @ + 1, !.due = @ + Period]

-----------------------------------------------------------------------------
(* The steps of one call, one per await.                                   *)

Goto(c, from, to) ==
  /\ pc[c] = from
  /\ pc' = [pc EXCEPT ![c] = to]

\* POST /payroll/runs reaches executeRun.
Receive(c, s, actor, dry) ==
  LET j == [sched |-> s, actor |-> actor, dry |-> dry]
  IN  /\ Goto(c, "idle", IF RefusedOnNetwork(j) THEN "threw" ELSE "schedule")
      /\ job' = [job EXCEPT ![c] = j]
      /\ UNCHANGED <<now, dbVars, snap, payees, payout, record, contractVars>>

\* repo.getSchedule
ReadSchedule(c) ==
  /\ Goto(c, "schedule", "lines")
  /\ snap' = [snap EXCEPT ![c] = row[job[c].sched]]
  /\ UNCHANGED <<now, dbVars, job, payees, payout, record, contractVars>>

\* buildRunLines
BuildRunLines(c) ==
  /\ Goto(c, "lines", "bind")
  /\ payees' = [payees EXCEPT ![c] =
                   {staff[e] : e \in snap[c].employees} \ {"absent"}]
  /\ UNCHANGED <<now, dbVars, job, snap, payout, record, contractVars>>

\* legal.bindForAction throws when no context is published.
BindForAction(c) ==
  /\ Goto(c, "bind", IF published THEN "insert" ELSE "threw")
  /\ UNCHANGED <<now, dbVars, job, snap, payees, payout, record, contractVars>>

\* repo.insertPayrollRun
InsertRun(c) ==
  /\ Goto(c, "insert", AfterInsert(c))
  /\ run' = [run EXCEPT ![c] = InsertedStatus(c)]
  /\ UNCHANGED <<now, row, staff, published, redated, job, snap, payees, payout, record,
                 contractVars>>

\* client.sendPayments: one Horizon transaction pays every wallet.
SubmitPayout(c) ==
  /\ Goto(c, "payout", "payoutWait")
  /\ payout' = [payout EXCEPT ![c] = "pending"]
  /\ UNCHANGED <<now, dbVars, job, snap, payees, record, contractVars>>

PayoutConfirmed(c) ==
  /\ Goto(c, "payoutWait", "record")
  /\ Succeeded(payout[c])
  /\ UNCHANGED <<now, dbVars, job, snap, payees, payout, record, contractVars>>

PayoutFailed(c) ==
  /\ Goto(c, "payoutWait", "markFailed")
  /\ GivesUp(payout[c])
  /\ UNCHANGED <<now, dbVars, job, snap, payees, payout, record, contractVars>>

\* client.invoke("execute_run"): sent only if its simulation succeeds.
RecordAccepted(c) ==
  /\ Contract!MayTrigger(Platform)
  /\ Contract!ValidRun(TotalOf(payees[c]), CountOf(payees[c]))
  /\ Contract!NotExecuted(c)

SubmitRecord(c) ==
  /\ RecordAccepted(c)
  /\ Goto(c, "record", "recordWait")
  /\ record' = [record EXCEPT ![c] = "pending"]
  /\ UNCHANGED <<now, dbVars, job, snap, payees, payout, contractVars>>

RecordRefused(c) ==
  /\ ~RecordAccepted(c)
  /\ Goto(c, "record", "markFailed")
  /\ UNCHANGED <<now, dbVars, job, snap, payees, payout, record, contractVars>>

RecordConfirmed(c) ==
  /\ Goto(c, "recordWait", "markCompleted")
  /\ Succeeded(record[c])
  /\ UNCHANGED <<now, dbVars, job, snap, payees, payout, record, contractVars>>

RecordFailed(c) ==
  /\ Goto(c, "recordWait", "markFailed")
  /\ GivesUp(record[c])
  /\ UNCHANGED <<now, dbVars, job, snap, payees, payout, record, contractVars>>

MarkFailed(c) ==
  /\ Goto(c, "markFailed", "backoff")
  /\ run' = [run EXCEPT ![c] = "failed"]
  /\ UNCHANGED <<now, row, staff, published, redated, job, snap, payees, payout, record,
                 contractVars>>

\* upsertSchedule writes the whole row from the snapshot, then the call throws.
BackOff(c) ==
  /\ Goto(c, "backoff", "threw")
  /\ row' = [row EXCEPT ![job[c].sched] = BackedOff(snap[c])]
  /\ UNCHANGED <<now, staff, published, redated, run, job, snap, payees, payout, record,
                 contractVars>>

MarkCompleted(c) ==
  /\ Goto(c, "markCompleted", "advance")
  /\ run' = [run EXCEPT ![c] = "completed"]
  /\ UNCHANGED <<now, row, staff, published, redated, job, snap, payees, payout, record,
                 contractVars>>

\* upsertSchedule writes the whole row from the snapshot, then the call returns
\* (the audit record is append-only and read by nobody here).
Advance(c) ==
  /\ Goto(c, "advance", "returned")
  /\ row' = [row EXCEPT ![job[c].sched] = Advanced(snap[c])]
  /\ UNCHANGED <<now, staff, published, redated, run, job, snap, payees, payout, record,
                 contractVars>>

\* A database request of the call is refused or lost: executeRun throws from
\* where it is.
DbFault(c) ==
  /\ "db" \in Faults
  /\ pc[c] \in {"schedule", "lines", "bind", "insert", "markFailed", "backoff",
                "markCompleted", "advance"}
  /\ pc' = [pc EXCEPT ![c] = "threw"]
  /\ UNCHANGED <<now, dbVars, job, snap, payees, payout, record, contractVars>>

CallStep(c) ==
  \/ ReadSchedule(c) \/ BuildRunLines(c) \/ BindForAction(c) \/ InsertRun(c)
  \/ SubmitPayout(c) \/ PayoutConfirmed(c) \/ PayoutFailed(c)
  \/ SubmitRecord(c) \/ RecordRefused(c) \/ RecordConfirmed(c) \/ RecordFailed(c)
  \/ MarkFailed(c) \/ BackOff(c) \/ MarkCompleted(c) \/ Advance(c) \/ DbFault(c)

\* The API process dies: no call in progress takes another step.
Crash ==
  /\ "crash" \in Faults
  /\ \E c \in Calls : pc[c] \in Running
  /\ pc' = [c \in Calls |-> IF pc[c] \in Running THEN "crashed" ELSE pc[c]]
  /\ UNCHANGED <<now, dbVars, job, snap, payees, payout, record, contractVars>>

-----------------------------------------------------------------------------
(* The network.  A transaction in flight lands or is dropped (rejected, or *)
(* past its time bounds) whether or not the call that sent it still waits. *)

PayoutLands(c) ==
  /\ payout[c] = "pending"
  /\ payout' = [payout EXCEPT ![c] = "landed"]
  /\ UNCHANGED <<now, dbVars, callVars, record, contractVars>>

PayoutDropped(c) ==
  /\ "payout_rejected" \in Faults
  /\ payout[c] = "pending"
  /\ payout' = [payout EXCEPT ![c] = "dropped"]
  /\ UNCHANGED <<now, dbVars, callVars, record, contractVars>>

RecordLands(c) ==
  /\ record[c] = "pending"
  /\ Contract!ExecuteRun(Platform, Platform, c, TotalOf(payees[c]),
                         CountOf(payees[c]))
  /\ record' = [record EXCEPT ![c] = "landed"]
  /\ UNCHANGED <<now, dbVars, callVars, payout>>

RecordDropped(c) ==
  /\ "record_rejected" \in Faults
  /\ record[c] = "pending"
  /\ record' = [record EXCEPT ![c] = "dropped"]
  /\ UNCHANGED <<now, dbVars, callVars, payout, contractVars>>

ChainStep(c) ==
  \/ PayoutLands(c) \/ PayoutDropped(c) \/ RecordLands(c) \/ RecordDropped(c)

-----------------------------------------------------------------------------
(* The rest of the tenant's application.                                   *)

Tick ==
  /\ now < MaxTime
  /\ now' = now + 1
  /\ UNCHANGED <<dbVars, callVars, payout, record, contractVars>>

\* saveSchedule: a form is saved, whenever it was opened.  The upsert replaces the
\* whole row.  A date that is not the row's own makes the row stand for the payday
\* of that date, which may be one that has been served.
SaveSchedule(s, f) ==
  /\ row' = [row EXCEPT ![s] =
       [due |-> f.due, active |-> f.active, oneOff |-> f.oneOff,
        employees |-> f.employees,
        occ |-> IF f.due = row[s].due THEN row[s].occ ELSE f.due \div Period]]
  /\ redated' = IF f.due = row[s].due THEN redated ELSE redated \cup {s}
  /\ UNCHANGED <<now, staff, published, run, callVars, payout, record,
                 contractVars>>

\* saveEmployee and deleteEmployee: how an employee is paid changes.
ChangeStaff(e, k) ==
  /\ staff' = [staff EXCEPT ![e] = k]
  /\ UNCHANGED <<now, row, published, redated, run, callVars, payout, record,
                 contractVars>>

\* LegalContextService.publish, as far as a run sees it.
Publish ==
  /\ published' = TRUE
  /\ UNCHANGED <<now, row, staff, redated, run, callVars, payout, record,
                 contractVars>>

TenantStep ==
  \/ Publish
  \/ \E s \in Schedules, f \in Forms : SaveSchedule(s, f)
  \/ \E e \in Employees, k \in Staff : ChangeStaff(e, k)

SystemStep ==
  \/ \E c \in Calls : CallStep(c) \/ ChainStep(c)
  \/ Crash
  \/ Tick

Next ==
  /\ \/ \E c \in Calls, s \in Schedules, actor \in {"user", "agent"},
           dry \in BOOLEAN : Receive(c, s, actor, dry)
     \/ SystemStep
     \/ TenantStep
  /\ UNCHANGED env

Spec == Init /\ [][Next]_vars

-----------------------------------------------------------------------------
(* Properties.  They hold for any number of overlapping calls and under    *)
(* every fault.                                                            *)

TypeOK ==
  /\ env \in Environments
  /\ now \in Nat
  /\ row \in [Schedules -> Row]
  /\ staff \in [Employees -> Staff]
  /\ published \in BOOLEAN
  /\ redated \subseteq Schedules
  /\ run \in [Calls -> RunStatus]
  /\ pc \in [Calls -> {"idle"} \cup Running \cup Finished]
  /\ job \in [Calls -> Job]
  /\ snap \in [Calls -> Row]
  /\ payees \in [Calls -> Lines]
  /\ payout \in [Calls -> TxStatus]
  /\ record \in [Calls -> TxStatus]
  /\ Contract!TypeOK

\* A run the database calls completed was settled on chain: the contract has
\* recorded its id and, if any wallet was owed and there is a USDC to pay it in,
\* the payout has landed.  The status is written several awaits after the
\* transactions were confirmed.
CompletedMeansSettled ==
  \A c \in Calls : run[c] = "completed" /\ Live =>
    /\ c \in executed
    /\ "wallet" \in payees[c] /\ Issuer => payout[c] = "landed"

\* The contract never holds a record of a payroll whose wallets were not paid,
\* not even when the payout timed out, the database failed or the API crashed
\* between the two transactions: an auditor may read an event as a payment.
RecordImpliesPaid ==
  \A c \in executed : "wallet" \in payees[c] /\ Issuer => payout[c] = "landed"

\* A completed run has paid the wallets it was to pay ("settle salaries on-chain
\* to each employee's Stellar wallet", payrollService.ts, lines 217-218).
\* Without an issuer the run is completed, recorded and audited as paid while
\* no wallet is.
CompletedMeansPaid ==
  \A c \in Calls : run[c] = "completed" /\ Live /\ "wallet" \in payees[c] =>
    payout[c] = "landed"

\* No transaction is sent for a run without a row in payroll_runs, nor for a
\* tenant without a legal context, so a crash right after the submission still
\* leaves something to reconcile against.
MoneyLeavesARow ==
  \A c \in Calls : payout[c] # "unsent" \/ record[c] # "unsent" =>
    /\ run[c] \in {"executing", "completed", "failed"}
    /\ published

\* A dry run sends nothing, never reaches a settled status and, in no step it
\* takes, moves a schedule.
DryRunIsHarmless ==
  [][\A c \in Calls : job[c].dry /\ pc[c] \in Running =>
       /\ payout'[c] = "unsent" /\ record'[c] = "unsent"
       /\ run'[c] \in {"none", "simulated"}
       /\ pc'[c] # pc[c] => row' = row]_vars

\* Without a service secret no call ever touches the chain.
SimulationStaysOffChain ==
  ~Live => /\ executed = {}
           /\ \A c \in Calls : payout[c] = "unsent" /\ record[c] = "unsent"

\* On mainnet, where the gateway has no key and would answer every settlement
\* with a fabricated hash, no call by whichever actor reports a settlement or
\* moves a schedule: only a user's form does.
MainnetReportsNothing ==
  Network = "mainnet" =>
    /\ \A c \in Calls : run[c] = "none" /\ pc[c] \in {"idle", "threw"}
    /\ \A s \in Schedules \ redated : row[s].occ = 0 /\ row[s].due = 0

\* A schedule leaves a payday behind only once a run of that payday has completed,
\* whatever overlaps, fails or crashes: a failure backs off without skipping it,
\* and no write of an old snapshot jumps over one.  Only a user who moves the date
\* may skip a payday.
NoPaydaySkipped ==
  \A s \in Schedules \ redated : \A k \in 0 .. row[s].occ - 1 :
    \E c \in Calls :
      /\ job[c].sched = s /\ snap[c].occ = k
      /\ run[c] = "completed"
=============================================================================
