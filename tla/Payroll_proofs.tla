--------------------------- MODULE Payroll_proofs ---------------------------
(***************************************************************************)
(* Proofs about PayrollRuns and, on top of it, PayrollWorker, for every    *)
(* set of schedules and calls and any deployment.                          *)
(*                                                                         *)
(* First executeRun on its own, whatever overlaps and whatever fails: what *)
(* the statuses of the database and the records of the contract say about  *)
(* the money that moved, and that the contract's log stays the ledger its  *)
(* own proofs make it.  Then that the worker and the users make the API    *)
(* do nothing else, for every sequence of ticks, restarts and runs.  Then  *)
(* a worker that has the API to itself: what it pays, and how often.  At   *)
(* the end PayrollTicks, where a run is one step: how often a failing run  *)
(* is tried, and how far it makes the others late.                         *)
(***************************************************************************)
EXTENDS PayrollWorker, PayrollTicks, FiniteSetTheorems, TLAPS

(***************************************************************************)
(* The properties speak of a call long after the step that made them true: *)
(* a run is marked completed when its transactions were confirmed awaits   *)
(* ago, and a record lands when the call that sent it may have died.  The  *)
(* inductive invariant says what is known of a call at each place it can   *)
(* be, and what every transaction carries with it once it is sent.         *)
(***************************************************************************)
BeforeInsert == {"idle", "schedule", "lines", "bind", "insert"}
Settling == {"payout", "payoutWait", "record", "recordWait"}
InPlace == Settling \cup {"markFailed", "backoff", "markCompleted", "advance"}
RealStatus == {"executing", "completed", "failed"}

\* The wallets that were to be paid have been.
Paid(c) == "wallet" \in payees[c] /\ Issuer => payout[c] = "landed"

CallTypes ==
  /\ pc \in [Calls -> {"idle"} \cup Running \cup Finished]
  /\ job \in [Calls -> Job]
  /\ staff \in [Employees -> Staff]
  /\ payees \in [Calls -> Lines]
  /\ run \in [Calls -> RunStatus]
  /\ payout \in [Calls -> TxStatus]
  /\ record \in [Calls -> TxStatus]
  /\ executed \subseteq Calls

\* Where a call is tells what it has done so far.
PlaceInv(c) ==
  /\ pc[c] \in BeforeInsert =>
       run[c] = "none" /\ payout[c] = "unsent" /\ record[c] = "unsent"
  /\ pc[c] \in {"insert"} \cup InPlace => published
  /\ pc[c] \in InPlace => run[c] \in RealStatus /\ ~job[c].dry
  /\ pc[c] \in Settling => Live
  /\ pc[c] \in {"payout", "payoutWait", "record"} => record[c] = "unsent"
  /\ pc[c] = "record" => Paid(c)
  /\ pc[c] \in {"markCompleted", "advance"} /\ Live => record[c] = "landed"

\* What holds of a call's transactions wherever the call is by now.
ChainInv(c) ==
  /\ payout[c] # "unsent" \/ record[c] # "unsent" =>
       run[c] \in RealStatus /\ published /\ Live
  /\ record[c] # "unsent" => Paid(c)
  /\ c \in executed <=> record[c] = "landed"
  /\ run[c] = "completed" /\ Live => record[c] = "landed"

CallsInv == \A c \in Calls : PlaceInv(c) /\ ChainInv(c)

IInv == CallTypes /\ CallsInv

-----------------------------------------------------------------------------

\* There is a job to start from.
LEMMA AnyJobIsJob == AnyJob \in Job
<1>1. PICK s \in Schedules : TRUE
  BY PayrollAssumption, CadenceAssumption
<1>2. [sched |-> s, actor |-> "user", dry |-> TRUE] \in Job
  BY DEF Job
<1>3. QED
  BY <1>2 DEF AnyJob

(* Types.                                                                  *)

\* The contract's event log stays well typed when a run is recorded.
LEMMA RecordKeepsTypes ==
  ASSUME Contract!TypeOK, NEW c \in Calls, NEW t \in {0, 1}, NEW n \in {0, 1},
         Contract!ExecuteRun(Platform, Platform, c, t, n)
  PROVE  Contract!TypeOK'
<1> DEFINE e == [run |-> c, total |-> t, count |-> n,
                 trigger |-> Contract!TriggerOf(Platform)]
<1>1. e \in Contract!RunEvent
  BY DEF Contract!RunEvent, Contract!Trigger, Contract!TriggerOf
<1>2. /\ events \in Seq(Contract!RunEvent)
      /\ events' = Append(events, e)
      /\ executed' = executed \cup {c}
      /\ UNCHANGED <<admin, operators>>
  BY DEF Contract!TypeOK, Contract!ExecuteRun, Contract!MarkExecuted
<1> HIDE DEF e
<1>3. events' \in Seq(Contract!RunEvent)
  BY <1>1, <1>2
<1>4. QED
  BY <1>2, <1>3 DEF Contract!TypeOK

\* The row a failed run writes keeps its payday, and the row a completed run
\* writes is at the next one.
LEMMA OccurrenceWritten ==
  ASSUME NEW r \in Row, now \in Nat
  PROVE  /\ BackedOff(r) \in Row /\ BackedOff(r).occ = r.occ
         /\ Advanced(r) \in Row /\ Advanced(r).occ = r.occ + 1
<1>1. r = [due |-> r.due, active |-> r.active, oneOff |-> r.oneOff,
           employees |-> r.employees, occ |-> r.occ]
  BY DEF Row
<1>2. /\ r.due \in Nat /\ r.active \in BOOLEAN /\ r.oneOff \in BOOLEAN
      /\ r.employees \in SUBSET Employees /\ r.occ \in Nat
      /\ r.due + Period \in Nat
  BY CadenceAssumption DEF Row
<1>3. BackedOff(r) = [due |-> now + 1, active |-> r.active, oneOff |-> r.oneOff,
                      employees |-> r.employees, occ |-> r.occ]
  BY <1>1 DEF BackedOff, Backoff
<1>4. CASE r.oneOff
  <2>1. Advanced(r) = [due |-> r.due, active |-> FALSE, oneOff |-> r.oneOff,
                       employees |-> r.employees, occ |-> r.occ + 1]
    BY <1>1, <1>4 DEF Advanced
  <2>2. QED
    BY <1>2, <1>3, <2>1 DEF Row
<1>5. CASE ~r.oneOff
  <2>1. Advanced(r) = [due |-> r.due + Period, active |-> r.active,
                       oneOff |-> r.oneOff, employees |-> r.employees,
                       occ |-> r.occ + 1]
    BY <1>1, <1>5 DEF Advanced
  <2>2. QED
    BY <1>2, <1>3, <2>1 DEF Row
<1>6. QED
  BY <1>4, <1>5

\* The row a form writes is a row, of the payday it was at if the date is the
\* row's own.
LEMMA SavedRow ==
  ASSUME NEW s \in Schedules, NEW f \in Forms, TypeOK, SaveSchedule(s, f)
  PROVE  /\ row' \in [Schedules -> Row] /\ redated' \subseteq Schedules
         /\ redated \subseteq redated'
         /\ \A t \in Schedules \ redated' :
              row'[t].occ = row[t].occ /\ row'[t].due = row[t].due
<1>1. /\ f.due \in Nat /\ f.active \in BOOLEAN /\ f.oneOff \in BOOLEAN
      /\ f.employees \in SUBSET Employees
  BY PayrollAssumption DEF Form
<1>2. f.due \div Period \in Nat
  BY <1>1, CadenceAssumption
<1>3. row \in [Schedules -> Row] /\ row[s].occ \in Nat /\ redated \subseteq Schedules
  BY DEF TypeOK, Row
<1> DEFINE k == IF f.due = row[s].due THEN row[s].occ ELSE f.due \div Period
           r == [due |-> f.due, active |-> f.active, oneOff |-> f.oneOff,
                 employees |-> f.employees, occ |-> k]
<1>4. k \in Nat /\ r \in Row
  BY <1>1, <1>2, <1>3 DEF Row
<1>5. /\ row' = [row EXCEPT ![s] = r]
      /\ redated' = IF f.due = row[s].due THEN redated ELSE redated \cup {s}
  BY DEF SaveSchedule
<1>6. s \notin redated' => r.occ = row[s].occ /\ r.due = row[s].due
  BY <1>5
<1> HIDE DEF r
<1>7. QED
  BY <1>3, <1>4, <1>5, <1>6

\* What users save leaves a payday where it was unless they move its date.
LEMMA TenantKeepsDates ==
  ASSUME TypeOK, TenantStep
  PROVE  /\ redated \subseteq redated'
         /\ \A s \in Schedules \ redated' :
              row'[s].occ = row[s].occ /\ row'[s].due = row[s].due
BY SavedRow DEF TenantStep, Publish, ChangeStaff

\* Every variable keeps its type.
THEOREM TypesHold == Spec => []TypeOK
<1>1. Init => TypeOK
  <2>1. \A s \in Schedules : NewRow(s) \in Row
    BY DEF NewRow, Row
  <2>2. AnyRow \in Row
    BY <2>1, CadenceAssumption DEF AnyRow
  <2>3. QED
    BY <2>1, <2>2, AnyJobIsJob
       DEF Init, TypeOK, Staff, Lines, RunStatus, TxStatus, Contract!TypeOK
<1>2. TypeOK /\ [Next]_vars => TypeOK'
  <2> SUFFICES ASSUME TypeOK, [Next]_vars
               PROVE  TypeOK'
    OBVIOUS
  <2> USE DEF Goto, dbVars, callVars, Running, Finished
  <2>0. env' = env
    BY DEF Next, vars
  <2> USE <2>0
  <2>1. ASSUME UNCHANGED contractVars
        PROVE  Contract!TypeOK'
    BY <2>1 DEF contractVars, TypeOK, Contract!TypeOK
  <2>2. ASSUME NEW c \in Calls, CallStep(c)
        PROVE  TypeOK'
    <3>1. CASE ReadSchedule(c)
      BY <2>1, <3>1 DEF ReadSchedule, TypeOK, Job
    <3>2. CASE BuildRunLines(c)
      <4>1. {staff[e] : e \in snap[c].employees} \ {"absent"} \in Lines
        BY DEF TypeOK, Row, Lines, Staff
      <4>2. QED
        BY <2>1, <3>2, <4>1 DEF BuildRunLines, TypeOK
    <3>3. CASE BindForAction(c)
      BY <2>1, <3>3 DEF BindForAction, TypeOK
    <3>4. CASE InsertRun(c)
      BY <2>1, <3>4 DEF InsertRun, AfterInsert, SettleFrom, InsertedStatus,
                        TypeOK, RunStatus
    <3>5. CASE SubmitPayout(c)
      BY <2>1, <3>5 DEF SubmitPayout, TypeOK, TxStatus
    <3>6. CASE PayoutConfirmed(c) \/ PayoutFailed(c)
      BY <2>1, <3>6 DEF PayoutConfirmed, PayoutFailed, TypeOK
    <3>7. CASE SubmitRecord(c)
      BY <2>1, <3>7 DEF SubmitRecord, TypeOK, TxStatus
    <3>8. CASE RecordRefused(c) \/ RecordConfirmed(c) \/ RecordFailed(c)
      BY <2>1, <3>8 DEF RecordRefused, RecordConfirmed, RecordFailed, TypeOK
    <3>9. CASE MarkFailed(c) \/ MarkCompleted(c)
      BY <2>1, <3>9 DEF MarkFailed, MarkCompleted, TypeOK, RunStatus
    <3>10. CASE BackOff(c)
      <4>1. BackedOff(snap[c]) \in Row
        BY OccurrenceWritten DEF TypeOK
      <4>2. QED
        BY <2>1, <3>10, <4>1 DEF BackOff, TypeOK
    <3>11. CASE Advance(c)
      <4>1. Advanced(snap[c]) \in Row
        BY OccurrenceWritten DEF TypeOK
      <4>2. QED
        BY <2>1, <3>11, <4>1 DEF Advance, TypeOK
    <3>12. CASE DbFault(c)
      BY <2>1, <3>12 DEF DbFault, TypeOK
    <3>13. QED
      BY <2>2, <3>1, <3>2, <3>3, <3>4, <3>5, <3>6, <3>7, <3>8, <3>9, <3>10,
         <3>11, <3>12 DEF CallStep
  <2>3. ASSUME NEW c \in Calls, ChainStep(c)
        PROVE  TypeOK'
    <3>1. CASE PayoutLands(c) \/ PayoutDropped(c)
      BY <2>1, <3>1 DEF PayoutLands, PayoutDropped, TypeOK, TxStatus
    <3>2. CASE RecordLands(c)
      <4>1. Contract!TypeOK'
        BY <3>2, RecordKeepsTypes
           DEF RecordLands, TypeOK, TotalOf, CountOf
      <4>2. QED
        BY <3>2, <4>1 DEF RecordLands, TypeOK, TxStatus
    <3>3. CASE RecordDropped(c)
      BY <2>1, <3>3 DEF RecordDropped, TypeOK, TxStatus
    <3>4. QED
      BY <2>3, <3>1, <3>2, <3>3 DEF ChainStep
  <2>4. ASSUME NEW c \in Calls, NEW s \in Schedules,
               NEW actor \in {"user", "agent"}, NEW dry \in BOOLEAN,
               Receive(c, s, actor, dry)
        PROVE  TypeOK'
    BY <2>1, <2>4 DEF Receive, TypeOK, Job
  <2>5. CASE Crash
    BY <2>1, <2>5 DEF Crash, TypeOK
  <2>6. CASE Tick
    BY <2>1, <2>6 DEF Tick, TypeOK
  <2>7. CASE TenantStep
    <3>1. ASSUME NEW s \in Schedules, NEW f \in Forms, SaveSchedule(s, f)
          PROVE  TypeOK'
      BY <2>1, <3>1, SavedRow DEF SaveSchedule, TypeOK
    <3>2. CASE Publish
      BY <2>1, <3>2 DEF Publish, TypeOK
    <3>3. ASSUME NEW e \in Employees, NEW k \in Staff, ChangeStaff(e, k)
          PROVE  TypeOK'
      BY <2>1, <3>3 DEF ChangeStaff, TypeOK
    <3>4. QED
      BY <2>7, <3>1, <3>2, <3>3 DEF TenantStep
  <2>8. CASE UNCHANGED vars
    BY <2>1, <2>8 DEF vars, TypeOK
  <2>9. QED
    BY <2>2, <2>3, <2>4, <2>5, <2>6, <2>7, <2>8 DEF Next, SystemStep
<1>3. QED
  BY <1>1, <1>2, PTL DEF Spec

-----------------------------------------------------------------------------
(* One run.                                                                *)

LEMMA InitEstablishes == Init => IInv
BY AnyJobIsJob
   DEF Init, IInv, CallTypes, CallsInv, PlaceInv, ChainInv, BeforeInsert,
       Settling, InPlace, Running, Finished, Staff, Lines, RunStatus, TxStatus

\* Every step a call takes by itself.
LEMMA CallStepPreserves ==
  ASSUME IInv, TypeOK, NEW d \in Calls, CallStep(d), UNCHANGED env
  PROVE  IInv'
<1>0. Live' = Live /\ Issuer' = Issuer
  BY DEF Live, Issuer
<1> USE <1>0 DEF IInv, CallTypes, CallsInv, PlaceInv, ChainInv, BeforeInsert,
            Settling, InPlace, RealStatus, Paid, Running, Finished, Staff, Lines,
            RunStatus, TxStatus, dbVars, callVars, contractVars, Goto
<1>1. CASE ReadSchedule(d)
  BY <1>1 DEF ReadSchedule
<1>2. CASE BuildRunLines(d)
  <2> HIDE DEF Staff, Lines, RunStatus, TxStatus
  <2>1. \A e \in snap[d].employees : staff[e] \in Staff
    BY DEF TypeOK, Row
  <2>2. {staff[e] : e \in snap[d].employees} \ {"absent"} \in Lines
    BY <2>1 DEF Lines
  <2>3. QED
    BY <1>2, <2>2 DEF BuildRunLines
<1>3. CASE BindForAction(d)
  BY <1>3 DEF BindForAction
<1>4. CASE InsertRun(d)
  BY <1>4 DEF InsertRun, AfterInsert, InsertedStatus, SettleFrom
<1>5. CASE SubmitPayout(d)
  BY <1>5 DEF SubmitPayout
<1>6. CASE PayoutConfirmed(d)
  BY <1>6 DEF PayoutConfirmed, Succeeded
<1>7. CASE PayoutFailed(d)
  BY <1>7 DEF PayoutFailed
<1>8. CASE SubmitRecord(d)
  BY <1>8 DEF SubmitRecord
<1>9. CASE RecordRefused(d)
  BY <1>9 DEF RecordRefused
<1>10. CASE RecordConfirmed(d)
  BY <1>10 DEF RecordConfirmed, Succeeded
<1>11. CASE RecordFailed(d)
  BY <1>11 DEF RecordFailed
<1>12. CASE MarkFailed(d)
  BY <1>12 DEF MarkFailed
<1>13. CASE BackOff(d)
  BY <1>13 DEF BackOff
<1>14. CASE MarkCompleted(d)
  BY <1>14 DEF MarkCompleted
<1>15. CASE Advance(d)
  BY <1>15 DEF Advance
<1>16. CASE DbFault(d)
  BY <1>16 DEF DbFault
<1>17. QED
  BY <1>1, <1>2, <1>3, <1>4, <1>5, <1>6, <1>7, <1>8, <1>9, <1>10, <1>11,
     <1>12, <1>13, <1>14, <1>15, <1>16 DEF CallStep

\* A transaction lands or is dropped, whatever became of the call that sent it.
LEMMA ChainStepPreserves ==
  ASSUME IInv, NEW d \in Calls, ChainStep(d), UNCHANGED env
  PROVE  IInv'
<1>0. Live' = Live /\ Issuer' = Issuer
  BY DEF Live, Issuer
<1> USE <1>0 DEF IInv, CallTypes, CallsInv, PlaceInv, ChainInv, BeforeInsert,
            Settling, InPlace, RealStatus, Paid, Running, Finished, Staff, Lines,
            RunStatus, TxStatus, dbVars, callVars, contractVars
<1>1. CASE PayoutLands(d)
  BY <1>1 DEF PayoutLands
<1>2. CASE PayoutDropped(d)
  BY <1>2 DEF PayoutDropped
<1>3. CASE RecordLands(d)
  BY <1>3 DEF RecordLands, Contract!ExecuteRun, Contract!MarkExecuted
<1>4. CASE RecordDropped(d)
  BY <1>4 DEF RecordDropped
<1>5. QED
  BY <1>1, <1>2, <1>3, <1>4 DEF ChainStep

\* What the users, the clock and the API's death do around the calls.
LEMMA SurroundingsPreserve ==
  ASSUME IInv,
         \/ \E c \in Calls, s \in Schedules, actor \in {"user", "agent"},
               dry \in BOOLEAN : Receive(c, s, actor, dry)
         \/ Crash \/ Tick \/ TenantStep,
         UNCHANGED env
  PROVE  IInv'
<1>0. Live' = Live /\ Issuer' = Issuer
  BY DEF Live, Issuer
<1> USE <1>0 DEF IInv, CallTypes, CallsInv, PlaceInv, ChainInv, BeforeInsert,
            Settling, InPlace, RealStatus, Paid, Running, Finished, Staff, Lines,
            RunStatus, TxStatus, dbVars, callVars, contractVars, Goto
<1>1. ASSUME NEW c \in Calls, NEW s \in Schedules,
             NEW actor \in {"user", "agent"}, NEW dry \in BOOLEAN,
             Receive(c, s, actor, dry)
      PROVE  IInv'
  BY <1>1 DEF Receive, RefusedOnNetwork, Job
<1>2. CASE Crash
  BY <1>2 DEF Crash
<1>3. CASE Tick
  BY <1>3 DEF Tick
<1>4. CASE TenantStep
  BY <1>4 DEF TenantStep, Publish, SaveSchedule, ChangeStaff
<1>5. QED
  BY <1>1, <1>2, <1>3, <1>4

\* Every reachable state satisfies the inductive invariant.
THEOREM InvariantHolds == Spec => []IInv
<1>1. Init => IInv
  BY InitEstablishes
<1>2. TypeOK /\ IInv /\ [Next]_vars => IInv'
  <2>1. ASSUME TypeOK, IInv, Next
        PROVE  IInv'
    BY <2>1, CallStepPreserves, ChainStepPreserves, SurroundingsPreserve
       DEF Next, SystemStep
  <2>2. ASSUME IInv, UNCHANGED vars
        PROVE  IInv'
    BY <2>2 DEF IInv, CallTypes, CallsInv, PlaceInv, ChainInv, Paid, vars,
                dbVars, callVars, contractVars, Live, Issuer
  <2>3. QED
    BY <2>1, <2>2
<1>3. QED
  BY <1>1, <1>2, TypesHold, PTL DEF Spec

\* A completed run was settled on chain, however calls overlap and whatever
\* failed.
THEOREM CompletedMeansSettledHolds == Spec => []CompletedMeansSettled
<1>1. IInv => CompletedMeansSettled
  BY DEF IInv, CallsInv, ChainInv, Paid, CompletedMeansSettled
<1>2. QED
  BY <1>1, InvariantHolds, PTL

\* A run the contract has recorded was paid first.
THEOREM RecordImpliesPaidHolds == Spec => []RecordImpliesPaid
<1>1. IInv => RecordImpliesPaid
  BY DEF IInv, CallTypes, CallsInv, ChainInv, Paid, TxStatus, RecordImpliesPaid
<1>2. QED
  BY <1>1, InvariantHolds, PTL

\* No transaction without a run row and a published legal context.
THEOREM MoneyLeavesARowHolds == Spec => []MoneyLeavesARow
<1>1. IInv => MoneyLeavesARow
  BY DEF IInv, CallsInv, ChainInv, RealStatus, MoneyLeavesARow
<1>2. QED
  BY <1>1, InvariantHolds, PTL

\* Without a service secret the chain is never touched.
THEOREM SimulationStaysOffChainHolds == Spec => []SimulationStaysOffChain
<1>1. IInv => SimulationStaysOffChain
  BY DEF IInv, CallTypes, CallsInv, ChainInv, TxStatus, SimulationStaysOffChain
<1>2. QED
  BY <1>1, InvariantHolds, PTL

-----------------------------------------------------------------------------
(* The contract's promise through the API.  What is proved of the contract *)
(* on its own is reused: a step of the API is one of its entry points or   *)
(* leaves it alone, and the API starts it from a state of its invariant.   *)

ContractProofs == INSTANCE PayrollContract_proofs WITH
  Addresses <- {Platform}, RunIds <- Calls, Totals <- {0, 1}, Counts <- {0, 1}

ContractInv ==
  Contract!TypeOK /\ Contract!SettledOnce /\ Contract!IndexMatchesEvents

LEMMA ContractInvIs == ContractInv <=> ContractProofs!Inv
BY DEF ContractInv, Contract!TypeOK, Contract!SettledOnce, Contract!RunEvent,
       Contract!Trigger, Contract!IndexMatchesEvents, ContractProofs!Inv,
       ContractProofs!TypeOK, ContractProofs!SettledOnce, ContractProofs!RunEvent,
       ContractProofs!Trigger, ContractProofs!IndexMatchesEvents

\* The API calls the contract through execute_run only, signed by the platform.
LEMMA StepCallsContract ==
  ASSUME IInv, [Next]_vars
  PROVE  [ContractProofs!Next]_contractVars
<1> USE DEF contractVars
<1>1. ASSUME NEW c \in Calls, RecordLands(c)
      PROVE  ContractProofs!Next
  <2>1. TotalOf(payees[c]) \in {0, 1} /\ CountOf(payees[c]) \in {0, 1}
    BY DEF TotalOf, CountOf
  <2>2. ContractProofs!ExecuteRun(Platform, Platform, c, TotalOf(payees[c]),
                                  CountOf(payees[c]))
    BY <1>1 DEF RecordLands, Contract!ExecuteRun, Contract!MayTrigger,
                Contract!ValidRun, Contract!NotExecuted, Contract!MarkExecuted,
                Contract!TriggerOf, ContractProofs!ExecuteRun,
                ContractProofs!MayTrigger, ContractProofs!ValidRun,
                ContractProofs!NotExecuted, ContractProofs!MarkExecuted,
                ContractProofs!TriggerOf
  <2>3. QED
    BY <2>1, <2>2 DEF ContractProofs!Next
<1>2. ASSUME NEW c \in Calls, CallStep(c)
      PROVE  UNCHANGED contractVars
  BY <1>2 DEF CallStep, ReadSchedule, BuildRunLines, BindForAction, InsertRun,
              SubmitPayout, PayoutConfirmed, PayoutFailed, SubmitRecord,
              RecordRefused, RecordConfirmed, RecordFailed, MarkFailed, BackOff,
              MarkCompleted, Advance, DbFault
<1>3. ASSUME NEW c \in Calls, ChainStep(c), ~RecordLands(c)
      PROVE  UNCHANGED contractVars
  BY <1>3 DEF ChainStep, PayoutLands, PayoutDropped, RecordDropped
<1>4. ASSUME NEW c \in Calls, NEW s \in Schedules,
             NEW actor \in {"user", "agent"}, NEW dry \in BOOLEAN,
             Receive(c, s, actor, dry)
      PROVE  UNCHANGED contractVars
  BY <1>4 DEF Receive
<1>5. CASE Crash \/ Tick \/ TenantStep
  BY <1>5 DEF Crash, Tick, TenantStep, Publish, SaveSchedule, ChangeStaff
<1>6. CASE UNCHANGED vars
  BY <1>6 DEF vars
<1>7. QED
  BY <1>1, <1>2, <1>3, <1>4, <1>5, <1>6 DEF Next, SystemStep

LEMMA ContractInvHolds == Spec => []ContractInv
<1>1. Init => ContractInv
  BY DEF Init, ContractInv, Contract!TypeOK, Contract!SettledOnce,
         Contract!IndexMatchesEvents
<1>2. IInv /\ ContractInv /\ [Next]_vars => ContractInv'
  <2>1. ContractProofs!ContractAssumption
    BY PayrollAssumption DEF ContractProofs!ContractAssumption
  <2>2. ContractProofs!Inv /\ [ContractProofs!Next]_contractVars
          => ContractProofs!Inv'
    BY <2>1, ContractProofs!StepKeepsInv DEF contractVars, ContractProofs!contractVars
  <2>3. ContractInv' <=> ContractProofs!Inv'
    BY ContractInvIs, PTL
  <2>4. QED
    BY <2>2, <2>3, ContractInvIs, StepCallsContract
<1>3. QED
  BY <1>1, <1>2, InvariantHolds, PTL DEF Spec

\* Every event on the contract's log, which is what an auditor reads, is of a run
\* that had paid the wallets it was to pay, and no run has two events.
EventMeansPaid ==
  /\ \A i \in DOMAIN events :
       LET c == events[i].run IN
       "wallet" \in payees[c] /\ Issuer => payout[c] = "landed"
  /\ \A i, j \in DOMAIN events : events[i].run = events[j].run => i = j

\* It holds however calls overlap, whatever fails between the two transactions
\* and whenever the API dies.
THEOREM EventMeansPaidHolds == Spec => []EventMeansPaid
<1>1. ContractInv /\ RecordImpliesPaid => EventMeansPaid
  BY DEF ContractInv, Contract!SettledOnce, Contract!IndexMatchesEvents,
         RecordImpliesPaid, EventMeansPaid
<1>2. QED
  BY <1>1, ContractInvHolds, RecordImpliesPaidHolds, PTL

\* The contract the API drives is a ledger of distinct runs with positive totals,
\* as the contract on its own is.
THEOREM ApiKeepsLedger == Spec => Contract!ImplementsLedger
<1>1. Init => Contract!Ledger!Init
  BY DEF Init, Contract!Ledger!Init
<1>2. IInv /\ ContractInv /\ [Next]_vars
        => [Contract!Ledger!Next]_(ContractProofs!Entries)
  <2>1. ContractProofs!ContractAssumption
    BY PayrollAssumption DEF ContractProofs!ContractAssumption
  <2>2. ContractProofs!Inv /\ [ContractProofs!Next]_contractVars
          => [ContractProofs!Ledger!Next]_(ContractProofs!Entries)
    BY <2>1, ContractProofs!StepSettles DEF contractVars, ContractProofs!contractVars
  <2>3. ContractProofs!Ledger!Next <=> Contract!Ledger!Next
    BY DEF ContractProofs!Ledger!Next, ContractProofs!Ledger!Settle,
           ContractProofs!Ledger!Settled, Contract!Ledger!Next,
           Contract!Ledger!Settle, Contract!Ledger!Settled
  <2>4. QED
    BY <2>2, <2>3, ContractInvIs, StepCallsContract
<1>3. QED
  BY <1>1, <1>2, InvariantHolds, ContractInvHolds, PTL
     DEF Spec, Contract!ImplementsLedger, Contract!Ledger!Spec, ContractProofs!Entries

-----------------------------------------------------------------------------
(* Steps.                                                                  *)

\* What one step may do to a call that is a dry run.
DryStep ==
  \A c \in Calls : job[c].dry /\ pc[c] \in Running =>
    /\ payout'[c] = "unsent" /\ record'[c] = "unsent"
    /\ run'[c] \in {"none", "simulated"}
    /\ pc'[c] # pc[c] => row' = row

\* A dry run sends nothing, settles nothing and moves no schedule.
THEOREM DryRunIsHarmlessHolds == Spec => DryRunIsHarmless
<1>1. ASSUME IInv, [Next]_vars
      PROVE  DryStep
  <2> SUFFICES ASSUME NEW c \in Calls, job[c].dry, pc[c] \in Running
               PROVE  /\ payout'[c] = "unsent" /\ record'[c] = "unsent"
                      /\ run'[c] \in {"none", "simulated"}
                      /\ pc'[c] # pc[c] => row' = row
    BY DEF DryStep
  <2>1. /\ pc[c] \in {"schedule", "lines", "bind", "insert"}
        /\ run[c] = "none" /\ payout[c] = "unsent" /\ record[c] = "unsent"
    BY <1>1 DEF IInv, CallsInv, PlaceInv, BeforeInsert, InPlace, Settling, Running
  <2> USE <2>1 DEF Goto, dbVars, callVars, contractVars
  <2>2. ASSUME NEW d \in Calls, CallStep(d)
        PROVE  /\ payout'[c] = "unsent" /\ record'[c] = "unsent"
               /\ run'[c] \in {"none", "simulated"}
               /\ pc'[c] # pc[c] => row' = row
    <3> USE <1>1 DEF IInv, CallTypes
    <3>1. CASE ReadSchedule(d) \/ BuildRunLines(d) \/ BindForAction(d)
               \/ InsertRun(d) \/ DbFault(d)
      BY <3>1 DEF ReadSchedule, BuildRunLines, BindForAction, InsertRun,
                  InsertedStatus, DbFault
    <3>2. CASE SubmitPayout(d) \/ PayoutConfirmed(d) \/ PayoutFailed(d)
      BY <3>2 DEF SubmitPayout, PayoutConfirmed, PayoutFailed
    <3>3. CASE SubmitRecord(d) \/ RecordRefused(d) \/ RecordConfirmed(d)
               \/ RecordFailed(d)
      BY <3>3 DEF SubmitRecord, RecordRefused, RecordConfirmed, RecordFailed
    <3>4. CASE MarkFailed(d) \/ BackOff(d) \/ MarkCompleted(d) \/ Advance(d)
      BY <3>4 DEF MarkFailed, BackOff, MarkCompleted, Advance
    <3>5. QED
      BY <2>2, <3>1, <3>2, <3>3, <3>4 DEF CallStep
  <2>3. ASSUME NEW d \in Calls, ChainStep(d)
        PROVE  /\ payout'[c] = "unsent" /\ record'[c] = "unsent"
               /\ run'[c] \in {"none", "simulated"}
               /\ pc'[c] # pc[c] => row' = row
    BY <1>1, <2>3 DEF IInv, CallTypes, ChainStep, PayoutLands, PayoutDropped,
                      RecordLands, RecordDropped
  <2>4. ASSUME Crash \/ Tick \/ TenantStep \/ UNCHANGED vars
        PROVE  /\ payout'[c] = "unsent" /\ record'[c] = "unsent"
               /\ run'[c] \in {"none", "simulated"}
               /\ pc'[c] # pc[c] => row' = row
    BY <2>4 DEF Crash, Tick, TenantStep, Publish, SaveSchedule, ChangeStaff, vars
  <2>5. ASSUME NEW d \in Calls, NEW s \in Schedules,
               NEW actor \in {"user", "agent"}, NEW dry \in BOOLEAN,
               Receive(d, s, actor, dry)
        PROVE  /\ payout'[c] = "unsent" /\ record'[c] = "unsent"
               /\ run'[c] \in {"none", "simulated"}
               /\ pc'[c] # pc[c] => row' = row
    BY <2>5 DEF Receive
  <2>6. QED
    BY <1>1, <2>2, <2>3, <2>4, <2>5 DEF Next, SystemStep
<1>2. QED
  BY <1>1, InvariantHolds, PTL DEF Spec, DryRunIsHarmless, DryStep

-----------------------------------------------------------------------------
(* Paydays left behind.                                                    *)

\* Of each of the first n paydays of schedule s a run has completed.
Covered(s, n) ==
  \A k \in 0 .. n - 1 : \E c \in Calls :
    job[c].sched = s /\ snap[c].occ = k /\ run[c] = "completed"

\* Covered(s, n) after the step.
CoveredNext(s, n) ==
  \A k \in 0 .. n - 1 : \E c \in Calls :
    job'[c].sched = s /\ snap'[c].occ = k /\ run'[c] = "completed"

\* What a row and every copy of it a call has read have left behind is covered, and
\* only a call whose run has completed is about to move a row on.
CoverInv ==
  /\ \A s \in Schedules \ redated : Covered(s, row[s].occ)
  /\ \A c \in Calls :
       /\ pc[c] \in {"idle", "schedule"} => snap[c].occ = 0
       /\ job[c].sched \notin redated => Covered(job[c].sched, snap[c].occ)
       /\ pc[c] = "advance" => run[c] = "completed"
       /\ run[c] = "completed" => pc[c] \in {"advance"} \cup Finished

\* CoverInv after the step.
CoverInvNext ==
  /\ \A s \in Schedules \ redated' : CoveredNext(s, row'[s].occ)
  /\ \A c \in Calls :
       /\ pc'[c] \in {"idle", "schedule"} => snap'[c].occ = 0
       /\ job'[c].sched \notin redated' => CoveredNext(job'[c].sched, snap'[c].occ)
       /\ pc'[c] = "advance" => run'[c] = "completed"
       /\ run'[c] = "completed" => pc'[c] \in {"advance"} \cup Finished

LEMMA CoverInvPrimed == CoverInvNext => CoverInv'
  BY DEF CoverInvNext, CoverInv, CoveredNext, Covered

\* A payday that is covered stays so: a completed run keeps its job, what it read
\* and its status.
LEMMA CoveredStays ==
  ASSUME TypeOK, CoverInv, [Next]_vars, NEW s \in Schedules, NEW n \in Nat,
         Covered(s, n)
  PROVE  CoveredNext(s, n)
<1>1. ASSUME NEW c \in Calls, run[c] = "completed"
      PROVE  run'[c] = "completed" /\ job'[c] = job[c] /\ snap'[c] = snap[c]
  <2>1. pc[c] \in {"advance"} \cup Finished
    BY <1>1 DEF CoverInv
  <2> USE <1>1, <2>1 DEF TypeOK, Goto, Finished, dbVars, callVars
  <2>2. ASSUME NEW d \in Calls, CallStep(d)
        PROVE  run'[c] = "completed" /\ job'[c] = job[c] /\ snap'[c] = snap[c]
    BY <2>2 DEF CallStep, ReadSchedule, BuildRunLines, BindForAction, InsertRun,
                SubmitPayout, PayoutConfirmed, PayoutFailed, SubmitRecord,
                RecordRefused, RecordConfirmed, RecordFailed, MarkFailed, BackOff,
                MarkCompleted, Advance, DbFault
  <2>3. ASSUME NEW d \in Calls, ChainStep(d)
        PROVE  run'[c] = "completed" /\ job'[c] = job[c] /\ snap'[c] = snap[c]
    BY <2>3 DEF ChainStep, PayoutLands, PayoutDropped, RecordLands, RecordDropped
  <2>4. ASSUME NEW d \in Calls, NEW t \in Schedules,
               NEW actor \in {"user", "agent"}, NEW dry \in BOOLEAN,
               Receive(d, t, actor, dry)
        PROVE  run'[c] = "completed" /\ job'[c] = job[c] /\ snap'[c] = snap[c]
    BY <2>4 DEF Receive
  <2>5. CASE Crash \/ Tick \/ TenantStep
    BY <2>5 DEF Crash, Tick, TenantStep, Publish, SaveSchedule, ChangeStaff
  <2>6. CASE UNCHANGED vars
    BY <2>6 DEF vars
  <2>7. QED
    BY <2>2, <2>3, <2>4, <2>5, <2>6 DEF Next, SystemStep
<1>2. QED
  BY <1>1 DEF Covered, CoveredNext

\* Every step of a call leaves what rows and copies have passed covered.
LEMMA CallStepKeepsCover ==
  ASSUME TypeOK, TypeOK', IInv, CoverInv, NEW c \in Calls, CallStep(c), env' = env
  PROVE  CoverInv'
<1> USE DEF Goto, dbVars, callVars
<1>0. /\ pc \in [Calls -> {"idle"} \cup Running \cup Finished]
      /\ run \in [Calls -> RunStatus] /\ snap \in [Calls -> Row]
      /\ row \in [Schedules -> Row] /\ job[c].sched \in Schedules /\ now \in Nat
      /\ \A s \in Schedules : row[s].occ \in Nat
      /\ \A d \in Calls : job[d].sched \in Schedules /\ snap[d].occ \in Nat
  BY DEF TypeOK, Job, Row
<1>1. \A s \in Schedules, n \in Nat : Covered(s, n) => CoveredNext(s, n)
  <2>1. [Next]_vars
    BY DEF Next, SystemStep
  <2>2. QED
    BY <2>1, CoveredStays
<1>2. /\ job' = job /\ redated' = redated
      /\ \A d \in Calls \ {c} :
           pc'[d] = pc[d] /\ snap'[d] = snap[d] /\ run'[d] = run[d]
  BY <1>0
     DEF CallStep, ReadSchedule, BuildRunLines, BindForAction, InsertRun,
         SubmitPayout, PayoutConfirmed, PayoutFailed, SubmitRecord,
         RecordRefused, RecordConfirmed, RecordFailed, MarkFailed, BackOff,
         MarkCompleted, Advance, DbFault
<1>3. SUFFICES
        /\ \A s \in Schedules \ redated : CoveredNext(s, row'[s].occ)
        /\ job[c].sched \notin redated => CoveredNext(job[c].sched, snap'[c].occ)
        /\ pc'[c] \in {"idle", "schedule"} => snap'[c].occ = 0
        /\ pc'[c] = "advance" => run'[c] = "completed"
        /\ run'[c] = "completed" => pc'[c] \in {"advance"} \cup Finished
  BY <1>0, <1>1, <1>2, CoverInvPrimed DEF CoverInv, CoverInvNext
<1>4. CASE ReadSchedule(c)
  <2>1. /\ snap'[c] = row[job[c].sched] /\ row' = row /\ run' = run
        /\ pc'[c] = "lines" /\ run[c] = "none"
    BY <1>0, <1>4 DEF ReadSchedule, IInv, CallsInv, PlaceInv, BeforeInsert
  <2>2. QED
    BY <1>0, <1>1, <2>1 DEF CoverInv
<1>5. CASE BackOff(c) \/ Advance(c)
  <2>1. /\ snap' = snap /\ run' = run /\ pc'[c] \in Finished
        /\ pc'[c] \notin {"idle", "schedule", "advance"}
    BY <1>0, <1>5 DEF BackOff, Advance, Finished
  <2>2. ASSUME job[c].sched \notin redated
        PROVE  CoveredNext(job[c].sched, row'[job[c].sched].occ)
    <3>1. CoveredNext(job[c].sched, snap[c].occ)
      BY <1>0, <1>1, <2>2 DEF CoverInv
    <3>2. CASE BackOff(c)
      <4>1. row'[job[c].sched].occ = snap[c].occ
        BY <1>0, <3>2, OccurrenceWritten DEF BackOff
      <4>2. QED
        BY <3>1, <4>1
    <3>3. CASE Advance(c)
      <4>1. row'[job[c].sched].occ = snap[c].occ + 1
        BY <1>0, <3>3, OccurrenceWritten DEF Advance
      <4>2. run'[c] = "completed"
        BY <2>1, <3>3 DEF Advance, CoverInv
      <4>3. QED
        <5>1. /\ snap[c].occ \in Nat /\ snap'[c].occ = snap[c].occ
              /\ job'[c].sched = job[c].sched
          BY <1>0, <1>2, <2>1
        <5>2. \A k \in 0 .. row'[job[c].sched].occ - 1 :
                k \in 0 .. snap[c].occ - 1 \/ k = snap[c].occ
          BY <4>1, <5>1
        <5>3. QED
          BY <3>1, <4>2, <5>1, <5>2 DEF CoveredNext
    <3>4. QED
      BY <1>5, <3>2, <3>3
  <2>3. \A s \in Schedules : s # job[c].sched => row'[s] = row[s]
    BY <1>0, <1>5 DEF BackOff, Advance
  <2>4. QED
    BY <1>0, <1>1, <2>1, <2>2, <2>3 DEF CoverInv
<1>6. CASE ~ReadSchedule(c) /\ ~BackOff(c) /\ ~Advance(c)
  <2>1. /\ snap' = snap /\ row' = row /\ pc'[c] \notin {"idle", "schedule"}
        /\ pc'[c] = "advance" => run'[c] = "completed"
    BY <1>0, <1>6
       DEF CallStep, BuildRunLines, BindForAction, InsertRun, AfterInsert, SettleFrom,
           SubmitPayout, PayoutConfirmed, PayoutFailed, SubmitRecord,
           RecordRefused, RecordConfirmed, RecordFailed, MarkFailed,
           MarkCompleted, DbFault
  <2>2. run'[c] = "completed" => pc'[c] \in {"advance"} \cup Finished
    <3>1. run[c] = "completed" => pc[c] = "advance" \/ pc[c] \in Finished
      BY DEF CoverInv
    <3>2. QED
      BY <1>0, <1>6, <3>1
         DEF CallStep, BuildRunLines, BindForAction, InsertRun, InsertedStatus,
             SubmitPayout, PayoutConfirmed, PayoutFailed, SubmitRecord,
             RecordRefused, RecordConfirmed, RecordFailed, MarkFailed,
             MarkCompleted, DbFault, Finished
  <2>3. QED
    BY <1>0, <1>1, <2>1, <2>2 DEF CoverInv
<1>7. QED
  BY <1>4, <1>5, <1>6

\* A schedule leaves a payday behind only once a run of it has completed, whatever
\* calls overlap, fail or die, unless a user moves its date.
THEOREM NoPaydaySkippedHolds == Spec => []NoPaydaySkipped
<1>1. Init => CoverInv
  <2>1. Init => \A s \in Schedules : Covered(s, 0)
    BY DEF Covered
  <2>2. QED
    BY <2>1, AnyJobIsJob DEF Init, CoverInv, NewRow, AnyRow, Job
<1>2. ASSUME TypeOK, TypeOK', IInv, CoverInv, [Next]_vars
      PROVE  CoverInv'
  <2>0. /\ \A s \in Schedules : row[s].occ \in Nat
        /\ \A d \in Calls : job[d].sched \in Schedules /\ snap[d].occ \in Nat
    BY <1>2 DEF TypeOK, Job, Row
  <2>1. \A s \in Schedules, n \in Nat : Covered(s, n) => CoveredNext(s, n)
    BY <1>2, CoveredStays
  <2>2. ASSUME NEW c \in Calls, CallStep(c), env' = env
        PROVE  CoverInv'
    BY <1>2, <2>2, CallStepKeepsCover
  <2>3. ASSUME UNCHANGED <<run, job, snap>>, redated \subseteq redated',
               \A s \in Schedules \ redated' : row'[s].occ = row[s].occ,
               \A c \in Calls : pc'[c] # pc[c] => pc[c] \in Running /\ pc'[c] = "crashed"
        PROVE  CoverInv'
    BY <1>2, <2>0, <2>1, <2>3, CoverInvPrimed DEF CoverInv, CoverInvNext, Finished
  <2>4. ASSUME NEW c \in Calls, ChainStep(c)
        PROVE  CoverInv'
    BY <2>3, <2>4 DEF ChainStep, PayoutLands, PayoutDropped, RecordLands,
                      RecordDropped, dbVars, callVars
  <2>5. ASSUME NEW c \in Calls, NEW s \in Schedules,
               NEW actor \in {"user", "agent"}, NEW dry \in BOOLEAN,
               Receive(c, s, actor, dry)
        PROVE  CoverInv'
    <3>1. /\ pc[c] = "idle" /\ pc'[c] \in {"schedule", "threw"}
          /\ job'[c].sched = s /\ UNCHANGED <<row, redated, run, snap>>
          /\ \A d \in Calls \ {c} : pc'[d] = pc[d] /\ job'[d] = job[d]
      BY <1>2, <2>5 DEF Receive, Goto, TypeOK, dbVars
    <3>2. snap[c].occ = 0 /\ run[c] # "completed"
      BY <1>2, <3>1 DEF CoverInv, Finished
    <3>3. CoveredNext(s, 0)
      BY DEF CoveredNext
    <3>4. QED
      BY <1>2, <2>0, <2>1, <3>1, <3>2, <3>3, CoverInvPrimed
         DEF CoverInv, CoverInvNext, Finished
  <2>6. CASE Crash
    BY <2>3, <2>6 DEF Crash, dbVars
  <2>7. CASE Tick
    BY <2>3, <2>7 DEF Tick, dbVars, callVars
  <2>8. CASE TenantStep
    <3>1. UNCHANGED <<run, job, snap, pc>>
      BY <2>8 DEF TenantStep, Publish, SaveSchedule, ChangeStaff, callVars
    <3>2. QED
      BY <1>2, <2>3, <2>8, <3>1, TenantKeepsDates
  <2>9. CASE UNCHANGED vars
    BY <2>3, <2>9 DEF vars, dbVars, callVars
  <2>10. QED
    BY <1>2, <2>2, <2>4, <2>5, <2>6, <2>7, <2>8, <2>9 DEF Next, SystemStep
<1>3. CoverInv => NoPaydaySkipped
  BY DEF CoverInv, Covered, NoPaydaySkipped
<1>4. QED
  BY <1>1, <1>2, <1>3, TypesHold, InvariantHolds, PTL DEF Spec

-----------------------------------------------------------------------------
(* Mainnet.                                                                *)

\* On mainnet no call gets past the guard.
Refused == Network = "mainnet" =>
  /\ pc \in [Calls -> {"idle", "threw"}]
  /\ run = [c \in Calls |-> "none"]
  /\ \A c \in Calls : payout[c] = "unsent" /\ record[c] = "unsent"
  /\ \A s \in Schedules \ redated : row[s].occ = 0 /\ row[s].due = 0

\* On mainnet no call reports a settlement or moves a schedule: only users do.
THEOREM MainnetReportsNothingHolds == Spec => []MainnetReportsNothing
<1>1. Init => Refused
  BY DEF Init, Refused, NewRow
<1>2. TypeOK /\ Refused /\ [Next]_vars => Refused'
  <2> SUFFICES ASSUME TypeOK, Refused, [Next]_vars, Network = "mainnet"
               PROVE  Refused'
    BY DEF Refused, Network, Next, vars
  <2> USE DEF Refused, dbVars, callVars, contractVars, Goto
  <2>1. ASSUME NEW d \in Calls
        PROVE  ~CallStep(d) /\ ~ChainStep(d)
    BY DEF CallStep, ReadSchedule, BuildRunLines, BindForAction, InsertRun,
           SubmitPayout, PayoutConfirmed, PayoutFailed, SubmitRecord,
           RecordRefused, RecordConfirmed, RecordFailed, MarkFailed, BackOff,
           MarkCompleted, Advance, DbFault, ChainStep, PayoutLands,
           PayoutDropped, RecordLands, RecordDropped
  <2>2. ~Crash
    BY DEF Crash, Running
  <2>3. CASE Tick
    BY <2>3 DEF Tick
  <2>4. CASE TenantStep
    <3>1. /\ UNCHANGED <<pc, run, payout, record>>
          /\ redated \subseteq redated'
          /\ \A s \in Schedules \ redated' :
               row'[s].occ = row[s].occ /\ row'[s].due = row[s].due
      BY <2>4, TenantKeepsDates DEF TenantStep, Publish, SaveSchedule, ChangeStaff
    <3>2. QED
      BY <3>1
  <2>5. ASSUME NEW c \in Calls, NEW s \in Schedules,
               NEW actor \in {"user", "agent"}, NEW dry \in BOOLEAN,
               Receive(c, s, actor, dry)
        PROVE  Refused'
    BY <2>5 DEF Receive, RefusedOnNetwork
  <2>6. CASE UNCHANGED vars
    BY <2>6 DEF vars
  <2>7. QED
    BY <2>1, <2>2, <2>3, <2>4, <2>5, <2>6 DEF Next, SystemStep
<1>3. Refused => MainnetReportsNothing
  BY DEF Refused, MainnetReportsNothing
<1>4. QED
  BY <1>1, <1>2, <1>3, TypesHold, PTL DEF Spec

-----------------------------------------------------------------------------
(* The worker and the users.                                               *)

\* A tick queues schedules of the tenant, and the worker awaits a call only for
\* the head of its queue.
QueueInv ==
  /\ queue \in Seq(Schedules)
  /\ serving # NoCall => queue # <<>>

\* The list a tick makes is a sequence of the schedules that are due.
LEMMA DueListIsSequence ==
  ASSUME NEW q \in ByDueDate(Due)
  PROVE  q \in Seq(Schedules)
<1>1. Due \subseteq Schedules
  BY DEF Due
<1>2. Cardinality(Due) \in Nat
  BY <1>1, CadenceAssumption, FS_Subset, FS_CardinalityType
<1>3. q \in [1..Cardinality(Due) -> Schedules]
  BY <1>1 DEF ByDueDate
<1>4. QED
  BY <1>2, <1>3

\* No step of the composition breaks the queue.
LEMMA QueueInvPreserved ==
  ASSUME QueueInv, [WorkerNext]_allVars
  PROVE  QueueInv'
<1> USE DEF QueueInv
<1>1. CASE WorkerTick
  BY <1>1, DueListIsSequence DEF WorkerTick, WorkerIdle
<1>2. CASE TriggerRun
  BY <1>2 DEF TriggerRun
<1>3. CASE RunTriggered
  BY <1>3 DEF RunTriggered
<1>4. CASE TickFailed \/ WorkerRestart
  <2>1. queue' = <<>> /\ serving' = NoCall
    BY <1>4 DEF TickFailed, WorkerRestart
  <2>2. <<>> \in Seq(Schedules)
    OBVIOUS
  <2>3. QED
    BY <2>1, <2>2
<1>5. CASE UNCHANGED workerVars
  BY <1>5 DEF workerVars
<1>6. QED
  BY <1>1, <1>2, <1>3, <1>4, <1>5
     DEF WorkerNext, WorkerStep, UserRun, allVars, workerVars

\* Each step of the composition is a step of PayrollRuns or leaves it alone.
LEMMA StepSimulated ==
  ASSUME QueueInv, [WorkerNext]_allVars
  PROVE  [Next]_vars
<1>1. CASE WorkerTick \/ RunTriggered \/ TickFailed \/ WorkerRestart
  BY <1>1 DEF WorkerTick, RunTriggered, TickFailed, WorkerRestart
<1>2. CASE TriggerRun /\ UNCHANGED env
  <2>1. PICK c \in Calls \ UserCalls :
          Receive(c, Head(queue), "agent", AgentDryRun)
    BY <1>2 DEF TriggerRun
  <2>2. Head(queue) \in Schedules
    BY <1>2 DEF TriggerRun, QueueInv
  <2>3. QED
    BY <1>2, <2>1, <2>2, WorkerAssumption DEF Next
<1>3. CASE UserRun /\ UNCHANGED env
  <2>1. PICK c \in UserCalls, s \in Schedules, dry \in BOOLEAN :
          Receive(c, s, "user", dry)
    BY <1>3 DEF UserRun
  <2>2. QED
    BY <1>3, <2>1, WorkerAssumption DEF Next
<1>4. CASE (SystemStep \/ TenantStep) /\ UNCHANGED env
  BY <1>4 DEF Next
<1>5. CASE UNCHANGED allVars
  BY <1>5 DEF allVars
<1>6. QED
  BY <1>1, <1>2, <1>3, <1>4, <1>5 DEF WorkerNext, WorkerStep

\* A behaviour of the composition is one of PayrollRuns, whose invariants therefore
\* hold of it.
LEMMA WorkerRuns == WorkerSpec => Spec
<1>1. WorkerInit => Init /\ QueueInv
  BY DEF WorkerInit, QueueInv
<1>2. QueueInv /\ [WorkerNext]_allVars => QueueInv' /\ [Next]_vars
  BY QueueInvPreserved, StepSimulated
<1>3. QED
  BY <1>1, <1>2, PTL DEF WorkerSpec, Spec

\* So no tick, retry, restart or user's run ever leaves a record of a payroll on
\* the contract whose wallets were not paid.
THEOREM WorkerRecordImpliesPaid == WorkerSpec => []RecordImpliesPaid
<1>1. Spec => []RecordImpliesPaid
  BY RecordImpliesPaidHolds
<1>2. QED
  BY <1>1, WorkerRuns

\* Nor does a schedule leave behind a payday of which no run has completed, however
\* often the worker restarts while its calls go on, and whatever users run beside it.
THEOREM WorkerSkipsNoPayday == WorkerSpec => []NoPaydaySkipped
<1>1. Spec => []NoPaydaySkipped
  BY NoPaydaySkippedHolds
<1>2. QED
  BY <1>1, WorkerRuns

\* Nor do they make the contract anything but the ledger it promises to be.
THEOREM WorkerKeepsLedger == WorkerSpec => Contract!ImplementsLedger
<1>1. Spec => Contract!ImplementsLedger
  BY ApiKeepsLedger
<1>2. QED
  BY <1>1, WorkerRuns

-----------------------------------------------------------------------------
(* A worker that has the API to itself: no user presses "run" and the      *)
(* worker never restarts with a call in progress.  What users save and     *)
(* switch off meanwhile, how often the worker retries and, where a theorem *)
(* does not name them, what may fail, stays open.                          *)
(*                                                                         *)
(* Retries draw a new run id, so nothing but the schedule's row tells that *)
(* a payday is done.  The invariant follows the row: from the list of a    *)
(* tick to the read in executeRun, and from that read to the write that    *)
(* moves it on or backs it off.                                            *)

\* The calls that have read their schedule and not yet written it back.
Midway(c) == pc[c] \in Running \ {"schedule"}

\* One call at a time: the one the worker awaits, for the head of its queue.
ServingInv ==
  /\ \A c \in Calls : pc[c] \in Running => c = serving
  /\ serving # NoCall =>
       /\ serving \in Calls /\ pc[serving] # "idle" /\ queue # <<>>
       /\ job[serving].sched = Head(queue)

\* A tick's list names a schedule once, and what it names stays due until its
\* own call has written the row or a user has moved the date.
QueueDue ==
  /\ queue \in Seq(Schedules)
  /\ \A i, j \in 1 .. Len(queue) : i # j => queue[i] # queue[j]
  /\ \A i \in 1 .. Len(queue) :
       /\ queue[i] \notin redated
       /\ i = 1 /\ serving # NoCall => pc[serving] \in Running
       => row[queue[i]].due <= now

\* What a call read of its row is still what the row says of its date, and a call
\* that reported success left the row at a later payday, unless a user has moved
\* the date.
RowInv ==
  \A c \in Calls :
    /\ pc[c] \in {"idle", "schedule"} => snap[c].occ = 0
    /\ DateKept(c) =>
         /\ snap[c].occ <= row[job[c].sched].occ
         /\ Midway(c) => snap[c].occ = row[job[c].sched].occ /\ snap[c].due <= now
         /\ pc[c] = "returned" /\ ~job[c].dry => row[job[c].sched].occ > snap[c].occ
         /\ payout[c] # "unsent" => snap[c].due <= now

\* The row has left the payday call c worked on.
Served(c) == DateKept(c) => row[job[c].sched].occ > snap[c].occ

CompletedInv ==
  Faults \cap {"crash", "db"} = {} =>
    \A c \in Calls : run[c] = "completed" => pc[c] = "advance" \/ Served(c)

\* A payout whose outcome is known before the call goes on, and a contract that
\* takes every record it is sent.
PaidCall(c) ==
  /\ payout[c] = "pending" => pc[c] = "payoutWait"
  /\ record[c] # "dropped"
  /\ pc[c] \in {"payout", "payoutWait"} => "wallet" \in payees[c]
  /\ payout[c] = "landed" =>
       /\ "wallet" \in payees[c]
       /\ \/ pc[c] \in {"payoutWait", "record", "recordWait", "markCompleted",
                        "advance"}
          \/ Served(c)

PaidInv ==
  Faults \subseteq {"payout_rejected"} =>
    admin = Platform /\ \A c \in Calls : PaidCall(c)

SoleInv == ServingInv /\ QueueDue /\ RowInv

\* What executeRun keeps whoever calls it, in one name.
Base == TypeOK /\ IInv

-----------------------------------------------------------------------------

LEMMA BaseHolds == WorkerSpec => []Base
<1>1. Spec => []Base
  BY TypesHold, InvariantHolds, PTL DEF Base
<1>2. QED
  BY <1>1, WorkerRuns

\* What a step of a call may do to the rows, and to the other calls.
LEMMA CallStepShape ==
  ASSUME Base, RowInv, NEW c \in Calls, CallStep(c)
  PROVE  /\ pc[c] \in Running /\ job' = job /\ now' = now
         /\ \E l \in Running \cup Finished : pc' = [pc EXCEPT ![c] = l]
         /\ pc'[c] \notin {"idle", "schedule"} /\ redated' = redated
         /\ pc[c] # "schedule" => snap' = snap
         /\ \A d \in Calls \ {c} :
              /\ pc'[d] = pc[d] /\ snap'[d] = snap[d] /\ run'[d] = run[d]
              /\ payout'[d] = payout[d] /\ record'[d] = record[d]
              /\ payees'[d] = payees[d]
         /\ \A s \in Schedules :
              /\ s \notin redated => row'[s].occ >= row[s].occ
              /\ s # job[c].sched => row'[s] = row[s]
         /\ row' # row => pc[c] \in {"backoff", "advance"} /\ pc'[c] \in Finished
<1> USE DEF Goto, dbVars, callVars, contractVars, Running, Finished
<1>0. /\ pc \in [Calls -> {"idle"} \cup Running \cup Finished]
      /\ row \in [Schedules -> Row] /\ job[c].sched \in Schedules
      /\ snap \in [Calls -> Row] /\ now \in Nat
      /\ run \in [Calls -> RunStatus] /\ payees \in [Calls -> Lines]
      /\ payout \in [Calls -> TxStatus] /\ record \in [Calls -> TxStatus]
      /\ \A s \in Schedules : row[s].occ \in Nat
  BY DEF Base, TypeOK, Job, Row
<1>1. CASE \/ ReadSchedule(c) \/ BuildRunLines(c) \/ BindForAction(c)
           \/ InsertRun(c)
  BY <1>0, <1>1
     DEF ReadSchedule, BuildRunLines, BindForAction, InsertRun, AfterInsert, SettleFrom
<1>2. CASE \/ SubmitPayout(c) \/ PayoutConfirmed(c) \/ PayoutFailed(c)
           \/ SubmitRecord(c) \/ RecordRefused(c) \/ RecordConfirmed(c)
           \/ RecordFailed(c)
  BY <1>0, <1>2
     DEF SubmitPayout, PayoutConfirmed, PayoutFailed, SubmitRecord, RecordRefused,
         RecordConfirmed, RecordFailed
<1>3. CASE MarkFailed(c) \/ MarkCompleted(c) \/ DbFault(c)
  BY <1>0, <1>3 DEF MarkFailed, MarkCompleted, DbFault
<1>4. CASE BackOff(c) \/ Advance(c)
  <2>1. PICK r \in Row :
          /\ row' = [row EXCEPT ![job[c].sched] = r] /\ r.occ >= snap[c].occ
    <3>1. snap[c].occ \in Nat /\ snap[c] \in Row
      BY <1>0 DEF Row
    <3>2. QED
      BY <1>0, <1>4, <3>1, OccurrenceWritten DEF BackOff, Advance
  <2>2. pc[c] \in {"backoff", "advance"}
    BY <1>4 DEF BackOff, Advance
  <2>3. DateKept(c) => snap[c].occ = row[job[c].sched].occ
    BY <2>2 DEF RowInv, Midway
  <2>4. \A s \in Schedules \ redated : row'[s].occ >= row[s].occ
    BY <1>0, <2>1, <2>3 DEF DateKept
  <2>5. QED
    BY <1>0, <1>4, <2>1, <2>2, <2>4 DEF BackOff, Advance
<1>5. QED
  BY <1>1, <1>2, <1>3, <1>4 DEF CallStep

\* The call in progress keeps to the row it read, if no user moves its date.
LEMMA OwnRowStep ==
  ASSUME Base, RowInv, NEW c \in Calls, CallStep(c), DateKept(c),
         pc[c] = "schedule" => row[job[c].sched].due <= now
  PROVE  /\ snap'[c].occ <= row'[job[c].sched].occ
         /\ pc'[c] \in Running \ {"schedule"} =>
              snap'[c].occ = row'[job[c].sched].occ /\ snap'[c].due <= now
         /\ pc'[c] = "returned" /\ ~job[c].dry =>
              row'[job[c].sched].occ > snap'[c].occ
         /\ payout'[c] # "unsent" => snap'[c].due <= now
<1> USE DEF Goto, dbVars, callVars, contractVars, Running, Finished
<1>0. /\ pc \in [Calls -> {"idle"} \cup Running \cup Finished]
      /\ row \in [Schedules -> Row] /\ job[c].sched \in Schedules
      /\ snap \in [Calls -> Row] /\ snap[c] \in Row /\ snap[c].occ \in Nat
      /\ now \in Nat /\ payout \in [Calls -> TxStatus]
      /\ row[job[c].sched].occ \in Nat
  BY DEF Base, TypeOK, Job, Row
<1>1. /\ Midway(c) => snap[c].occ = row[job[c].sched].occ /\ snap[c].due <= now
      /\ snap[c].occ <= row[job[c].sched].occ
      /\ payout[c] # "unsent" => snap[c].due <= now
      /\ pc[c] = "schedule" => payout[c] = "unsent" /\ snap[c].occ = 0
  BY DEF RowInv, Base, IInv, CallsInv, PlaceInv, BeforeInsert
<1>2. CASE ReadSchedule(c)
  <2>1. /\ pc[c] = "schedule" /\ pc'[c] = "lines"
        /\ snap'[c] = row[job[c].sched] /\ row' = row /\ payout' = payout
    BY <1>0, <1>2 DEF ReadSchedule
  <2>2. QED
    BY <1>0, <1>1, <2>1
<1>3. CASE BuildRunLines(c) \/ BindForAction(c) \/ InsertRun(c)
  <2>1. /\ pc[c] \in {"lines", "bind", "insert"} /\ snap' = snap /\ row' = row
        /\ payout' = payout
        /\ pc'[c] = "returned" => job[c].dry
        /\ pc'[c] \notin {"idle", "schedule"}
    BY <1>0, <1>3
       DEF BuildRunLines, BindForAction, InsertRun, AfterInsert, SettleFrom
  <2>2. QED
    BY <1>0, <1>1, <2>1 DEF Midway
<1>4. CASE \/ SubmitPayout(c) \/ PayoutConfirmed(c) \/ PayoutFailed(c)
           \/ SubmitRecord(c) \/ RecordRefused(c) \/ RecordConfirmed(c)
           \/ RecordFailed(c) \/ MarkFailed(c) \/ MarkCompleted(c)
  <2>1. /\ Midway(c) /\ snap' = snap /\ row' = row
        /\ pc'[c] \in {"payoutWait", "record", "markFailed", "recordWait",
                       "markCompleted", "backoff", "advance"}
    BY <1>0, <1>4
       DEF SubmitPayout, PayoutConfirmed, PayoutFailed, SubmitRecord, RecordRefused,
           RecordConfirmed, RecordFailed, MarkFailed, MarkCompleted, Midway
  <2>2. QED
    BY <1>0, <1>1, <2>1
<1>5. CASE DbFault(c)
  <2>1. pc'[c] = "threw" /\ snap' = snap /\ row' = row /\ payout' = payout
    BY <1>0, <1>5 DEF DbFault
  <2>2. QED
    BY <1>0, <1>1, <2>1
<1>6. CASE BackOff(c)
  <2>1. /\ pc[c] = "backoff" /\ pc'[c] = "threw" /\ snap' = snap /\ payout' = payout
        /\ row' = [row EXCEPT ![job[c].sched] = BackedOff(snap[c])]
    BY <1>0, <1>6 DEF BackOff
  <2>2. row'[job[c].sched].occ = snap[c].occ
    BY <1>0, <2>1, OccurrenceWritten
  <2>3. QED
    BY <1>0, <1>1, <2>1, <2>2
<1>7. CASE Advance(c)
  <2>1. /\ pc[c] = "advance" /\ pc'[c] = "returned" /\ snap' = snap
        /\ payout' = payout
        /\ row' = [row EXCEPT ![job[c].sched] = Advanced(snap[c])]
    BY <1>0, <1>7 DEF Advance
  <2>2. row'[job[c].sched].occ = snap[c].occ + 1
    BY <1>0, <2>1, OccurrenceWritten
  <2>3. QED
    BY <1>0, <1>1, <2>1, <2>2
<1>8. QED
  BY <1>2, <1>3, <1>4, <1>5, <1>6, <1>7 DEF CallStep

\* A step of the call in progress, which is the one the worker awaits.
LEMMA SoleCallStep ==
  ASSUME Base, SoleInv, NEW c \in Calls, CallStep(c), UNCHANGED workerVars
  PROVE  SoleInv'
<1>1. /\ pc[c] \in Running /\ job' = job /\ now' = now
      /\ pc'[c] \notin {"idle", "schedule"} /\ redated' = redated
      /\ \A d \in Calls \ {c} :
           /\ pc'[d] = pc[d] /\ snap'[d] = snap[d] /\ payout'[d] = payout[d]
      /\ \A s \in Schedules :
           /\ s \notin redated => row'[s].occ >= row[s].occ
           /\ s # job[c].sched => row'[s] = row[s]
      /\ row' # row => pc'[c] \in Finished
  BY CallStepShape DEF SoleInv
<1>2. PICK l \in Running \cup Finished : pc' = [pc EXCEPT ![c] = l]
  BY CallStepShape DEF SoleInv
<1>3. /\ c = serving /\ serving # NoCall /\ queue # <<>>
      /\ job[c].sched = Head(queue) /\ pc'[c] = l /\ pc'[c] # "idle"
      /\ queue' = queue /\ serving' = serving
      /\ \A d \in Calls : pc[d] \in Running => d = c
  BY <1>1, <1>2, WorkerAssumption
     DEF SoleInv, ServingInv, Base, TypeOK, Running, Finished, workerVars
<1>4. ServingInv'
  BY <1>1, <1>3 DEF SoleInv, ServingInv
<1>5. /\ queue \in Seq(Schedules) /\ 1 \in 1 .. Len(queue)
      /\ queue[1] = job[c].sched /\ now \in Nat
      /\ \A i \in 1 .. Len(queue) : queue[i] \in Schedules
  BY <1>3 DEF SoleInv, QueueDue, Base, TypeOK
<1>6. QueueDue'
  <2> SUFFICES ASSUME NEW i \in 1 .. Len(queue),
                      i = 1 => pc'[c] \in Running, queue[i] \notin redated
               PROVE  row'[queue[i]].due <= now
    BY <1>1, <1>3 DEF QueueDue, SoleInv
  <2>1. row[queue[i]].due <= now
    BY <1>1, <1>3 DEF QueueDue, SoleInv
  <2>2. CASE i = 1
    <3>1. row' = row
      BY <1>1, <2>2 DEF Running, Finished
    <3>2. QED
      BY <2>1, <3>1
  <2>3. CASE i # 1
    <3>1. queue[i] # job[c].sched
      BY <1>5, <2>3 DEF QueueDue, SoleInv
    <3>2. QED
      BY <1>1, <1>5, <2>1, <3>1
  <2>4. QED
    BY <2>2, <2>3
<1>7. DateKept(c) => row[job[c].sched].due <= now
  BY <1>1, <1>3, <1>5 DEF QueueDue, SoleInv, DateKept
<1>8. RowInv'
  <2>1. ASSUME NEW d \in Calls \ {c}, DateKept(d)
        PROVE  /\ snap'[d].occ <= row'[job[d].sched].occ
               /\ pc'[d] \notin Running
               /\ pc'[d] = "returned" /\ ~job[d].dry =>
                    row'[job[d].sched].occ > snap'[d].occ
               /\ payout'[d] # "unsent" => snap'[d].due <= now
    <3>1. /\ job[d].sched \in Schedules
          /\ snap[d].occ \in Nat /\ row[job[d].sched].occ \in Nat
          /\ row'[job[d].sched].occ \in Int
      <4>1. /\ job[d].sched \in Schedules
            /\ snap[d].occ \in Nat /\ row[job[d].sched].occ \in Nat
        BY DEF Base, TypeOK, Job, Row
      <4>2. row' \in [Schedules -> Row]
        <5>1. CASE row' = row
          BY <5>1 DEF Base, TypeOK
        <5>2. CASE row' # row
          <6>1. /\ pc[c] \in {"backoff", "advance"}
                /\ snap[c] \in Row /\ job[c].sched \in Schedules /\ now \in Nat
            BY <5>2, CallStepShape DEF SoleInv, Base, TypeOK, Job
          <6>2. BackOff(c) \/ Advance(c) \/ row' = row
            BY <6>1 DEF CallStep, Goto, ReadSchedule, BuildRunLines, BindForAction,
                        InsertRun, SubmitPayout, PayoutConfirmed, PayoutFailed,
                        SubmitRecord, RecordRefused, RecordConfirmed, RecordFailed,
                        MarkFailed, MarkCompleted, DbFault, dbVars
          <6>3. QED
            BY <5>2, <6>1, <6>2, OccurrenceWritten
               DEF BackOff, Advance, Base, TypeOK
        <5>3. QED
          BY <5>1, <5>2
      <4>3. QED
        BY <4>1, <4>2 DEF Row
    <3>2. row'[job[d].sched].occ >= row[job[d].sched].occ
      BY <1>1, <2>1, <3>1 DEF DateKept
    <3>3. /\ snap[d].occ <= row[job[d].sched].occ
          /\ pc[d] \notin Running
          /\ pc[d] = "returned" /\ ~job[d].dry =>
               row[job[d].sched].occ > snap[d].occ
          /\ payout[d] # "unsent" => snap[d].due <= now
      BY <1>3, <2>1 DEF SoleInv, RowInv
    <3>4. QED
      BY <1>1, <3>1, <3>2, <3>3
  <2>2. ASSUME DateKept(c)
        PROVE
        /\ snap'[c].occ <= row'[job[c].sched].occ
        /\ pc'[c] \in Running \ {"schedule"} =>
             snap'[c].occ = row'[job[c].sched].occ /\ snap'[c].due <= now
        /\ pc'[c] = "returned" /\ ~job[c].dry =>
             row'[job[c].sched].occ > snap'[c].occ
        /\ payout'[c] # "unsent" => snap'[c].due <= now
    BY <1>7, <2>2, OwnRowStep DEF SoleInv
  <2>3. \A d \in Calls : pc'[d] \in {"idle", "schedule"} => snap'[d].occ = 0
    BY <1>1 DEF SoleInv, RowInv
  <2>4. \A d \in Calls : DateKept(d)' => DateKept(d)
    BY <1>1 DEF DateKept
  <2>5. QED
    BY <1>1, <2>1, <2>2, <2>3, <2>4 DEF RowInv, Midway
<1>9. QED
  BY <1>4, <1>6, <1>8 DEF SoleInv

\* Steps that leave the calls where they are and the rows where they were.
LEMMA SurroundingsKeepSoleInv ==
  ASSUME Base, SoleInv, UNCHANGED <<workerVars, job, snap>>,
         now' \in Nat /\ now' >= now,
         \A c \in Calls : pc'[c] # pc[c] => pc[c] \in Running /\ pc'[c] = "crashed",
         redated \subseteq redated',
         \A s \in Schedules \ redated' :
           row'[s].occ = row[s].occ /\ row'[s].due = row[s].due,
         \A c \in Calls : payout[c] = "unsent" => payout'[c] = "unsent"
  PROVE  SoleInv'
<1>1. ServingInv'
  BY DEF SoleInv, ServingInv, workerVars, Running
<1>2. /\ queue \in Seq(Schedules) /\ queue' = queue /\ serving' = serving
      /\ \A i \in 1 .. Len(queue) : queue[i] \in Schedules
      /\ now \in Nat /\ \A s \in Schedules : row[s].due \in Nat
  BY DEF SoleInv, QueueDue, Base, TypeOK, Row, workerVars
<1>3. QueueDue'
  <2> SUFFICES ASSUME NEW i \in 1 .. Len(queue),
                      i = 1 /\ serving # NoCall => pc'[serving] \in Running,
                      queue[i] \notin redated'
               PROVE  row'[queue[i]].due <= now'
    BY <1>2 DEF QueueDue, SoleInv
  <2>1. i = 1 /\ serving # NoCall => pc[serving] \in Running
    BY DEF SoleInv, ServingInv, Running
  <2>2. row[queue[i]].due <= now /\ row'[queue[i]].due = row[queue[i]].due
    BY <1>2, <2>1 DEF SoleInv, QueueDue
  <2>3. QED
    BY <1>2, <2>2
<1>4. RowInv'
  <2>1. ASSUME NEW c \in Calls, DateKept(c)'
        PROVE  /\ snap[c].occ <= row'[job[c].sched].occ
               /\ pc'[c] \in Running \ {"schedule"} =>
                    snap[c].occ = row'[job[c].sched].occ /\ snap[c].due <= now'
               /\ pc'[c] = "returned" /\ ~job[c].dry =>
                    row'[job[c].sched].occ > snap[c].occ
               /\ payout'[c] # "unsent" => snap[c].due <= now'
    <3>1. /\ job[c].sched \in Schedules /\ snap[c].due \in Nat /\ now \in Nat
          /\ job[c].sched \notin redated'
      BY <2>1 DEF Base, TypeOK, Job, Row, DateKept
    <3>2. row'[job[c].sched].occ = row[job[c].sched].occ /\ DateKept(c)
      BY <3>1 DEF DateKept
    <3>3. /\ snap[c].occ <= row[job[c].sched].occ
          /\ pc[c] \in Running \ {"schedule"} =>
               snap[c].occ = row[job[c].sched].occ /\ snap[c].due <= now
          /\ pc[c] = "returned" /\ ~job[c].dry => row[job[c].sched].occ > snap[c].occ
          /\ payout[c] # "unsent" => snap[c].due <= now
      BY <3>2 DEF SoleInv, RowInv, Midway
    <3>4. QED
      BY <3>1, <3>2, <3>3 DEF Running
  <2>2. ASSUME NEW c \in Calls
        PROVE  pc'[c] \in {"idle", "schedule"} => snap[c].occ = 0
    BY DEF SoleInv, RowInv
  <2>3. QED
    BY <2>1, <2>2 DEF RowInv, Midway
<1>5. QED
  BY <1>1, <1>3, <1>4 DEF SoleInv

\* The worker's own steps.
LEMMA WorkerStepKeepsSoleInv ==
  ASSUME Base, SoleInv, ~Restarts, WorkerStep
  PROVE  SoleInv'
<1> USE DEF SoleInv
<1>1. CASE WorkerTick
  <2>1. /\ UNCHANGED vars /\ serving' = serving /\ serving = NoCall
        /\ queue' \in ByDueDate(Due)
    BY <1>1 DEF WorkerTick, WorkerIdle
  <2>2. /\ queue' \in [1 .. Cardinality(Due) -> Due] /\ Cardinality(Due) \in Nat
        /\ \A i, j \in 1 .. Cardinality(Due) : i < j => queue'[i] # queue'[j]
        /\ Due \subseteq Schedules /\ queue' \in Seq(Schedules)
    <3>1. Due \subseteq Schedules
      BY DEF Due
    <3>2. Cardinality(Due) \in Nat
      BY <3>1, CadenceAssumption, FS_Subset, FS_CardinalityType
    <3>3. queue' \in Seq(Schedules)
      BY <2>1, DueListIsSequence
    <3>4. QED
      BY <2>1, <3>1, <3>2, <3>3 DEF ByDueDate
  <2>3. Len(queue') = Cardinality(Due)
    BY <2>2
  <2>4. \A i, j \in 1 .. Len(queue') : i # j => queue'[i] # queue'[j]
    BY <2>2, <2>3
  <2>5. \A i \in 1 .. Len(queue') : row[queue'[i]].due <= now
    BY <2>2, <2>3 DEF Due
  <2>6. QueueDue'
    BY <2>1, <2>2, <2>4, <2>5 DEF QueueDue, vars, dbVars
  <2>7. ServingInv' /\ RowInv'
    BY <2>1 DEF ServingInv, RowInv, Midway, DateKept, vars, dbVars, callVars
  <2>8. QED
    BY <2>6, <2>7
<1>2. CASE TriggerRun
  <2>1. PICK c \in Calls \ UserCalls :
          Receive(c, Head(queue), "agent", AgentDryRun) /\ serving' = c
    BY <1>2 DEF TriggerRun
  <2>2. /\ serving = NoCall /\ queue # <<>> /\ queue' = queue
        /\ \A d \in Calls : pc[d] \notin Running
    BY <1>2, WorkerAssumption DEF TriggerRun, WorkerIdle, ServingInv
  <2>3. /\ queue \in Seq(Schedules) /\ Head(queue) \in Schedules
        /\ Head(queue) = queue[1]
    BY <2>2 DEF QueueDue
  <2>4. /\ pc[c] = "idle" /\ pc'[c] \in {"threw", "schedule"}
        /\ \A d \in Calls \ {c} : pc'[d] = pc[d] /\ job'[d] = job[d]
        /\ job'[c].sched = Head(queue)
        /\ UNCHANGED <<now, row, redated, snap, payout>>
    BY <2>1 DEF Receive, Goto, Base, TypeOK, dbVars
  <2>5. ServingInv'
    BY <2>1, <2>2, <2>4, WorkerAssumption DEF ServingInv
  <2>6. QueueDue'
    BY <2>2, <2>4 DEF QueueDue
  <2>7. /\ snap[c].occ = 0 /\ payout[c] = "unsent" /\ row[Head(queue)].occ \in Nat
    BY <2>3, <2>4
       DEF RowInv, Base, IInv, CallsInv, PlaceInv, BeforeInsert, TypeOK, Row
  <2>8. RowInv'
    BY <2>4, <2>7 DEF RowInv, Midway, DateKept, Running
  <2>9. QED
    BY <2>5, <2>6, <2>8
<1>3. CASE RunTriggered
  <2>1. /\ UNCHANGED vars /\ serving' = NoCall /\ queue' = Tail(queue)
        /\ queue # <<>> /\ queue \in Seq(Schedules)
        /\ \A c \in Calls : pc[c] \notin Running
    BY <1>3 DEF RunTriggered, ServingInv, QueueDue, Running
  <2>2. /\ Tail(queue) \in Seq(Schedules) /\ Len(Tail(queue)) = Len(queue) - 1
        /\ Len(queue) \in Nat
        /\ \A i \in 1 .. Len(Tail(queue)) :
             i + 1 \in 1 .. Len(queue) /\ i + 1 # 1 /\ Tail(queue)[i] = queue[i + 1]
    BY <2>1
  <2>3. QueueDue'
    BY <2>1, <2>2 DEF QueueDue, vars, dbVars
  <2>4. ServingInv' /\ RowInv'
    BY <2>1 DEF ServingInv, RowInv, Midway, DateKept, vars, dbVars, callVars
  <2>5. QED
    BY <2>3, <2>4
<1>4. CASE TickFailed
  <2>1. /\ UNCHANGED vars /\ serving' = NoCall /\ queue' = <<>>
        /\ \A c \in Calls : pc[c] \notin Running
    BY <1>4 DEF TickFailed, ServingInv, Running
  <2>2. QueueDue'
    BY <2>1 DEF QueueDue
  <2>3. ServingInv' /\ RowInv'
    BY <2>1 DEF ServingInv, RowInv, Midway, DateKept, vars, dbVars, callVars
  <2>4. QED
    BY <2>2, <2>3
<1>5. QED
  BY <1>1, <1>2, <1>3, <1>4 DEF WorkerStep, WorkerRestart

LEMMA SoleInvHolds ==
  ASSUME UserCalls = {}, ~Restarts
  PROVE  WorkerSpec => [](Base /\ SoleInv)
<1>1. WorkerInit => SoleInv
  <2> SUFFICES ASSUME WorkerInit
               PROVE  SoleInv
    OBVIOUS
  <2>1. /\ queue = <<>> /\ serving = NoCall
        /\ \A c \in Calls : /\ pc[c] = "idle" /\ snap[c].occ = 0
                            /\ payout[c] = "unsent" /\ job[c].sched \in Schedules
        /\ \A s \in Schedules : row[s].occ = 0
    BY AnyJobIsJob DEF WorkerInit, Init, Job, NewRow, AnyRow
  <2>2. QED
    BY <2>1 DEF SoleInv, ServingInv, QueueDue, RowInv, Midway, Running
<1>2. Base /\ SoleInv /\ [WorkerNext]_allVars => SoleInv'
  <2> SUFFICES ASSUME Base, SoleInv, [WorkerNext]_allVars
               PROVE  SoleInv'
    OBVIOUS
  <2>1. CASE WorkerStep
    BY <2>1, WorkerStepKeepsSoleInv
  <2>2. ASSUME NEW c \in Calls, CallStep(c), UNCHANGED workerVars
        PROVE  SoleInv'
    BY <2>2, SoleCallStep
  <2>3. ASSUME NEW c \in Calls, ChainStep(c), UNCHANGED workerVars
        PROVE  SoleInv'
    <3>1. /\ UNCHANGED <<now, row, redated, pc, job, snap>>
          /\ \A d \in Calls : payout[d] = "unsent" => payout'[d] = "unsent"
      BY <2>3 DEF ChainStep, PayoutLands, PayoutDropped, RecordLands, RecordDropped,
                  dbVars, callVars, Base, TypeOK
    <3>2. QED
      BY <2>3, <3>1, SurroundingsKeepSoleInv DEF Base, TypeOK
  <2>4. CASE Crash /\ UNCHANGED workerVars
    <3>1. /\ UNCHANGED <<now, row, redated, job, snap, payout>>
          /\ \A d \in Calls :
               pc'[d] # pc[d] => pc[d] \in Running /\ pc'[d] = "crashed"
      BY <2>4 DEF Crash, dbVars
    <3>2. QED
      BY <2>4, <3>1, SurroundingsKeepSoleInv DEF Base, TypeOK
  <2>5. CASE Tick /\ UNCHANGED workerVars
    <3>1. /\ UNCHANGED <<row, redated, pc, job, snap, payout>> /\ now' = now + 1
      BY <2>5 DEF Tick, dbVars, callVars
    <3>2. QED
      BY <2>5, <3>1, SurroundingsKeepSoleInv DEF Base, TypeOK
  <2>6. CASE TenantStep /\ UNCHANGED workerVars
    <3>1. UNCHANGED <<now, pc, job, snap, payout>>
      BY <2>6 DEF TenantStep, Publish, SaveSchedule, ChangeStaff, callVars
    <3>2. /\ redated \subseteq redated'
          /\ \A s \in Schedules \ redated' :
               row'[s].occ = row[s].occ /\ row'[s].due = row[s].due
      BY <2>6, TenantKeepsDates DEF Base
    <3>3. QED
      BY <2>6, <3>1, <3>2, SurroundingsKeepSoleInv DEF Base, TypeOK
  <2>7. CASE UNCHANGED allVars
    BY <2>7, SurroundingsKeepSoleInv
       DEF allVars, vars, dbVars, callVars, workerVars, Base, TypeOK
  <2>8. QED
    BY <2>1, <2>2, <2>3, <2>4, <2>5, <2>6, <2>7
       DEF WorkerNext, UserRun, SystemStep
<1>3. QED
  BY <1>1, <1>2, BaseHolds, PTL DEF WorkerSpec

\* A worker that has the API to itself starts nothing more for a payday once a
\* call has reported success for it, whatever failed before and whatever users
\* save meanwhile, unless they move the schedule's date.
THEOREM ServedIsNotRepaidHolds ==
  ASSUME UserCalls = {}, ~Restarts
  PROVE  WorkerSpec => []ServedIsNotRepaid
<1>1. Base /\ SoleInv => ServedIsNotRepaid
  <2> SUFFICES ASSUME Base, SoleInv, NEW c1 \in Calls, NEW c2 \in Calls,
                      SamePayday(c1, c2), DateKept(c1), pc[c1] = "returned",
                      ~job[c1].dry,
                      pc[c2] \in Running \ {"schedule"}
               PROVE  FALSE
    BY DEF ServedIsNotRepaid
  <2>1. /\ row[job[c1].sched].occ > snap[c1].occ
        /\ snap[c2].occ = row[job[c2].sched].occ
        /\ snap[c1].occ \in Nat
    BY DEF SoleInv, RowInv, Midway, Base, TypeOK, Row, SamePayday, DateKept
  <2>2. QED
    BY <2>1 DEF SamePayday
<1>2. QED
  BY <1>1, SoleInvHolds, PTL

\* Such a worker pays nothing ahead of its date: nothing but a user's form moves the
\* date forward between the list a tick makes and the row executeRun reads again.
THEOREM WorkerPaysWhatIsDueHolds ==
  ASSUME UserCalls = {}, ~Restarts
  PROVE  WorkerSpec => []WorkerPaysWhatIsDue
<1>1. SoleInv => WorkerPaysWhatIsDue
  BY DEF SoleInv, RowInv, WorkerPaysWhatIsDue
<1>2. QED
  BY <1>1, SoleInvHolds, PTL


-----------------------------------------------------------------------------

\* A step that completes no run, and takes no completed call out of "advance"
\* without having moved its row on.
LEMMA KeepsCompleted ==
  ASSUME Base, Base', CompletedInv, CompletedOncePerPayday, env' = env,
         redated \subseteq redated',
         \A s \in Schedules \ redated' : row'[s].occ >= row[s].occ,
         \A c \in Calls : run'[c] = "completed" =>
           /\ run[c] = "completed" /\ job'[c] = job[c] /\ snap'[c] = snap[c]
           /\ pc[c] = "advance" => pc'[c] = "advance" \/ Served(c)'
  PROVE  (CompletedInv /\ CompletedOncePerPayday)'
<1>1. \A c \in Calls : /\ job[c].sched \in Schedules /\ snap[c].occ \in Int
                       /\ row[job[c].sched].occ \in Int /\ row'[job[c].sched].occ \in Int
  BY DEF Base, TypeOK, Job, Row
<1>2. CompletedInv'
  BY <1>1 DEF CompletedInv, Served, DateKept, Faults
<1>3. CompletedOncePerPayday'
  BY DEF CompletedOncePerPayday, SamePayday, DateKept, Faults
<1>4. QED
  BY <1>2, <1>3

\* A run is completed for the payday its row still stands at, and every run
\* completed before it has moved its row on.
LEMMA CallStepKeepsCompleted ==
  ASSUME Base, Base', SoleInv, SoleInv', CompletedInv, CompletedOncePerPayday,
         NEW c \in Calls, CallStep(c), env' = env
  PROVE  (CompletedInv /\ CompletedOncePerPayday)'
<1> USE DEF Goto, dbVars, callVars, contractVars
<1>0. /\ pc \in [Calls -> {"idle"} \cup Running \cup Finished]
      /\ run \in [Calls -> RunStatus]
      /\ \A d \in Calls : /\ snap[d].occ \in Int /\ job[d].sched \in Schedules
                          /\ row[job[d].sched].occ \in Int
  BY DEF Base, TypeOK, Job, Row
<1>1. /\ pc[c] \in Running /\ job' = job
      /\ pc[c] # "schedule" => snap' = snap
      /\ \A d \in Calls \ {c} :
           pc'[d] = pc[d] /\ snap'[d] = snap[d] /\ run'[d] = run[d]
      /\ redated' = redated
      /\ \A s \in Schedules \ redated : row'[s].occ >= row[s].occ
  BY CallStepShape DEF SoleInv
<1>2. \A d \in Calls \ {c} : pc[d] \notin Running
  BY <1>1 DEF SoleInv, ServingInv
<1>3. CASE MarkCompleted(c)
  <2>1. /\ pc[c] = "markCompleted" /\ pc'[c] = "advance"
        /\ run' = [run EXCEPT ![c] = "completed"] /\ snap' = snap /\ row' = row
    BY <1>0, <1>3 DEF MarkCompleted
  <2>2. DateKept(c) => snap[c].occ = row[job[c].sched].occ
    BY <2>1 DEF SoleInv, RowInv, Midway, Running
  <2>3. CASE Faults \cap {"crash", "db"} = {}
    <3>1. \A d \in Calls \ {c} : run[d] = "completed" => Served(d)
      BY <1>2, <2>3 DEF CompletedInv, Running
    <3>2. CompletedInv'
      BY <1>0, <1>1, <2>1, <3>1 DEF CompletedInv, Served, DateKept
    <3>3. \A d \in Calls \ {c} : run[d] = "completed" =>
            /\ ~(SamePayday(c, d) /\ DateKept(c))
            /\ ~(SamePayday(d, c) /\ DateKept(d))
      BY <1>0, <2>2, <3>1 DEF Served, SamePayday, DateKept
    <3>4. CompletedOncePerPayday'
      BY <1>0, <1>1, <2>1, <2>3, <3>3
         DEF CompletedOncePerPayday, SamePayday, DateKept
    <3>5. QED
      BY <3>2, <3>4
  <2>4. CASE Faults \cap {"crash", "db"} # {}
    BY <2>4 DEF CompletedInv, CompletedOncePerPayday, Faults
  <2>5. QED
    BY <2>3, <2>4
<1>4. CASE Advance(c)
  <2>1. /\ pc[c] = "advance" /\ pc'[c] = "returned" /\ snap' = snap /\ run' = run
    BY <1>0, <1>4 DEF Advance
  <2>2. Served(c)'
    BY <1>1, <2>1
       DEF SoleInv, RowInv, Served, Base, IInv, CallsInv, PlaceInv, InPlace
  <2>3. QED
    BY <1>1, <2>1, <2>2, KeepsCompleted
<1>5. CASE ReadSchedule(c) \/ BuildRunLines(c) \/ BindForAction(c) \/ InsertRun(c)
  <2>1. /\ pc[c] \in BeforeInsert /\ run[c] = "none" /\ run'[c] # "completed"
    BY <1>0, <1>5
       DEF ReadSchedule, BuildRunLines, BindForAction, InsertRun, InsertedStatus,
           Base, IInv, CallsInv, PlaceInv, BeforeInsert
  <2>2. QED
    BY <1>1, <2>1, KeepsCompleted
<1>6. CASE \/ SubmitPayout(c) \/ PayoutConfirmed(c) \/ PayoutFailed(c)
           \/ SubmitRecord(c) \/ RecordRefused(c) \/ RecordConfirmed(c)
           \/ RecordFailed(c) \/ MarkFailed(c) \/ BackOff(c)
  <2>1. /\ pc[c] # "advance" /\ pc[c] # "schedule"
        /\ run'[c] = "completed" => run[c] = "completed"
    BY <1>0, <1>6
       DEF SubmitPayout, PayoutConfirmed, PayoutFailed, SubmitRecord, RecordRefused,
           RecordConfirmed, RecordFailed, MarkFailed, BackOff
  <2>2. QED
    BY <1>1, <2>1, KeepsCompleted
<1>7. CASE DbFault(c)
  <2>1. Faults \cap {"crash", "db"} # {} /\ Faults' = Faults
    BY <1>7 DEF DbFault, Faults
  <2>2. QED
    BY <2>1 DEF CompletedInv, CompletedOncePerPayday
<1>8. QED
  BY <1>3, <1>4, <1>5, <1>6, <1>7 DEF CallStep

\* While the API stays up and the database answers, a payday whose date no user
\* moves has at most one run that the database calls completed, even where lost
\* confirmations make the worker pay it twice: a run is completed for the payday
\* its row stands at, and the same call moves the row on.
THEOREM CompletedOncePerPaydayHolds ==
  ASSUME UserCalls = {}, ~Restarts
  PROVE  WorkerSpec => []CompletedOncePerPayday
<1> DEFINE Inv == CompletedInv /\ CompletedOncePerPayday
<1>1. WorkerInit => Inv
  BY DEF WorkerInit, Init, CompletedInv, CompletedOncePerPayday
<1>2. ASSUME Base, Base', SoleInv, SoleInv', Inv, [WorkerNext]_allVars
      PROVE  Inv'
  <2>1. ASSUME NEW c \in Calls, CallStep(c), env' = env
        PROVE  Inv'
    BY <1>2, <2>1, CallStepKeepsCompleted
  <2>2. ASSUME UNCHANGED <<env, run, job, snap, pc>>, redated \subseteq redated',
               \A s \in Schedules \ redated' : row'[s].occ = row[s].occ
        PROVE  Inv'
    <3>1. \A s \in Schedules : row[s].occ \in Nat
      BY <1>2 DEF Base, TypeOK, Row
    <3>2. QED
      BY <1>2, <2>2, <3>1, KeepsCompleted
  <2>3. CASE WorkerStep /\ env' = env
    <3>1. CASE TriggerRun
      <4>1. PICK c \in Calls : /\ pc[c] = "idle" /\ UNCHANGED <<row, redated, run, snap>>
                               /\ \A d \in Calls \ {c} : pc'[d] = pc[d] /\ job'[d] = job[d]
        BY <1>2, <3>1 DEF TriggerRun, Receive, Goto, dbVars, Base, TypeOK
      <4>2. run[c] = "none" /\ \A s \in Schedules : row[s].occ \in Nat
        BY <1>2, <4>1
           DEF Base, IInv, CallsInv, PlaceInv, BeforeInsert, TypeOK, Row
      <4>3. QED
        BY <1>2, <2>3, <4>1, <4>2, KeepsCompleted
    <3>2. CASE WorkerTick \/ RunTriggered \/ TickFailed \/ WorkerRestart
      BY <2>2, <3>2 DEF WorkerTick, RunTriggered, TickFailed, WorkerRestart, vars,
                        dbVars, callVars
    <3>3. QED
      BY <2>3, <3>1, <3>2 DEF WorkerStep
  <2>4. ASSUME NEW c \in Calls, ChainStep(c), env' = env
        PROVE  Inv'
    BY <2>2, <2>4 DEF ChainStep, PayoutLands, PayoutDropped, RecordLands,
                      RecordDropped, dbVars, callVars
  <2>5. CASE Crash /\ env' = env
    <3>1. Faults \cap {"crash", "db"} # {} /\ Faults' = Faults
      BY <2>5 DEF Crash, Faults
    <3>2. QED
      BY <3>1 DEF CompletedInv, CompletedOncePerPayday
  <2>6. CASE Tick /\ env' = env
    BY <2>2, <2>6 DEF Tick, dbVars, callVars
  <2>7. CASE TenantStep /\ env' = env
    <3>1. UNCHANGED <<run, job, snap, pc>>
      BY <2>7 DEF TenantStep, Publish, SaveSchedule, ChangeStaff, callVars
    <3>2. QED
      BY <1>2, <2>2, <2>7, <3>1, TenantKeepsDates DEF Base
  <2>8. CASE UNCHANGED allVars
    BY <2>2, <2>8 DEF allVars, vars, dbVars, callVars
  <2>9. QED
    BY <1>2, <2>1, <2>3, <2>4, <2>5, <2>6, <2>7, <2>8
       DEF WorkerNext, UserRun, SystemStep
<1>3. QED
  BY <1>1, <1>2, SoleInvHolds, PTL DEF WorkerSpec


-----------------------------------------------------------------------------

\* A step of one call, or of its transactions, that lands no payout.
LEMMA KeepsPaid ==
  ASSUME Base, Base', PaidInv, ConfirmedPaydaysPaidOnce, env' = env, job' = job,
         admin' = admin, NEW c \in Calls, redated' = redated,
         \A s \in Schedules \ redated : row'[s].occ >= row[s].occ,
         \A d \in Calls \ {c} :
           /\ pc'[d] = pc[d] /\ snap'[d] = snap[d] /\ payees'[d] = payees[d]
           /\ payout'[d] = payout[d] /\ record'[d] = record[d],
         Faults \subseteq {"payout_rejected"} => PaidCall(c)',
         payout'[c] = "landed" => payout[c] = "landed" /\ snap'[c] = snap[c]
  PROVE  (PaidInv /\ ConfirmedPaydaysPaidOnce)'
<1>1. \A d \in Calls : /\ job[d].sched \in Schedules /\ snap[d].occ \in Int
                       /\ row[job[d].sched].occ \in Int /\ row'[job[d].sched].occ \in Int
  BY DEF Base, TypeOK, Job, Row
<1>2. PaidInv'
  BY <1>1 DEF PaidInv, PaidCall, Served, DateKept, Faults
<1>3. ConfirmedPaydaysPaidOnce'
  BY DEF ConfirmedPaydaysPaidOnce, SamePayday, DateKept, Faults
<1>4. QED
  BY <1>2, <1>3

LEMMA CallStepKeepsPaid ==
  ASSUME Base, Base', SoleInv, SoleInv', PaidInv, ConfirmedPaydaysPaidOnce,
         NEW c \in Calls, CallStep(c), env' = env
  PROVE  (PaidInv /\ ConfirmedPaydaysPaidOnce)'
<1> USE DEF Goto, dbVars, callVars, contractVars
<1> SUFFICES ASSUME Faults \subseteq {"payout_rejected"}
             PROVE  (PaidInv /\ ConfirmedPaydaysPaidOnce)'
  BY DEF PaidInv, ConfirmedPaydaysPaidOnce, Faults
<1>0. /\ pc \in [Calls -> {"idle"} \cup Running \cup Finished]
      /\ payout \in [Calls -> TxStatus] /\ record \in [Calls -> TxStatus]
      /\ payees \in [Calls -> Lines]
      /\ "timeout" \notin Faults /\ "db" \notin Faults
      /\ admin = Platform /\ PaidCall(c)
  BY DEF Base, TypeOK, PaidInv
<1>1. /\ pc[c] \in Running /\ job' = job
      /\ pc[c] # "schedule" => snap' = snap
      /\ \A d \in Calls \ {c} :
           /\ pc'[d] = pc[d] /\ snap'[d] = snap[d] /\ payees'[d] = payees[d]
           /\ payout'[d] = payout[d] /\ record'[d] = record[d]
      /\ redated' = redated
      /\ \A s \in Schedules \ redated : row'[s].occ >= row[s].occ
  BY CallStepShape DEF SoleInv
<1>2. admin' = admin
  BY DEF CallStep, ReadSchedule, BuildRunLines, BindForAction, InsertRun,
         SubmitPayout, PayoutConfirmed, PayoutFailed, SubmitRecord, RecordRefused,
         RecordConfirmed, RecordFailed, MarkFailed, BackOff, MarkCompleted, Advance,
         DbFault
<1>3. Midway(c) /\ DateKept(c) => ~Served(c)
  BY DEF SoleInv, RowInv, Served, Base, TypeOK, Job, Row
<1>4. SUFFICES /\ PaidCall(c)'
               /\ payout'[c] = "landed" => payout[c] = "landed" /\ snap'[c] = snap[c]
  BY <1>1, <1>2, KeepsPaid
<1>5. CASE ReadSchedule(c) \/ BuildRunLines(c) \/ BindForAction(c) \/ InsertRun(c)
  <2>1. payout[c] = "unsent" /\ record[c] = "unsent"
    BY <1>5 DEF ReadSchedule, BuildRunLines, BindForAction, InsertRun, Base, IInv,
                CallsInv, PlaceInv, BeforeInsert
  <2>2. /\ payout' = payout /\ record' = record
        /\ pc'[c] \in {"payout", "payoutWait"} => "wallet" \in payees'[c]
    BY <1>0, <1>5 DEF ReadSchedule, BuildRunLines, BindForAction, InsertRun,
                      AfterInsert, SettleFrom
  <2>3. QED
    BY <2>1, <2>2 DEF PaidCall
<1>6. CASE \/ SubmitPayout(c) \/ PayoutConfirmed(c) \/ SubmitRecord(c)
           \/ RecordConfirmed(c) \/ MarkCompleted(c)
  BY <1>0, <1>1, <1>3, <1>6
     DEF SubmitPayout, PayoutConfirmed, SubmitRecord, RecordConfirmed, MarkCompleted,
         PaidCall, Succeeded, Midway, Running
<1>7. CASE PayoutFailed(c)
  BY <1>0, <1>7 DEF PayoutFailed, GivesUp, PaidCall
<1>8. CASE RecordRefused(c)
  <2>1. "wallet" \notin payees[c]
    BY <1>0, <1>8
       DEF RecordRefused, RecordAccepted, Contract!MayTrigger, Contract!ValidRun,
           Contract!NotExecuted, TotalOf, CountOf, Base, IInv, CallsInv, PlaceInv,
           ChainInv
  <2>2. QED
    BY <1>0, <1>8, <2>1 DEF RecordRefused, PaidCall
<1>9. CASE RecordFailed(c)
  BY <1>0, <1>9 DEF RecordFailed, GivesUp, PaidCall
<1>10. CASE MarkFailed(c) \/ BackOff(c)
  <2>1. Midway(c) /\ pc[c] \in {"markFailed", "backoff"}
    BY <1>10 DEF MarkFailed, BackOff, Midway, Running
  <2>2. payout[c] = "landed" => Served(c)'
    BY <1>0, <1>1, <1>3, <2>1 DEF PaidCall, Midway, Served, DateKept
  <2>3. /\ payout' = payout /\ record' = record /\ snap' = snap /\ payees' = payees
        /\ pc'[c] \in {"backoff", "threw"}
    BY <1>0, <1>10 DEF MarkFailed, BackOff
  <2>4. QED
    BY <1>0, <2>1, <2>2, <2>3 DEF PaidCall
<1>11. CASE Advance(c)
  <2>1. /\ pc[c] = "advance" /\ pc'[c] = "returned" /\ snap' = snap
        /\ UNCHANGED <<payout, record, payees>>
    BY <1>0, <1>11 DEF Advance
  <2>2. Served(c)'
    BY <1>1, <2>1
       DEF SoleInv, RowInv, Served, Base, IInv, CallsInv, PlaceInv, InPlace
  <2>3. QED
    BY <1>0, <2>1, <2>2 DEF PaidCall
<1>12. CASE DbFault(c)
  BY <1>0, <1>12 DEF DbFault
<1>13. QED
  BY <1>5, <1>6, <1>7, <1>8, <1>9, <1>10, <1>11, <1>12 DEF CallStep

\* A payout lands while its call waits for it, for the payday its row stands
\* at; the payouts that landed before are for paydays the row has left.
LEMMA ChainStepKeepsPaid ==
  ASSUME Base, Base', SoleInv, PaidInv, ConfirmedPaydaysPaidOnce,
         NEW c \in Calls, ChainStep(c), env' = env
  PROVE  (PaidInv /\ ConfirmedPaydaysPaidOnce)'
<1> USE DEF dbVars, callVars, contractVars
<1> SUFFICES ASSUME Faults \subseteq {"payout_rejected"}
             PROVE  (PaidInv /\ ConfirmedPaydaysPaidOnce)'
  BY DEF PaidInv, ConfirmedPaydaysPaidOnce, Faults
<1>0. /\ payout \in [Calls -> TxStatus] /\ record \in [Calls -> TxStatus]
      /\ "record_rejected" \notin Faults
      /\ admin = Platform /\ \A d \in Calls : PaidCall(d)
      /\ \A d \in Calls : /\ snap[d].occ \in Int /\ job[d].sched \in Schedules
                          /\ row[job[d].sched].occ \in Int
      /\ \A s \in Schedules : row[s].occ \in Int
  BY DEF Base, TypeOK, PaidInv, Job, Row
<1>1. UNCHANGED <<row, redated, callVars, admin>>
  BY DEF ChainStep, PayoutLands, PayoutDropped, RecordLands, RecordDropped,
         Contract!ExecuteRun
<1>2. CASE PayoutLands(c)
  <2>1. /\ payout[c] = "pending" /\ payout' = [payout EXCEPT ![c] = "landed"]
        /\ record' = record /\ pc[c] = "payoutWait"
    BY <1>0, <1>2 DEF PayoutLands, PaidCall
  <2>2. DateKept(c) => snap[c].occ = row[job[c].sched].occ
    BY <2>1 DEF SoleInv, RowInv, Midway, Running
  <2>3. \A d \in Calls \ {c} : pc[d] \notin Running
    BY <2>1 DEF SoleInv, ServingInv, Running
  <2>4. \A d \in Calls \ {c} : payout[d] = "landed" =>
          /\ ~(SamePayday(c, d) /\ DateKept(c))
          /\ ~(SamePayday(d, c) /\ DateKept(d))
    BY <1>0, <2>2, <2>3 DEF PaidCall, Served, SamePayday, DateKept, Running
  <2>5. ConfirmedPaydaysPaidOnce'
    BY <1>0, <1>1, <2>1, <2>4 DEF ConfirmedPaydaysPaidOnce, SamePayday, DateKept
  <2>6. PaidInv'
    BY <1>0, <1>1, <2>1 DEF PaidInv, PaidCall, Served, DateKept
  <2>7. QED
    BY <2>5, <2>6
<1>3. CASE PayoutDropped(c) \/ RecordLands(c)
  <2>1. /\ \A d \in Calls \ {c} : payout'[d] = payout[d] /\ record'[d] = record[d]
        /\ payout'[c] \in {payout[c], "dropped"} /\ record'[c] \in {record[c], "landed"}
    BY <1>0, <1>3 DEF PayoutDropped, RecordLands
  <2>2. PaidCall(c)'
    BY <1>0, <1>1, <2>1 DEF PaidCall, Served, DateKept
  <2>3. QED
    BY <1>0, <1>1, <2>1, <2>2, KeepsPaid
<1>4. QED
  BY <1>0, <1>2, <1>3 DEF ChainStep, RecordDropped

\* Where a payout can only be confirmed or rejected, and everything after it
\* succeeds, the worker pays a payday at most once, however often it retries, as
\* long as no user moves the schedule's date.
THEOREM ConfirmedPaydaysPaidOnceHolds ==
  ASSUME UserCalls = {}, ~Restarts
  PROVE  WorkerSpec => []ConfirmedPaydaysPaidOnce
<1> DEFINE Inv == PaidInv /\ ConfirmedPaydaysPaidOnce
<1>1. WorkerInit => Inv
  BY DEF WorkerInit, Init, PaidInv, PaidCall, ConfirmedPaydaysPaidOnce
<1>2. ASSUME Base, Base', SoleInv, SoleInv', Inv, [WorkerNext]_allVars
      PROVE  Inv'
  <2>1. ASSUME NEW c \in Calls, CallStep(c), env' = env
        PROVE  Inv'
    BY <1>2, <2>1, CallStepKeepsPaid
  <2>2. ASSUME UNCHANGED <<env, job, snap, pc, payees, payout, record, admin>>,
               redated \subseteq redated',
               \A s \in Schedules \ redated' : row'[s].occ = row[s].occ
        PROVE  Inv'
    <3>1. \A d \in Calls : job[d].sched \in Schedules
      BY <1>2 DEF Base, TypeOK, Job
    <3>2. QED
      BY <1>2, <2>2, <3>1 DEF PaidInv, PaidCall, Served, ConfirmedPaydaysPaidOnce,
                              SamePayday, DateKept, Faults
  <2>3. CASE WorkerStep /\ env' = env
    <3>1. CASE TriggerRun
      <4>1. PICK c \in Calls :
              /\ pc[c] = "idle" /\ pc'[c] \in {"threw", "schedule"}
              /\ UNCHANGED <<row, redated, snap, payees, payout, record, admin>>
              /\ \A d \in Calls \ {c} : pc'[d] = pc[d] /\ job'[d] = job[d]
        BY <1>2, <3>1
           DEF TriggerRun, Receive, Goto, dbVars, contractVars, Base, TypeOK
      <4>2. payout[c] = "unsent" /\ record[c] = "unsent"
        BY <1>2, <4>1 DEF Base, IInv, CallsInv, PlaceInv, BeforeInsert
      <4>3. PaidInv'
        BY <1>2, <2>3, <4>1, <4>2 DEF PaidInv, PaidCall, Served, DateKept, Faults
      <4>4. ConfirmedPaydaysPaidOnce'
        BY <1>2, <2>3, <4>1, <4>2
           DEF ConfirmedPaydaysPaidOnce, SamePayday, DateKept, Faults
      <4>5. QED
        BY <4>3, <4>4
    <3>2. CASE WorkerTick \/ RunTriggered \/ TickFailed \/ WorkerRestart
      BY <2>2, <2>3, <3>2
         DEF WorkerTick, RunTriggered, TickFailed, WorkerRestart, vars, dbVars,
             callVars, contractVars
    <3>3. QED
      BY <2>3, <3>1, <3>2 DEF WorkerStep
  <2>4. ASSUME NEW c \in Calls, ChainStep(c), env' = env
        PROVE  Inv'
    BY <1>2, <2>4, ChainStepKeepsPaid
  <2>5. CASE Crash /\ env' = env
    <3>1. ~(Faults \subseteq {"payout_rejected"}) /\ Faults' = Faults
      BY <2>5 DEF Crash, Faults
    <3>2. QED
      BY <3>1 DEF PaidInv, ConfirmedPaydaysPaidOnce
  <2>6. CASE Tick /\ env' = env
    BY <2>2, <2>6 DEF Tick, dbVars, callVars, contractVars
  <2>7. CASE TenantStep /\ env' = env
    <3>1. UNCHANGED <<job, snap, pc, payees, payout, record, admin>>
      BY <2>7 DEF TenantStep, Publish, SaveSchedule, ChangeStaff, callVars,
                  contractVars
    <3>2. QED
      BY <1>2, <2>2, <2>7, <3>1, TenantKeepsDates DEF Base
  <2>8. CASE UNCHANGED allVars
    BY <2>2, <2>8 DEF allVars, vars, dbVars, callVars, contractVars
  <2>9. QED
    BY <1>2, <2>1, <2>3, <2>4, <2>5, <2>6, <2>7, <2>8
       DEF WorkerNext, UserRun, SystemStep
<1>3. QED
  BY <1>1, <1>2, SoleInvHolds, PTL DEF WorkerSpec


-----------------------------------------------------------------------------
(* The loop over many schedules.                                           *)

\* The list of a tick names what is due, once, in the order of the dates.
ListInv ==
  /\ due \in [Schedules -> -MaxLate .. Period]
  /\ list \in Seq(Schedules)
  /\ polls \in 0 .. PollsPerHour
  /\ list # <<>> => polls > 0
  /\ \A i \in 1 .. Len(list) : due[list[i]] <= 0
  /\ \A i, j \in 1 .. Len(list) :
       i < j => list[i] # list[j] /\ due[list[i]] <= due[list[j]]

\* A schedule whose settlement failed this hour is not due before the next, unless
\* its backoff was lost.
RetryInv ==
  /\ failures \in [Schedules -> Nat]
  /\ lost \in [Schedules -> Nat]
  /\ thrown \in BOOLEAN
  /\ \A s \in Schedules :
       /\ lost[s] <= failures[s] /\ failures[s] <= polls
       /\ list # <<>> => failures[s] < polls
       /\ failures[s] <= 1 + lost[s]
       /\ due[s] <= 0 => failures[s] <= lost[s]

\* What a poll lists is all that is due: an enumeration without repetition of a
\* finite set leaves nothing out.
LEMMA PollListsAll ==
  ASSUME NEW D, D \subseteq Schedules, NEW q \in Orders(D)
  PROVE  /\ q \in Seq(Schedules) /\ Len(q) \in Nat
         /\ \A i \in 1 .. Len(q) : q[i] \in D
         /\ \A i, j \in 1 .. Len(q) : q[i] = q[j] => i = j
         /\ \A s \in D : \E i \in 1 .. Len(q) : q[i] = s
<1> DEFINE n == Cardinality(D)
<1>1. IsFiniteSet(D) /\ n \in Nat
  BY CadenceAssumption, FS_Subset, FS_CardinalityType
<1>2. q \in [1 .. n -> D] /\ \A i, j \in 1 .. n : q[i] = q[j] => i = j
  BY DEF Orders
<1>3. q \in Injection(1 .. n, D)
  BY <1>2 DEF Injection, IsInjective
<1>4. Cardinality(1 .. n) = n
  BY <1>1, FS_Interval
<1>5. q \in Surjection(1 .. n, D)
  BY <1>1, <1>3, <1>4, FS_Injection
<1>6. \A s \in D : \E i \in 1 .. n : q[i] = s
  BY <1>5 DEF Surjection
<1>7. q \in Seq(Schedules) /\ Len(q) = n
  BY <1>1, <1>2
<1> QED
  BY <1>1, <1>2, <1>6, <1>7

\* The rest of a list: its elements one place on.
LEMMA ListTail ==
  ASSUME ListInv, list # <<>>, list' = Tail(list)
  PROVE  /\ Len(list) \in Nat /\ Len(list) > 0
         /\ Head(list) = list[1] /\ list[1] \in Schedules
         /\ list' \in Seq(Schedules) /\ Len(list') = Len(list) - 1
         /\ \A i \in 1 .. Len(list') :
              i + 1 \in 1 .. Len(list) /\ list'[i] = list[i + 1]
         /\ \A i \in 1 .. Len(list) : i # 1 =>
              i - 1 \in 1 .. Len(list') /\ list'[i - 1] = list[i]
<1>1. /\ list \in Seq(Schedules) /\ Len(list) \in Nat /\ Len(list) > 0
      /\ Head(list) = list[1] /\ list[1] \in Schedules
  BY DEF ListInv
<1>2. /\ list' \in Seq(Schedules) /\ Len(list') = Len(list) - 1
      /\ \A i \in 1 .. Len(list') : list'[i] = list[i + 1]
  BY <1>1
<1>3. \A i \in 1 .. Len(list) : i # 1 => i - 1 \in 1 .. Len(list') /\ (i - 1) + 1 = i
  BY <1>1, <1>2
<1> QED
  BY <1>1, <1>2, <1>3

LEMMA PollKeepsList ==
  ASSUME ListInv, Poll
  PROVE  ListInv'
<1>1. /\ list' \in Orders(DueNow) /\ TickOrder(list')
      /\ UNCHANGED <<due, failures, lost, thrown>>
      /\ polls' = polls + 1 /\ polls < PollsPerHour
  BY DEF Poll
<1>2. DueNow \subseteq Schedules
  BY DEF DueNow
<1>3. /\ list' \in Seq(Schedules) /\ Len(list') \in Nat
      /\ \A i \in 1 .. Len(list') : list'[i] \in DueNow
      /\ \A i, j \in 1 .. Len(list') : list'[i] = list'[j] => i = j
  BY <1>1, <1>2, PollListsAll
<1>4. \A i \in 1 .. Len(list') : due[list'[i]] <= 0
  BY <1>3 DEF DueNow
<1>5. \A i, j \in 1 .. Len(list') :
        i < j => list'[i] # list'[j] /\ due[list'[i]] <= due[list'[j]]
  <2>1. DOMAIN list' = 1 .. Len(list')
    BY <1>3
  <2> QED
    BY <1>1, <1>3, <2>1 DEF TickOrder
<1>6. polls' \in 0 .. PollsPerHour /\ polls' > 0
  BY <1>1, TicksAssumption DEF ListInv
<1> QED
  BY <1>1, <1>3, <1>4, <1>5, <1>6 DEF ListInv

LEMMA RunCompletesKeepsList ==
  ASSUME ListInv, RunCompletes
  PROVE  ListInv'
<1>1. /\ list # <<>> /\ list' = Tail(list)
      /\ UNCHANGED <<failures, lost, thrown, polls>>
      /\ due' = [due EXCEPT ![Head(list)] = @ + Period]
  BY DEF RunCompletes, DueAfterRun
<1>2. /\ Len(list) \in Nat /\ Len(list) > 0
      /\ Head(list) = list[1] /\ list[1] \in Schedules
      /\ list' \in Seq(Schedules) /\ Len(list') = Len(list) - 1
      /\ \A i \in 1 .. Len(list') :
           i + 1 \in 1 .. Len(list) /\ list'[i] = list[i + 1]
  BY <1>1, ListTail
<1>3. Period \in Nat /\ Period >= 1 /\ MaxLate \in Nat
  BY CadenceAssumption, TicksAssumption
<1>4. due[list[1]] \in -MaxLate .. 0
  BY <1>2, <1>3 DEF ListInv
<1>5. due' \in [Schedules -> -MaxLate .. Period] /\ \A s \in Schedules : due'[s] >= due[s]
  BY <1>1, <1>2, <1>3, <1>4 DEF ListInv
<1>6. \A i \in 1 .. Len(list') : list'[i] # list[1] /\ due'[list'[i]] = due[list'[i]]
  <2> SUFFICES ASSUME NEW i \in 1 .. Len(list')
               PROVE  list'[i] # list[1] /\ due'[list'[i]] = due[list'[i]]
    OBVIOUS
  <2>1. i + 1 \in 1 .. Len(list) /\ 1 \in 1 .. Len(list) /\ 1 < i + 1
    BY <1>2
  <2>2. list[1] # list[i + 1] /\ list[i + 1] \in Schedules
    BY <2>1 DEF ListInv
  <2> QED
    BY <1>1, <1>2, <2>2 DEF ListInv
<1>7. ASSUME NEW i \in 1 .. Len(list')
      PROVE  due'[list'[i]] <= 0
  <2>1. i + 1 \in 1 .. Len(list) /\ list'[i] = list[i + 1]
    BY <1>2, <1>7
  <2>2. due[list[i + 1]] <= 0
    BY <2>1 DEF ListInv
  <2> QED
    BY <1>6, <2>1, <2>2
<1>8. ASSUME NEW i \in 1 .. Len(list'), NEW j \in 1 .. Len(list'), i < j
      PROVE  list'[i] # list'[j] /\ due'[list'[i]] <= due'[list'[j]]
  <2>1. /\ i + 1 \in 1 .. Len(list) /\ j + 1 \in 1 .. Len(list) /\ i + 1 < j + 1
        /\ list'[i] = list[i + 1] /\ list'[j] = list[j + 1]
    BY <1>2, <1>8
  <2>2. list[i + 1] # list[j + 1] /\ due[list[i + 1]] <= due[list[j + 1]]
    BY <2>1 DEF ListInv
  <2> QED
    BY <1>6, <2>1, <2>2
<1> QED
  BY <1>1, <1>2, <1>5, <1>7, <1>8 DEF ListInv

LEMMA FailuresKeepList ==
  ASSUME ListInv, RunFails \/ BackoffLost \/ RunThrows
  PROVE  ListInv'
<1>1. /\ list # <<>> /\ list' = <<>> /\ polls' = polls
      /\ due' \in {due, [due EXCEPT ![Head(list)] = 1]}
  BY DEF RunFails, BackoffLost, RunThrows, DueAfterFailure, Backoff
<1>2. Period \in Nat /\ Period >= 1 /\ MaxLate \in Nat
  BY CadenceAssumption, TicksAssumption
<1> QED
  BY <1>1, <1>2 DEF ListInv

\* A list lets at most one settlement fail, of a schedule that is due.
LEMMA StepKeepsRetry ==
  ASSUME ListInv, RetryInv, [TicksNext]_ticksVars
  PROVE  RetryInv'
<1>0. /\ polls \in Nat /\ due \in [Schedules -> Int] /\ Period \in Nat /\ Period >= 1
      /\ \A s \in Schedules : failures[s] \in Nat /\ lost[s] \in Nat
  BY CadenceAssumption, TicksAssumption DEF ListInv, RetryInv
<1>1. CASE Poll
  BY <1>0, <1>1 DEF Poll, RetryInv
<1>2. ASSUME list # <<>>
      PROVE  /\ Head(list) \in Schedules /\ due[Head(list)] <= 0
             /\ failures[Head(list)] <= lost[Head(list)] /\ failures[Head(list)] < polls
  BY <1>2 DEF ListInv, RetryInv
<1>3. CASE RunCompletes
  <2>1. \A s \in Schedules : due'[s] <= 0 => due[s] <= 0
    BY <1>0, <1>2, <1>3 DEF RunCompletes, DueAfterRun
  <2> QED
    BY <1>0, <1>3, <2>1 DEF RunCompletes, RetryInv
<1>4. CASE RunFails
  <2>1. /\ failures' = [failures EXCEPT ![Head(list)] = @ + 1] /\ list # <<>>
        /\ due' = [due EXCEPT ![Head(list)] = 1] /\ list' = <<>>
        /\ UNCHANGED <<polls, lost, thrown>>
    BY <1>4 DEF RunFails, DueAfterFailure, Backoff
  <2>2. failures' \in [Schedules -> Nat]
    BY <1>0, <1>2, <2>1 DEF RetryInv
  <2>3. ASSUME NEW s \in Schedules
        PROVE  /\ lost[s] <= failures'[s] /\ failures'[s] <= polls
               /\ failures'[s] <= 1 + lost[s]
               /\ due'[s] <= 0 => failures'[s] <= lost[s]
    <3>1. CASE s = Head(list)
      <4>1. failures'[s] = failures[s] + 1 /\ due'[s] = 1
        BY <1>0, <1>2, <2>1, <3>1 DEF RetryInv
      <4> QED
        BY <1>0, <1>2, <2>1, <3>1, <4>1 DEF RetryInv
    <3>2. CASE s # Head(list)
      BY <1>0, <2>1, <3>2 DEF RetryInv
    <3> QED
      BY <3>1, <3>2
  <2> QED
    BY <2>1, <2>2, <2>3 DEF RetryInv
<1>5. CASE BackoffLost
  <2>1. /\ failures' = [failures EXCEPT ![Head(list)] = @ + 1] /\ list # <<>>
        /\ lost' = [lost EXCEPT ![Head(list)] = @ + 1]
        /\ UNCHANGED <<due, polls>> /\ list' = <<>> /\ thrown' = TRUE
    BY <1>5 DEF BackoffLost
  <2>2. failures' \in [Schedules -> Nat] /\ lost' \in [Schedules -> Nat]
    BY <1>0, <1>2, <2>1 DEF RetryInv
  <2>3. ASSUME NEW s \in Schedules
        PROVE  /\ lost'[s] <= failures'[s] /\ failures'[s] <= polls
               /\ failures'[s] <= 1 + lost'[s]
               /\ due[s] <= 0 => failures'[s] <= lost'[s]
    <3>1. CASE s = Head(list)
      <4>1. failures'[s] = failures[s] + 1 /\ lost'[s] = lost[s] + 1
        BY <1>0, <1>2, <2>1, <3>1 DEF RetryInv
      <4> QED
        BY <1>0, <1>2, <2>1, <3>1, <4>1 DEF RetryInv
    <3>2. CASE s # Head(list)
      BY <1>0, <2>1, <3>2 DEF RetryInv
    <3> QED
      BY <3>1, <3>2
  <2> QED
    BY <2>1, <2>2, <2>3 DEF RetryInv
<1>6. CASE RunThrows
  BY <1>6 DEF RunThrows, RetryInv
<1>7. CASE Hour
  BY <1>0, <1>7 DEF Hour, RetryInv
<1>8. CASE UNCHANGED ticksVars
  BY <1>8 DEF ticksVars, RetryInv
<1> QED
  BY <1>1, <1>3, <1>4, <1>5, <1>6, <1>7, <1>8 DEF TicksNext

LEMMA HourKeepsList ==
  ASSUME ListInv, Hour
  PROVE  ListInv'
<1>1. /\ list' = list /\ list = <<>> /\ failures' = [s \in Schedules |-> 0]
      /\ lost' = [s \in Schedules |-> 0] /\ polls' = 0 /\ thrown' = thrown
      /\ due' = [s \in Schedules |-> Later(due[s] - 1, -MaxLate)]
  BY DEF Hour
<1>2. Period \in Nat /\ MaxLate \in Nat /\ PollsPerHour \in Nat
  BY CadenceAssumption, TicksAssumption
<1>3. due' \in [Schedules -> -MaxLate .. Period]
  BY <1>1, <1>2 DEF Later, ListInv
<1> QED
  BY <1>1, <1>2, <1>3 DEF ListInv

LEMMA ListInvHolds == FairTicksSpec => [](ListInv /\ RetryInv)
<1>1. TicksInit => ListInv /\ RetryInv
  <2>1. TicksInit => ListInv
    BY CadenceAssumption, TicksAssumption DEF TicksInit, ListInv
  <2>2. ASSUME TicksInit
        PROVE  RetryInv
    <3>1. /\ failures \in [Schedules -> Nat] /\ lost \in [Schedules -> Nat]
          /\ thrown \in BOOLEAN
      BY <2>2 DEF TicksInit
    <3>2. \A s \in Schedules : failures[s] = 0 /\ lost[s] = 0
      BY <2>2 DEF TicksInit
    <3>3. list = <<>> /\ polls = 0
      BY <2>2 DEF TicksInit
    <3> QED
      BY <3>1, <3>2, <3>3 DEF RetryInv
  <2> QED
    BY <2>1, <2>2
<1>2. ListInv /\ RetryInv /\ [TicksNext]_ticksVars => ListInv' /\ RetryInv'
  <2>1. ASSUME ListInv, UNCHANGED ticksVars
        PROVE  ListInv'
    BY <2>1 DEF ListInv, ticksVars
  <2> QED
    BY <2>1, PollKeepsList, RunCompletesKeepsList, FailuresKeepList, HourKeepsList,
       StepKeepsRetry DEF TicksNext
<1> QED
  BY <1>1, <1>2, PTL DEF FairTicksSpec

\* Every variable keeps its type.
THEOREM TicksTypesHold == FairTicksSpec => []TicksTypeOK
<1>1. ASSUME ListInv, RetryInv
      PROVE  TicksTypeOK
  <2>1. \A s \in Schedules :
          failures[s] \in 0 .. PollsPerHour /\ lost[s] \in 0 .. PollsPerHour
    BY <1>1, TicksAssumption DEF ListInv, RetryInv
  <2>2. /\ failures \in [Schedules -> 0 .. PollsPerHour]
        /\ lost \in [Schedules -> 0 .. PollsPerHour]
    BY <1>1, <2>1 DEF RetryInv
  <2>3. due \in [Schedules -> -MaxLate .. Later(Period, Backoff)]
    BY <1>1, CadenceAssumption, TicksAssumption DEF ListInv, Later, Backoff
  <2> QED
    BY <1>1, <2>2, <2>3 DEF ListInv, RetryInv, TicksTypeOK
<1> QED
  BY <1>1, ListInvHolds, PTL

\* However often the worker polls, whatever schedules fail and however many there
\* are, a settlement that keeps failing is tried once an hour, and once more for
\* every backoff the database loses (payrollService.ts, lines 16-25 and 233-238).
THEOREM NoRetryStormHolds == FairTicksSpec => []NoRetryStorm
<1>1. RetryInv => NoRetryStorm
  BY DEF RetryInv, NoRetryStorm
<1> QED
  BY <1>1, ListInvHolds, PTL

-----------------------------------------------------------------------------
(* How late a schedule gets.  Every hour one failing schedule at least, the *)
(* latest of those that are due, is backed off; so of b failing schedules   *)
(* at most b - 1 fall two hours behind, b - 2 three hours, and so on.  A    *)
(* schedule that can be paid waits only for failing ones that are at least  *)
(* as late.  A call that throws without a backoff voids this: the same      *)
(* schedule heads the next list.                                           *)

\* The failing schedules that are k hours late on the dates d.
Behind(d, k) == {s \in Broken : d[s] <= -k}

Listed(s) == \E i \in 1 .. Len(list) : list[i] = s

\* At any time in an hour, and once its first poll is over.
LateInv ==
  ~thrown =>
  LET b == Cardinality(Broken) IN
  /\ \A k \in 1 .. b + 1 : Cardinality(Behind(due, k)) <= b - k + 1
  /\ \A s \in Schedules \ Broken : due[s] >= -b - 1
  /\ polls > 0 /\ list = <<>> =>
       /\ \A k \in 0 .. b : Cardinality(Behind(due, k)) <= b - k
       /\ \A s \in Schedules \ Broken : due[s] >= -b
  /\ list # <<>> =>
       \A s \in Schedules :
         (s \in Broken /\ due[s] <= 0) \/ due[s] < -b => Listed(s)

LEMMA BehindFacts ==
  ASSUME NEW d, NEW k
  PROVE  /\ Cardinality(Broken) \in Nat
         /\ IsFiniteSet(Behind(d, k)) /\ Cardinality(Behind(d, k)) \in Nat
         /\ Cardinality(Behind(d, k)) <= Cardinality(Broken)
         /\ Cardinality(Behind(d, k)) = 0 <=> Behind(d, k) = {}
<1>1. IsFiniteSet(Broken) /\ Cardinality(Broken) \in Nat
  BY CadenceAssumption, TicksAssumption, FS_Subset, FS_CardinalityType
<1>2. Behind(d, k) \subseteq Broken
  BY DEF Behind
<1>3. IsFiniteSet(Behind(d, k)) /\ Cardinality(Behind(d, k)) <= Cardinality(Broken)
  BY <1>1, <1>2, FS_Subset
<1>4. Cardinality(Behind(d, k)) \in Nat
  BY <1>3, FS_CardinalityType
<1> QED
  BY <1>1, <1>3, <1>4, FS_EmptySet

LEMMA DateFacts ==
  ASSUME ListInv
  PROVE  /\ Cardinality(Broken) \in Nat /\ Broken \subseteq Schedules
         /\ MaxLate \in Nat /\ Period \in Nat /\ Period >= 1
         /\ due \in [Schedules -> Int]
<1>1. /\ Broken \subseteq Schedules /\ MaxLate \in Nat
      /\ Period \in Nat /\ Period >= 1
  BY TicksAssumption, CadenceAssumption
<1>2. due \in [Schedules -> Int]
  BY <1>1 DEF ListInv
<1> QED
  BY <1>1, <1>2, BehindFacts

LEMMA TicksStartOnTime == TicksInit => LateInv
<1> SUFFICES ASSUME TicksInit PROVE LateInv
  OBVIOUS
<1> DEFINE b == Cardinality(Broken)
<1>1. b \in Nat
  BY BehindFacts
<1>2. \A s \in Schedules : due[s] \in Int /\ due[s] >= -1
  BY DEF TicksInit
<1>3. ASSUME NEW k \in 1 .. b + 1
      PROVE  Cardinality(Behind(due, k)) <= b - k + 1
  <2>1. CASE k = 1
    BY <1>1, <2>1, BehindFacts
  <2>2. CASE k > 1
    <3>1. Behind(due, k) = {}
      BY <1>2, <1>3, <2>2, TicksAssumption DEF Behind
    <3> QED
      BY <1>1, <1>3, <3>1, BehindFacts
  <2> QED
    BY <1>1, <1>3, <2>1, <2>2
<1>4. list = <<>> /\ polls = 0
  BY DEF TicksInit
<1> QED
  BY <1>1, <1>2, <1>3, <1>4 DEF LateInv

\* A schedule no poll has listed is on time once nothing is listed.
LEMMA NothingListed ==
  ASSUME NEW d \in [Schedules -> Int],
         \A s \in Broken : d[s] > 0
  PROVE  \A k \in 0 .. Cardinality(Broken) :
           Cardinality(Behind(d, k)) <= Cardinality(Broken) - k
<1> SUFFICES ASSUME NEW k \in 0 .. Cardinality(Broken)
             PROVE  Cardinality(Behind(d, k)) <= Cardinality(Broken) - k
  OBVIOUS
<1>1. Cardinality(Broken) \in Nat
  BY BehindFacts
<1>2. Behind(d, k) = {}
  BY <1>1, TicksAssumption DEF Behind
<1> QED
  BY <1>1, <1>2, BehindFacts

LEMMA PollKeepsLate ==
  ASSUME ListInv, LateInv, Poll
  PROVE  LateInv'
<1> SUFFICES ASSUME ~thrown PROVE LateInv'
  BY DEF Poll, LateInv
<1> DEFINE b == Cardinality(Broken)
<1>1. list' \in Orders(DueNow) /\ due' = due
  BY DEF Poll
<1>2. DueNow \subseteq Schedules /\ b \in Nat /\ due \in [Schedules -> Int]
  BY DateFacts DEF DueNow
<1>3. list' \in Seq(Schedules) /\ \A s \in DueNow : \E i \in 1 .. Len(list') : list'[i] = s
  BY <1>1, <1>2, PollListsAll
<1>4. \A s \in Schedules : due[s] <= 0 => Listed(s)'
  BY <1>3 DEF DueNow, Listed
<1>5. ASSUME list' = <<>>
      PROVE  \A s \in Schedules : due[s] > 0
  <2>1. Len(list') = 0
    BY <1>5
  <2> QED
    BY <1>2, <1>3, <2>1 DEF DueNow
<1>6. ASSUME list' = <<>>
      PROVE  /\ \A k \in 0 .. b : Cardinality(Behind(due, k)) <= b - k
             /\ \A s \in Schedules \ Broken : due[s] >= -b
  BY <1>2, <1>5, <1>6, NothingListed, TicksAssumption
<1>7. \A s \in Schedules : due[s] < -b => due[s] <= 0
  BY <1>2
<1> QED
  BY <1>1, <1>2, <1>4, <1>6, <1>7 DEF LateInv

\* The first of the list is at least as late as anything on it.
LEMMA HeadIsLatest ==
  ASSUME ListInv, list # <<>>, NEW s \in Schedules, Listed(s)
  PROVE  due[Head(list)] <= due[s]
<1>1. PICK i \in 1 .. Len(list) : list[i] = s
  BY DEF Listed
<1>2. /\ Len(list) \in Nat /\ Head(list) = list[1] /\ due[list[1]] \in Int
      /\ 1 \in 1 .. Len(list)
  BY CadenceAssumption, TicksAssumption DEF ListInv
<1>3. CASE i = 1
  BY <1>1, <1>2, <1>3
<1>4. CASE i # 1
  BY <1>1, <1>2, <1>4 DEF ListInv
<1> QED
  BY <1>3, <1>4

LEMMA RunCompletesKeepsLate ==
  ASSUME ListInv, LateInv, RunCompletes
  PROVE  LateInv'
<1> SUFFICES ASSUME ~thrown PROVE LateInv'
  BY DEF RunCompletes, LateInv
<1> DEFINE b == Cardinality(Broken)
           h == Head(list)
<1>1. /\ list # <<>> /\ list' = Tail(list) /\ polls' = polls /\ h \notin Broken
      /\ due' = [due EXCEPT ![h] = @ + Period]
  BY DEF RunCompletes, DueAfterRun
<1>2. /\ Len(list) \in Nat /\ h = list[1] /\ h \in Schedules
      /\ list' \in Seq(Schedules) /\ Len(list') = Len(list) - 1
      /\ \A i \in 1 .. Len(list) : i # 1 =>
           i - 1 \in 1 .. Len(list') /\ list'[i - 1] = list[i]
  BY <1>1, ListTail
<1>3. /\ b \in Nat /\ Broken \subseteq Schedules
      /\ Period \in Nat /\ Period >= 1 /\ due \in [Schedules -> Int]
  BY DateFacts
<1>4. /\ due' \in [Schedules -> Int]
      /\ \A s \in Schedules \ {h} : due'[s] = due[s]
      /\ due'[h] = due[h] + Period
  BY <1>1, <1>2, <1>3
<1>5. \A k : Behind(due', k) = Behind(due, k)
  BY <1>1, <1>3, <1>4 DEF Behind
<1>6. due'[h] >= -b
  BY <1>1, <1>2, <1>3, <1>4 DEF LateInv
<1>7. ASSUME NEW s \in Schedules, (s \in Broken /\ due'[s] <= 0) \/ due'[s] < -b
      PROVE  Listed(s)'
  <2>1. s # h /\ due'[s] = due[s]
    BY <1>1, <1>3, <1>4, <1>6, <1>7
  <2>2. PICK i \in 1 .. Len(list) : list[i] = s
    BY <1>1, <1>7, <2>1 DEF LateInv, Listed
  <2>3. i # 1
    BY <1>2, <2>1, <2>2
  <2> QED
    BY <1>2, <2>2, <2>3 DEF Listed
<1>8. ASSUME list' = <<>>
      PROVE  /\ \A k \in 0 .. b : Cardinality(Behind(due', k)) <= b - k
             /\ \A s \in Schedules \ Broken : due'[s] >= -b
  <2>1. \A s \in Schedules : ~Listed(s)'
    BY <1>8 DEF Listed
  <2>2. \A s \in Broken : due'[s] > 0
    BY <1>3, <1>4, <1>7, <2>1
  <2>3. \A s \in Schedules : due'[s] >= -b
    BY <1>3, <1>4, <1>7, <2>1
  <2> QED
    BY <1>4, <2>2, <2>3, NothingListed
<1>9. ASSUME NEW s \in Schedules \ Broken
      PROVE  due'[s] >= -b - 1
  <2>1. due[s] >= -b - 1
    BY DEF LateInv
  <2> QED
    BY <1>3, <1>4, <1>6, <1>9, <2>1
<1> QED
  BY <1>3, <1>5, <1>7, <1>8, <1>9 DEF LateInv

LEMMA RunFailsKeepsLate ==
  ASSUME ListInv, LateInv, RunFails
  PROVE  LateInv'
<1> SUFFICES ASSUME ~thrown PROVE LateInv'
  BY DEF RunFails, LateInv
<1> DEFINE b == Cardinality(Broken)
           h == Head(list)
<1>1. /\ list # <<>> /\ list' = <<>> /\ polls' = polls /\ h \in Broken
      /\ due' = [due EXCEPT ![h] = 1]
  BY DEF RunFails, DueAfterFailure, Backoff
<1>2. /\ b \in Nat /\ Broken \subseteq Schedules /\ due \in [Schedules -> Int]
  BY DateFacts
<1>3. /\ due' \in [Schedules -> Int]
      /\ \A s \in Schedules \ {h} : due'[s] = due[s]
      /\ due'[h] = 1
  BY <1>1, <1>2
<1>4. ASSUME NEW k \in 0 .. b
      PROVE  Cardinality(Behind(due', k)) <= b - k
  <2>1. Behind(due', k) = Behind(due, k) \ {h}
    BY <1>1, <1>2, <1>3 DEF Behind
  <2>2. CASE Behind(due, k) = {}
    BY <1>2, <2>1, <2>2, BehindFacts
  <2>3. CASE Behind(due, k) # {}
    <3>1. PICK s \in Broken : due[s] <= -k
      BY <2>3 DEF Behind
    <3>2. Listed(s)
      BY <1>1, <1>2, <3>1 DEF LateInv
    <3>3. h \in Behind(due, k)
      BY <1>1, <1>2, <3>1, <3>2, HeadIsLatest DEF Behind
    <3>4. Cardinality(Behind(due', k)) = Cardinality(Behind(due, k)) - 1
      <4>1. IsFiniteSet(Behind(due, k))
        BY BehindFacts
      <4>2. Cardinality(Behind(due, k) \ {h}) = Cardinality(Behind(due, k)) - 1
        BY <3>3, <4>1, FS_RemoveElement
      <4> QED
        BY <2>1, <4>2
    <3>5. CASE k = 0
      BY <1>2, <3>4, <3>5, BehindFacts
    <3>6. CASE k > 0
      BY <1>2, <3>4, <3>6, BehindFacts DEF LateInv
    <3> QED
      BY <1>2, <3>5, <3>6
  <2> QED
    BY <2>2, <2>3
<1>5. due[h] >= -b
  <2>1. h \notin Behind(due, b + 1)
    <3>1. Cardinality(Behind(due, b + 1)) <= b - (b + 1) + 1
      BY <1>2 DEF LateInv
    <3> QED
      BY <1>2, <3>1, BehindFacts
  <2> QED
    BY <1>1, <1>2, <2>1 DEF Behind
<1>6. ASSUME NEW s \in Schedules \ Broken
      PROVE  due'[s] >= -b
  <2>1. due'[s] = due[s]
    BY <1>1, <1>3, <1>6
  <2>2. CASE due[s] < -b
    <3>1. Listed(s)
      BY <1>1, <2>2 DEF LateInv
    <3> QED
      BY <1>1, <1>2, <1>5, <2>2, <3>1, HeadIsLatest
  <2> QED
    BY <1>2, <2>1, <2>2
<1>7. \A k \in 1 .. b + 1 : Cardinality(Behind(due', k)) <= b - k + 1
  <2> SUFFICES ASSUME NEW k \in 1 .. b + 1
               PROVE  Cardinality(Behind(due', k)) <= b - k + 1
    OBVIOUS
  <2>1. Behind(due', k) \subseteq Behind(due, k)
    <3> SUFFICES ASSUME NEW s \in Broken, due'[s] <= -k
                 PROVE  due[s] <= -k
      BY DEF Behind
    <3> QED
      BY <1>2, <1>3
  <2>2. Cardinality(Behind(due', k)) <= Cardinality(Behind(due, k))
    BY <2>1, BehindFacts, FS_Subset
  <2> QED
    BY <1>2, <2>2, BehindFacts DEF LateInv
<1> QED
  BY <1>1, <1>2, <1>3, <1>4, <1>6, <1>7 DEF LateInv

LEMMA HourKeepsLate ==
  ASSUME ListInv, LateInv, Hour, Cardinality(Broken) + 1 < MaxLate
  PROVE  LateInv'
<1> SUFFICES ASSUME ~thrown PROVE LateInv'
  BY DEF Hour, LateInv
<1> DEFINE b == Cardinality(Broken)
<1>1. /\ list = <<>> /\ list' = <<>> /\ polls > 0 /\ polls' = 0
      /\ due' = [s \in Schedules |-> Later(due[s] - 1, -MaxLate)]
  BY DEF Hour
<1>2. /\ b \in Nat /\ Broken \subseteq Schedules /\ due \in [Schedules -> Int]
      /\ MaxLate \in Nat
  BY DateFacts
<1>3. /\ \A k \in 0 .. b : Cardinality(Behind(due, k)) <= b - k
      /\ \A s \in Schedules \ Broken : due[s] >= -b
  BY <1>1 DEF LateInv
<1>4. ASSUME NEW s \in Schedules
      PROVE  due[s] >= -b
  <2>1. CASE s \in Broken
    <3>1. Cardinality(Behind(due, b)) <= b - b
      BY <1>2, <1>3
    <3>2. Behind(due, b) = {}
      BY <1>2, <3>1, BehindFacts
    <3> QED
      BY <1>2, <2>1, <3>2 DEF Behind
  <2> QED
    BY <1>3, <2>1
<1>5. /\ due' \in [Schedules -> Int]
      /\ \A s \in Schedules : due'[s] = due[s] - 1
  BY <1>1, <1>2, <1>4 DEF Later
<1>6. ASSUME NEW k \in 1 .. b + 1
      PROVE  Cardinality(Behind(due', k)) <= b - k + 1
  <2>1. k - 1 \in 0 .. b /\ Behind(due', k) = Behind(due, k - 1)
    BY <1>2, <1>5 DEF Behind
  <2>2. Cardinality(Behind(due', k)) <= b - (k - 1)
    BY <1>3, <2>1
  <2> QED
    BY <1>2, <2>2
<1>7. \A s \in Schedules : due'[s] >= -b - 1
  BY <1>2, <1>4, <1>5
<1> QED
  BY <1>1, <1>6, <1>7 DEF LateInv

\* As long as only settlements fail, no schedule is ever more hours late than there
\* are failing ones, and one: those
\* that fail, hour after hour, push the others back by a bounded time only
\* (scheduledPayroll.ts, lines 20-30, and the sort of upcomingObligations).  The
\* hypothesis only keeps the model's floor on dates out of the way.
THEOREM LatenessBoundedHolds ==
  ASSUME Cardinality(Broken) + 1 < MaxLate
  PROVE  FairTicksSpec =>
           [](/\ LatenessBounded
              /\ ~thrown => \A s \in Schedules : due[s] >= -Cardinality(Broken) - 1)
<1> DEFINE b == Cardinality(Broken)
           Bounded == /\ LatenessBounded
                      /\ ~thrown => \A s \in Schedules : due[s] >= -b - 1
<1>1. ListInv /\ LateInv /\ [TicksNext]_ticksVars => LateInv'
  <2>1. ASSUME LateInv, UNCHANGED ticksVars
        PROVE  LateInv'
    BY <2>1 DEF LateInv, Listed, ticksVars
  <2>2. ASSUME BackoffLost \/ RunThrows
        PROVE  LateInv'
    BY <2>2 DEF BackoffLost, RunThrows, LateInv
  <2> QED
    BY <2>1, <2>2, PollKeepsLate, RunCompletesKeepsLate, RunFailsKeepsLate,
       HourKeepsLate DEF TicksNext
<1>2. ListInv /\ LateInv => Bounded
  <2> SUFFICES ASSUME ListInv, LateInv, ~thrown, NEW s \in Schedules
               PROVE  due[s] >= -b - 1 /\ due[s] > -MaxLate
    BY DEF LatenessBounded
  <2>1. b \in Nat /\ MaxLate \in Nat /\ due[s] \in Int
    BY DateFacts
  <2>2. CASE s \in Broken
    <3>1. Cardinality(Behind(due, b + 1)) <= b - (b + 1) + 1
      BY <2>1 DEF LateInv
    <3>2. Behind(due, b + 1) = {}
      BY <2>1, <3>1, BehindFacts
    <3>3. due[s] > -(b + 1)
      BY <2>1, <2>2, <3>2 DEF Behind
    <3> QED
      BY <2>1, <3>3
  <2>3. CASE s \notin Broken
    BY <2>1, <2>3 DEF LateInv
  <2> QED
    BY <2>2, <2>3
<1> HIDE DEF Bounded
<1>3. FairTicksSpec => []Bounded
  BY <1>1, <1>2, TicksStartOnTime, ListInvHolds, PTL DEF FairTicksSpec
<1> QED
  BY <1>3 DEF Bounded
=============================================================================
