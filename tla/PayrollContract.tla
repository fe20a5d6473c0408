-------------------------- MODULE PayrollContract --------------------------
(***************************************************************************)
(* The Soroban payroll contract (contracts/payroll/src/lib.rs).            *)
(*                                                                         *)
(* A call that returns an Error, or that the host stops at require_auth,   *)
(* leaves no trace: the transaction is rolled back.  Such calls are        *)
(* stuttering steps here, so every action below is a call that returns Ok. *)
(*                                                                         *)
(* Entries of persistent storage that outlive their time-to-live are       *)
(* archived by the host, never lost, so `Run` keys are modelled as         *)
(* permanent and the time-to-live extensions have no effect.               *)
(***************************************************************************)
EXTENDS Integers, Sequences

CONSTANTS
  Addresses,    \* Stellar accounts that may sign a call
  RunIds,       \* off-chain run ids
  Totals,       \* values tried for the i128 argument `total`
  Counts,       \* values tried for the u32 argument `employee_count`
  NoAdmin       \* what the Admin key reads as before `initialize`

ASSUME ContractAssumption ==
  /\ NoAdmin \notin Addresses
  /\ Totals \subseteq Int
  /\ Counts \subseteq Nat

VARIABLES
  admin,        \* DataKey::Admin
  operators,    \* the addresses whose DataKey::Operator entry is true
  executed,     \* the run ids that have a DataKey::Run entry
  events        \* the ("payroll","run") events, in ledger order

contractVars == <<admin, operators, executed, events>>

Trigger == {"agent", "operator"}

RunEvent == [run : RunIds, total : Totals, count : Counts, trigger : Trigger]

Init ==
  /\ admin = NoAdmin
  /\ operators = {}
  /\ executed = {}
  /\ events = <<>>

-----------------------------------------------------------------------------
(* Guards and effects shared by the operations, each preceded by the       *)
(* mutant forms that show which property depends on it.                    *)

\* `initialize` refuses to run twice.
Uninitialized == admin = NoAdmin

\* load_admin(..)?.require_auth()
AdminSigns(signer) == admin # NoAdmin /\ signer = admin

\* The allowlist check of `execute_run`: the admin, or a true Operator entry.
MayTrigger(caller) == caller = admin \/ caller \in operators

\* Who a run is attributed to in its event.
TriggerOf(caller) == IF caller = admin THEN "agent" ELSE "operator"

\* The argument checks of `execute_run`.
ValidRunMutant(total, count) == total >= 0 /\ count # 0
ValidRun(total, count) == total > 0 /\ count # 0

\* No DataKey::Run entry yet, and the write that creates one.
NotExecutedMutant(r) == TRUE
NotExecuted(r) == r \notin executed
MarkExecutedMutant(r) == executed' = executed
MarkExecuted(r) == executed' = executed \cup {r}

-----------------------------------------------------------------------------
(* The contract's operations.  `signer` is the account whose authorization *)
(* the transaction carries: `x.require_auth()` holds iff signer = x.       *)

Initialize(a) ==
  /\ Uninitialized
  /\ admin' = a
  /\ UNCHANGED <<operators, executed, events>>

AddOperator(signer, o) ==
  /\ AdminSigns(signer)
  /\ operators' = operators \cup {o}
  /\ UNCHANGED <<admin, executed, events>>

RemoveOperator(signer, o) ==
  /\ AdminSigns(signer)
  /\ operators' = operators \ {o}
  /\ UNCHANGED <<admin, executed, events>>

ExecuteRun(signer, caller, r, total, count) ==
  /\ signer = caller
  /\ admin # NoAdmin
  /\ MayTrigger(caller)
  /\ ValidRun(total, count)
  /\ NotExecuted(r)
  /\ MarkExecuted(r)
  /\ events' = Append(events, [run |-> r, total |-> total, count |-> count,
                               trigger |-> TriggerOf(caller)])
  /\ UNCHANGED <<admin, operators>>

Next ==
  \/ \E a \in Addresses : Initialize(a)
  \/ \E signer, o \in Addresses : AddOperator(signer, o)
  \/ \E signer, o \in Addresses : RemoveOperator(signer, o)
  \/ \E signer, caller \in Addresses, r \in RunIds, t \in Totals, n \in Counts :
       ExecuteRun(signer, caller, r, t, n)

Spec == Init /\ [][Next]_contractVars

-----------------------------------------------------------------------------
(* Properties.                                                             *)

\* The contract's storage and event log hold values of the declared types.
TypeOK ==
  /\ admin \in Addresses \cup {NoAdmin}
  /\ operators \subseteq Addresses
  /\ executed \subseteq RunIds
  /\ events \in Seq(RunEvent)

\* A run id settles at most once, whoever submits it and however often: the
\* event log never holds two events of one id (the promise of lib.rs, lines
\* 4-6, against the check and the write at lines 139-146).
SettledOnce ==
  \A i, j \in DOMAIN events : events[i].run = events[j].run => i = j

\* The idempotency index is exactly the event log's set of ids, so
\* `run_executed` answers what an auditor reading the events would: an id that
\* is marked but has no event could never be paid, one with an event but no
\* mark could be paid again.
IndexMatchesEvents == executed = {events[i].run : i \in DOMAIN events}

\* Nothing settles, and no operator is added, before an admin is in place, and
\* an admin once in place is never replaced, not even by a second
\* `initialize`: operators and events keep the authority they were created under.
AdminNeverReplaced ==
  [][admin # NoAdmin => admin' = admin]_contractVars

\* The contract implements the append-only ledger in which no id settles twice
\* and every entry has a positive total and headcount.
Ledger == INSTANCE RunLedger WITH
  ledger <- [i \in DOMAIN events |->
               [run |-> events[i].run, total |-> events[i].total,
                count |-> events[i].count]]

ImplementsLedger == Ledger!Spec
=============================================================================
