----------------------------- MODULE SelfCustody -----------------------------
(***************************************************************************)
(* Self-custody payouts: PayrollService.prepareRun builds unsigned         *)
(* envelopes, the company's own wallet signs them in the dashboard         *)
(* (PayoutsPanel), and PayrollService.submitRun submits them and records   *)
(* the run.  Calls interleave at every await that reads or writes what     *)
(* another actor may change: the staff of the schedule, the sequence       *)
(* number of the wallet's account, the payroll contract and payroll_runs.  *)
(*                                                                         *)
(* One element of Payouts is one call of prepareRun, which draws a fresh   *)
(* run id: the id is the call itself.                                      *)
(***************************************************************************)
EXTENDS Integers, Sequences, FiniteSets

CONSTANTS
  Payouts,      \* calls of prepareRun
  Submits,      \* calls of submitRun
  Service,      \* the platform service account, admin of the contract
  Wallet,       \* the company's wallet
  NoAdmin,
  None,         \* no row, no target, no envelope number
  Staffs,       \* what buildRunLines may sum up to
  Environments, \* the deployments considered: see Environment
  MaxOther,     \* bound on the wallet's transactions outside the product
  MaxEdits      \* bound on the tenant's changes to its staff

FaultKinds == {"reject", "db", "crash", "lag"}

\* What is configured (contract id, service secret, USDC issuer, relayer),
\* whether the tenant's document names the payout consent, and what may fail.
Environment ==
  [contract : BOOLEAN, key : BOOLEAN, issuer : BOOLEAN, relayer : BOOLEAN,
   consent : BOOLEAN, faults : SUBSET FaultKinds]

\* The total of all lines, and the part of it that goes to Stellar wallets.
Staff == [total : Nat, wallet : Nat]

ASSUME CustodyAssumption ==
  /\ Environments \subseteq Environment
  /\ Staffs \subseteq Staff
  /\ \A s \in Staffs : s.wallet <= s.total
  /\ Staffs # {}
  /\ Service # Wallet /\ NoAdmin \notin {Service, Wallet}
  /\ None \notin Payouts /\ None \notin Nat /\ None \notin Staff
  /\ MaxOther \in Nat /\ MaxEdits \in Nat

VARIABLES
  env,
  staff, edits,           \* the schedule's lines, and how often they changed
  seq, other,             \* the wallet's account: last number used, other uses
  payments,               \* the payments that landed, oldest first
  admin, operators, executed, events,   \* the payroll contract
  row,                    \* payroll_runs: the total of a completed row, or None
  pc, lines,              \* each prepared payout: where it is, its lines
  status, number,         \* its two envelopes: state and sequence number
  spc, target, recomputed \* each submission: where it is, what it submits

contractVars == <<admin, operators, executed, events>>
chainVars == <<seq, other, payments, contractVars>>
prepareVars == <<pc, lines>>
envelopeVars == <<status, number>>
submitVars == <<spc, target, recomputed>>
vars == <<env, staff, edits, chainVars, row, prepareVars, envelopeVars, submitVars>>

Kinds == {"pay", "rec"}
Other(k) == IF k = "pay" THEN "rec" ELSE "pay"

\* An envelope is absent (null), built, in the network's queue, applied with
\* success, applied with failure, or past its 180 s.
EnvelopeStatus == {"absent", "built", "pending", "landed", "failed", "expired"}

Preparing == {"idle", "operator", "operatorWait", "buildPayment", "buildRecord"}
Waiting == {"payWait", "recWait"}
Submitting == {"pay", "rec", "insert"} \cup Waiting
Over == {"returned", "threw", "crashed"}

Contract == INSTANCE PayrollContract WITH
  Addresses <- {Service, Wallet}, RunIds <- Payouts,
  Totals <- {s.total : s \in Staffs}, Counts <- {1}

Init ==
  /\ env \in Environments
  /\ staff \in Staffs
  /\ edits = 0 /\ seq = 0 /\ other = 0
  /\ payments = <<>>
  /\ admin = Service
  /\ operators \in SUBSET {Wallet}
  /\ executed = {} /\ events = <<>>
  /\ row = [p \in Payouts |-> None]
  /\ pc = [p \in Payouts |-> "idle"]
  /\ lines = [p \in Payouts |-> staff]
  /\ status = [p \in Payouts |-> [k \in Kinds |-> "absent"]]
  /\ number = [p \in Payouts |-> [k \in Kinds |-> 0]]
  /\ spc = [s \in Submits |-> "idle"]
  /\ target = [s \in Submits |-> None]
  /\ recomputed = [s \in Submits |-> staff]

-----------------------------------------------------------------------------
(* Decisions, each preceded by the mutant forms that show which property   *)
(* depends on it.                                                          *)

\* The account read an envelope is built on: current, or one ledger behind.
AccountRead ==
  IF "lag" \in env.faults /\ seq > 0 THEN {seq, seq - 1} ELSE {seq}

\* TransactionBuilder numbers an envelope one above the account it was given.
NextNumberMutant(p, k, read) == read + (IF k = "rec" /\ status[p]["pay"] # "absent" THEN 2 ELSE 1)
NextNumber(p, k, read) == read + 1

\* The network applies a transaction only at the number that is next.
InTurn(p, k) == number[p][k] = seq + 1

\* What a poll takes for success.
ConfirmedMutant(p, k) == status[p][k] \in {"landed", "pending"}
Confirmed(p, k) == status[p][k] = "landed"

\* The poll ends by itself: a failure, or 60 s without an answer.
GivesUp(p, k) == status[p][k] # "landed" \/ "lag" \in env.faults

\* payroll_runs.id is the primary key.
FreeId(p) == row[p] = None

\* The lines a submission writes down.
LinesForMutant(p) == [staff EXCEPT !.total = staff.wallet]
LinesFor(p) == staff

\* What a payment envelope moves: the lines with a Stellar destination.
WalletPart(p) == lines[p].wallet
HasPayoutsMutant(p) == TRUE
HasPayouts(p) == WalletPart(p) > 0

\* Where submitRun goes after `place`: the envelopes that are not null, in order.
AfterPayment(p) == IF status[p]["rec"] # "absent" THEN "rec" ELSE "insert"
FirstEnvelope(p) == IF status[p]["pay"] # "absent" THEN "pay" ELSE AfterPayment(p)
After(p, k) == IF k = "pay" THEN AfterPayment(p) ELSE "insert"

-----------------------------------------------------------------------------
(* prepareRun.                                                             *)

\* getSchedule, buildRunLines, the total check and bindForAction.
ReadLines(p) ==
  /\ pc[p] = "idle"
  /\ lines' = [lines EXCEPT ![p] = staff]
  /\ pc' = [pc EXCEPT ![p] =
              IF staff.total > 0 /\ env.consent THEN "operator" ELSE "threw"]
  /\ UNCHANGED <<env, staff, edits, chainVars, row, envelopeVars, submitVars>>

\* ensureOperator: nothing to do without a key or a contract, or when
\* is_operator answers true.
CheckOperator(p) ==
  /\ pc[p] = "operator"
  /\ pc' = [pc EXCEPT ![p] =
              IF env.key /\ env.contract /\ Wallet \notin operators
              THEN "operatorWait" ELSE "buildPayment"]
  /\ UNCHANGED <<env, staff, edits, chainVars, row, lines, envelopeVars, submitVars>>

\* add_operator with the service key lands; its confirmation may be lost.
AddOperator(p) ==
  /\ pc[p] = "operatorWait"
  /\ Contract!AddOperator(Service, Wallet)
  /\ \E next \in {"buildPayment"} \cup (IF "lag" \in env.faults THEN {"threw"} ELSE {}) :
       pc' = [pc EXCEPT ![p] = next]
  /\ UNCHANGED <<env, staff, edits, seq, other, payments, row, lines,
                 envelopeVars, submitVars>>

AddOperatorFails(p) ==
  /\ pc[p] = "operatorWait"
  /\ "reject" \in env.faults
  /\ pc' = [pc EXCEPT ![p] = "threw"]
  /\ UNCHANGED <<env, staff, edits, chainVars, row, lines, envelopeVars, submitVars>>

Build(p, k) ==
  /\ status' = [status EXCEPT ![p][k] = "built"]
  /\ \E read \in AccountRead :
       number' = [number EXCEPT ![p][k] = NextNumber(p, k, read)]

\* buildPayrollRunXdrs, first the payment: null without payouts or an issuer.
BuildPayment(p) ==
  /\ pc[p] = "buildPayment"
  /\ IF HasPayouts(p) /\ env.issuer THEN Build(p, "pay")
                                    ELSE UNCHANGED envelopeVars
  /\ pc' = [pc EXCEPT ![p] = "buildRecord"]
  /\ UNCHANGED <<env, staff, edits, chainVars, row, lines, submitVars>>

\* ... then execute_run: null without a contract; prepareTransaction simulates
\* it and throws if the contract would refuse the wallet.
BuildRecord(p) ==
  /\ pc[p] = "buildRecord"
  /\ \/ /\ ~env.contract
        /\ UNCHANGED envelopeVars
        /\ pc' = [pc EXCEPT ![p] = "prepared"]
     \/ /\ env.contract
        /\ Contract!MayTrigger(Wallet)
        /\ Build(p, "rec")
        /\ pc' = [pc EXCEPT ![p] = "prepared"]
     \/ /\ env.contract
        /\ ~Contract!MayTrigger(Wallet)
        /\ UNCHANGED envelopeVars
        /\ pc' = [pc EXCEPT ![p] = "threw"]
  /\ UNCHANGED <<env, staff, edits, chainVars, row, lines, submitVars>>

\* The wallet signs both envelopes, or its owner refuses or closes the tab.
Sign(p) ==
  /\ pc[p] = "prepared"
  /\ \E answer \in {"signed", "abandoned"} : pc' = [pc EXCEPT ![p] = answer]
  /\ UNCHANGED <<env, staff, edits, chainVars, row, lines, envelopeVars, submitVars>>

-----------------------------------------------------------------------------
(* submitRun.  Nothing stops a client from submitting a payout twice.      *)

\* The schema's refinement, getSchedule, and the lines computed anew.
Submit(s, p) ==
  /\ spc[s] = "idle"
  /\ pc[p] = "signed"
  /\ target' = [target EXCEPT ![s] = p]
  /\ recomputed' = [recomputed EXCEPT ![s] = LinesFor(p)]
  /\ spc' = [spc EXCEPT ![s] =
               IF \E k \in Kinds : status[p][k] # "absent"
               THEN FirstEnvelope(p) ELSE "threw"]
  /\ UNCHANGED <<env, staff, edits, chainVars, row, prepareVars, envelopeVars>>

Goto(s, place) == spc' = [spc EXCEPT ![s] = place]

WaitFor(k) == IF k = "pay" THEN "payWait" ELSE "recWait"

\* A transaction of the wallet is in the network's queue.
Queued == \E p \in Payouts, k \in Kinds : status[p][k] = "pending"

\* sendTransaction queues the envelope, finds it queued already (DUPLICATE) or
\* finds another of the account there (TRY_AGAIN_LATER).
Send(s, p, k) ==
  /\ target[s] = p /\ spc[s] = k
  /\ ~env.relayer
  /\ status[p][k] \in {"built", "pending"} /\ InTurn(p, k)
  /\ status' = IF Queued THEN status ELSE [status EXCEPT ![p][k] = "pending"]
  /\ Goto(s, WaitFor(k))
  /\ UNCHANGED <<env, staff, edits, chainVars, row, prepareVars, number, target, recomputed>>

\* ... or answers ERROR: a number that is not next, an envelope past its time,
\* or any other reason to refuse it.
SendRefused(s, p, k) ==
  /\ target[s] = p /\ spc[s] = k
  /\ ~env.relayer
  /\ \/ "reject" \in env.faults
     \/ status[p][k] \notin {"built", "pending"}
     \/ ~InTurn(p, k)
  /\ Goto(s, "threw")
  /\ UNCHANGED <<env, staff, edits, chainVars, row, prepareVars, envelopeVars,
                 target, recomputed>>

\* The relayer answers with a hash, whatever becomes of the envelope.
Relay(s, p, k) ==
  /\ target[s] = p /\ spc[s] = k
  /\ env.relayer
  /\ status' = IF status[p][k] = "built"
               THEN [status EXCEPT ![p][k] = "pending"] ELSE status
  /\ \E next \in {After(p, k), "threw"} : Goto(s, next)
  /\ UNCHANGED <<env, staff, edits, chainVars, row, prepareVars, number, target, recomputed>>

Confirm(s, p, k) ==
  /\ target[s] = p /\ spc[s] = WaitFor(k)
  /\ Confirmed(p, k)
  /\ Goto(s, After(p, k))
  /\ UNCHANGED <<env, staff, edits, chainVars, row, prepareVars, envelopeVars,
                 target, recomputed>>

GiveUp(s, p, k) ==
  /\ target[s] = p /\ spc[s] = WaitFor(k)
  /\ GivesUp(p, k)
  /\ Goto(s, "threw")
  /\ UNCHANGED <<env, staff, edits, chainVars, row, prepareVars, envelopeVars,
                 target, recomputed>>

InsertRun(s, p) ==
  /\ target[s] = p /\ spc[s] = "insert"
  /\ FreeId(p)
  /\ row' = [row EXCEPT ![p] = recomputed[s].total]
  /\ Goto(s, "returned")
  /\ UNCHANGED <<env, staff, edits, chainVars, prepareVars, envelopeVars,
                 target, recomputed>>

InsertRefused(s, p) ==
  /\ target[s] = p /\ spc[s] = "insert"
  /\ ~FreeId(p) \/ "db" \in env.faults
  /\ Goto(s, "threw")
  /\ UNCHANGED <<env, staff, edits, chainVars, row, prepareVars, envelopeVars,
                 target, recomputed>>

\* The API process dies with every call in flight.
Crash ==
  /\ "crash" \in env.faults
  /\ pc' = [p \in Payouts |->
              IF pc[p] \in Preparing \ {"idle"} THEN "threw" ELSE pc[p]]
  /\ spc' = [s \in Submits |-> IF spc[s] \in Submitting THEN "crashed" ELSE spc[s]]
  /\ <<pc, spc>>' # <<pc, spc>>
  /\ UNCHANGED <<env, staff, edits, chainVars, row, lines, envelopeVars,
                 target, recomputed>>

-----------------------------------------------------------------------------
(* The network, the wallet's other business, and the tenant.               *)

Effect(p, k) ==
  CASE k = "pay" ->
         /\ payments' = Append(payments,
                          [run |-> p, total |-> WalletPart(p), count |-> 1])
         /\ UNCHANGED contractVars
    [] k = "rec" ->
         /\ Contract!ExecuteRun(Wallet, Wallet, p, lines[p].total, 1)
         /\ UNCHANGED payments

Land(p, k) ==
  /\ status[p][k] = "pending" /\ InTurn(p, k)
  /\ Effect(p, k)
  /\ status' = [status EXCEPT ![p][k] = "landed"]
  /\ seq' = seq + 1
  /\ UNCHANGED <<env, staff, edits, other, row, prepareVars, number, submitVars>>

\* Applied without effect: the number is used up all the same.
FailOnLedger(p, k) ==
  /\ status[p][k] = "pending" /\ InTurn(p, k)
  /\ "reject" \in env.faults
  /\ status' = [status EXCEPT ![p][k] = "failed"]
  /\ seq' = seq + 1
  /\ UNCHANGED <<env, staff, edits, other, payments, contractVars, row,
                 prepareVars, number, submitVars>>

\* 180 s go by.
Expire(p, k) ==
  /\ status[p][k] \in {"built", "pending"}
  /\ status' = [status EXCEPT ![p][k] = "expired"]
  /\ UNCHANGED <<env, staff, edits, chainVars, row, prepareVars, number, submitVars>>

OtherTransaction ==
  /\ other < MaxOther
  /\ other' = other + 1
  /\ seq' = seq + 1
  /\ UNCHANGED <<env, staff, edits, payments, contractVars, row, prepareVars,
                 envelopeVars, submitVars>>

EditStaff ==
  /\ edits < MaxEdits
  /\ edits' = edits + 1
  /\ staff' \in Staffs \ {staff}
  /\ UNCHANGED <<env, chainVars, row, prepareVars, envelopeVars, submitVars>>

-----------------------------------------------------------------------------

Prepare(p) ==
  \/ ReadLines(p) \/ CheckOperator(p) \/ AddOperator(p) \/ AddOperatorFails(p)
  \/ BuildPayment(p) \/ BuildRecord(p) \/ Sign(p)

SubmitStep(s, p) ==
  \/ \E k \in Kinds :
       Send(s, p, k) \/ SendRefused(s, p, k) \/ Relay(s, p, k)
       \/ Confirm(s, p, k) \/ GiveUp(s, p, k)
  \/ InsertRun(s, p) \/ InsertRefused(s, p)

Chain(p, k) == Land(p, k) \/ FailOnLedger(p, k) \/ Expire(p, k)

Next ==
  \/ \E p \in Payouts : Prepare(p)
  \/ \E s \in Submits, p \in Payouts : Submit(s, p) \/ SubmitStep(s, p)
  \/ \E p \in Payouts, k \in Kinds : Chain(p, k)
  \/ Crash \/ OtherTransaction \/ EditStaff

Spec == Init /\ [][Next]_vars

-----------------------------------------------------------------------------
(* Properties.                                                             *)

\* The variables hold values of the kinds declared above.
TypeOK ==
  /\ env \in Environments
  /\ staff \in Staffs
  /\ edits \in Nat /\ seq \in Nat /\ other \in Nat
  /\ payments \in Seq([run : Payouts, total : Nat, count : {1}])
  /\ admin = Service /\ operators \subseteq {Wallet}
  /\ executed \subseteq Payouts
  /\ row \in [Payouts -> Nat \cup {None}]
  /\ pc \in [Payouts -> Preparing \cup {"prepared", "signed", "abandoned", "threw"}]
  /\ lines \in [Payouts -> Staffs]
  /\ status \in [Payouts -> [Kinds -> EnvelopeStatus]]
  /\ number \in [Payouts -> [Kinds -> Nat]]
  /\ spc \in [Submits -> {"idle"} \cup Submitting \cup Over]
  /\ target \in [Submits -> Payouts \cup {None}]
  /\ recomputed \in [Submits -> Staffs]

\* The wallet's payments are an append-only ledger in which no run id is paid
\* twice and no entry is empty, however often an envelope is submitted, by how
\* many calls at once, through the relayer or not (submitRun, lines 395-403).
PaymentLedger == INSTANCE RunLedger WITH
  ledger <- payments, RunIds <- Payouts,
  Totals <- {s.wallet : s \in Staffs}, Counts <- {1}

PaidLikeALedger == PaymentLedger!Spec

\* Both envelopes of a payout are built on the same account number before
\* either is sent, so they can never both land: a payout with two envelopes is
\* paid without an on-chain record or recorded without a payment
\* (buildPayrollRunXdrs, lines 205-237; submitRun, lines 395-403).
NeverBothLand ==
  \A p \in Payouts : ~(status[p]["pay"] = "landed" /\ status[p]["rec"] = "landed")

\* A row says "completed" only of a run whose every envelope was confirmed, and
\* so no run with two envelopes ever has one.  Through the relayer it says
\* nothing: a hash is taken for a settlement (relayer.ts, lines 37-49).  The client
\* is PayoutsPanel, which submits the envelopes of the run it names; the API does not
\* check that they are that run's.
CompletedMeansLanded ==
  \A p \in Payouts : row[p] # None /\ ~env.relayer =>
    /\ \E k \in Kinds : status[p][k] = "landed"
    /\ \A k \in Kinds : status[p][k] \in {"landed", "absent"}

\* While the tenant leaves its staff alone, the database, the contract and the
\* payment tell one story: the row holds the total the contract logged, and
\* never less than the wallet paid.  After an edit the row is computed from
\* other lines than were signed (line 391).
BooksAgree ==
  edits = 0 =>
    /\ \A i \in DOMAIN events :
         row[events[i].run] \in {None, events[i].total}
    /\ \A i \in DOMAIN payments :
         row[payments[i].run] # None => row[payments[i].run] >= payments[i].total

\* "Submit the client-signed envelope(s) from `prepareRun` and record the run"
\* (line 368): when submitRun comes to the second envelope, its payment confirmed,
\* the network can still apply it.
SecondEnvelopeUsable ==
  \A s \in Submits :
    spc[s] = "rec" /\ status[target[s]]["pay"] = "landed" => InTurn(target[s], "rec")
=============================================================================
