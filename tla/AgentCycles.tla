----------------------------- MODULE AgentCycles -----------------------------
(***************************************************************************)
(* The agent's yield and lending cycles: POST /agent/yield-cycle and       *)
(* /agent/blend-cycle with AgentService.runYieldCycle and runBlendCycle,   *)
(* the DeFindex and Blend clients, and the smart account Blend moves may   *)
(* go through.  A cycle reads a position, moves one step into the venue    *)
(* while there is room under the ceiling and one step out otherwise, and   *)
(* records an executed decision.                                           *)
(*                                                                         *)
(* A cycle here is one call with the transaction it leaves behind; its     *)
(* name stands for another call once both are over.  A call made while an  *)
(* earlier transaction of its caller may still land (after the 30 s of a   *)
(* lost confirmation, by a job going on to the next tenant, or by a worker *)
(* started again) is another cycle.  All of them move one position of one  *)
(* platform account and sign with its key, so that a transaction that      *)
(* lands makes every account read before it stale.  The switch is the row  *)
(* of TreasuryConfig, of one tenant.                                       *)
(***************************************************************************)
EXTENDS TreasuryConfig, Sequences, FiniteSetsExt

CONSTANTS
  Jobs,          \* cycles the worker calls for the tenant: ctx.isAgent
  JobVenue,      \* the venue of each of them
  Others,        \* cycles its switch does not stop: a user's, another tenant's
  Deployments,   \* see Deployment
  Ceiling,       \* BAND_CEILING, in steps
  Funds,         \* what a venue's position can grow to, in steps
  MaxGain,       \* bound on gain
  CappedTargets, GatewayTargets, SpendingLimit, PeriodLedgers,
  AssetRuleId, PoolRuleId,  \* BLEND_SMART_ACCOUNT_{ASSET,POOL}_RULE_ID
  Asset, Pool    \* the reserve token and the pool, as contracts

Cycles == Jobs \cup Others
Venues == {"defindex", "blend"}
Faults == {"blind", "lag", "reject", "db", "crash", "drift"}

\* Which venues are live, whether Blend moves go through the smart account,
\* whether the tenant has published a legal context, how many cycles may be under
\* way, and what may fail; "drift" is a position moved by something else.
Deployment ==
  [mainnet : BOOLEAN, live : SUBSET Venues, smart : BOOLEAN, context : BOOLEAN,
   cycles : SUBSET Cycles, edits : BOOLEAN, faults : SUBSET Faults]

ASSUME CyclesAssumption ==
  /\ Deployments \subseteq Deployment
  /\ \A d \in Deployments : d.cycles # {}
  /\ IsFiniteSet(Cycles)
  /\ Jobs \cap Others = {}
  /\ JobVenue \in [Jobs -> Venues]
  /\ Ceiling \in Nat \ {0} /\ Funds \in Nat /\ MaxGain \in Nat
  /\ SpendingLimit \in Nat /\ PeriodLedgers \in Nat \ {0}

VARIABLES
  deploy,
  position,   \* what each venue holds for us, in whole steps, rounded down
  gain,       \* history: the steps it gained but from cycles, since a cycle last
              \* found room in it
  recent,     \* the smart account's books of what it let out lately
  outflow,    \* what has really left it, by age
  pc,         \* the await each cycle is at
  venue, dir, \* its locals: the venue, and deposit or withdraw
  current,    \* whether the account it read is still the latest
  tx,         \* its transaction
  outcome     \* how it ended

cycleVars == <<pc, venue, dir, current, tx, outcome>>
chainVars == <<position, gain, recent, outflow>>
vars == <<deploy, chainVars, cycleVars, configVars>>

Account == INSTANCE SmartAccount

Window == 0 .. PeriodLedgers - 1

InFlight == {"gate", "read", "bind", "account", "prepare", "send", "wait", "insert"}
TxStatus == {"none", "pending", "landed", "failed", "dropped"}
Outcomes == {"none", "skipped", "deferred", "threw", "recorded"}

Init ==
  /\ ConfigInit
  /\ deploy \in Deployments
  /\ ~deploy.edits => config = NoRow /\ serial
  /\ position \in [Venues -> 0 .. Ceiling]
  /\ \A v \in Venues \ deploy.live : position[v] = 0
  /\ gain = [v \in Venues |-> 0]
  /\ recent = Account!EmptyHistory
  /\ outflow = [age \in Window |-> 0]
  /\ pc = [c \in Cycles |-> "idle"]
  /\ venue = [c \in Cycles |-> "blend"]
  /\ dir = [c \in Cycles |-> "deposit"]
  /\ current = [c \in Cycles |-> FALSE]
  /\ tx = [c \in Cycles |-> "none"]
  /\ outcome = [c \in Cycles |-> "none"]

-----------------------------------------------------------------------------
(* Decisions, each preceded by the mutant forms that show which property   *)
(* depends on it.                                                          *)

\* autonomyDisabled: only the agent obeys the switch, and no row means on.
GateOpenMutant(c) == TRUE
GateOpen(c) == c \in Jobs /\ config # NoRow => config.enabled

\* assertMainnetNeverAutoExecutesTreasuryActions lets the cycle pass.
Allowed == ~deploy.mainnet

HasRoomMutant(seen) == seen <= Ceiling
HasRoom(seen) == seen < Ceiling

\* A position that cannot be read is zero.  The ceiling is a whole number of steps,
\* so that what is rounded down has room when the position has.
PositionRead(v) ==
  {position[v]} \cup (IF "blind" \in deploy.faults THEN {0} ELSE {})

ViaSmartAccount(v) == v = "blend" /\ deploy.smart

\* submit, and for a deposit the reserve token's transfer below it, each with
\* the rule the client's map names for its contract.
AuthTree(d) ==
  LET submit == [contract |-> Pool, fn |-> "submit", amount |-> 0,
                 rule |-> PoolRuleId]
      transfer == [contract |-> Asset, fn |-> "transfer", amount |-> 1,
                   rule |-> AssetRuleId]
  IN IF d = "deposit" THEN <<submit, transfer>> ELSE <<submit>>

\* The ledger, or a simulation on it, takes a step into or out of a venue.
Applicable(v, d) ==
  /\ IF d = "deposit" THEN position[v] < Funds ELSE position[v] > 0
  /\ ViaSmartAccount(v) => Account!CheckAuth(AuthTree(d))

Transfer(v, d) ==
  /\ position' = [position EXCEPT ![v] = IF d = "deposit" THEN @ + 1 ELSE @ - 1]
  /\ IF ViaSmartAccount(v)
     THEN /\ Account!Apply(AuthTree(d))
          /\ outflow' = IF d = "deposit" THEN [outflow EXCEPT ![0] = @ + 1] ELSE outflow
     ELSE UNCHANGED <<recent, outflow>>

\* pollTransaction, or /send's answer, says success.
ConfirmedMutant(c) == tx[c] \in {"landed", "failed"}
Confirmed(c) == tx[c] = "landed"

\* ... or the deadline passes without it.
GivesUpMutant(c) == tx[c] \in {"failed", "dropped"}
GivesUp(c) == tx[c] \in {"none", "failed", "dropped"} \/ "lag" \in deploy.faults

AfterConfirmMutant(c) == IF dir[c] = "withdraw" THEN "idle" ELSE "insert"
AfterConfirm(c) == "insert"

Queued == \E c \in Cycles : tx[c] = "pending"

-----------------------------------------------------------------------------
(* One cycle.                                                              *)

At(c, place) == pc[c] = place /\ c \in deploy.cycles
Goto(c, place) == pc' = [pc EXCEPT ![c] = place]
End(c, how) == Goto(c, "idle") /\ outcome' = [outcome EXCEPT ![c] = how]

\* The route of a venue is called.  The name of a cycle is free when its last
\* transaction has landed or expired, 180 s after it was built.
Begin(c, v) ==
  /\ At(c, "idle")
  /\ c \in Jobs => v = JobVenue[c]
  /\ tx[c] # "pending"
  /\ Goto(c, "gate")
  /\ venue' = [venue EXCEPT ![c] = v]
  /\ tx' = [tx EXCEPT ![c] = "none"]
  /\ outcome' = [outcome EXCEPT ![c] = "none"]
  /\ UNCHANGED <<deploy, chainVars, dir, current, configVars>>

Gate(c) ==
  /\ At(c, "gate")
  /\ \/ GateOpen(c) /\ Allowed /\ venue[c] \in deploy.live
        /\ Goto(c, "read") /\ UNCHANGED outcome
     \/ ~GateOpen(c) /\ End(c, "skipped")
     \/ GateOpen(c) /\ Allowed /\ venue[c] \notin deploy.live /\ End(c, "skipped")
     \/ GateOpen(c) /\ ~Allowed /\ End(c, "threw")
  /\ UNCHANGED <<deploy, chainVars, venue, dir, current, tx, configVars>>

\* getVaultData: the direction is decided on what it answers.
ReadPosition(c) ==
  /\ At(c, "read")
  /\ \E seen \in PositionRead(venue[c]) :
       /\ dir' = [dir EXCEPT ![c] = IF HasRoom(seen) THEN "deposit" ELSE "withdraw"]
       /\ gain' = IF HasRoom(seen) THEN [gain EXCEPT ![venue[c]] = 0] ELSE gain
  /\ Goto(c, "bind")
  /\ UNCHANGED <<deploy, position, recent, outflow, venue, current, tx, outcome,
                 configVars>>

\* bindForAction, before anything is signed.
Bind(c) ==
  /\ At(c, "bind")
  /\ IF deploy.context THEN Goto(c, "account") /\ UNCHANGED outcome
                       ELSE End(c, "threw")
  /\ UNCHANGED <<deploy, chainVars, venue, dir, current, tx, configVars>>

\* The account the transaction is numbered from.
ReadAccount(c) ==
  /\ At(c, "account")
  /\ current' = [current EXCEPT ![c] = TRUE]
  /\ Goto(c, "prepare")
  /\ UNCHANGED <<deploy, chainVars, venue, dir, tx, outcome, configVars>>

\* The simulation, which asks the smart account as well.
Prepare(c) ==
  /\ At(c, "prepare")
  /\ IF Applicable(venue[c], dir[c]) THEN Goto(c, "send") /\ UNCHANGED outcome
                                     ELSE End(c, "deferred")
  /\ UNCHANGED <<deploy, chainVars, venue, dir, current, tx, configVars>>

\* The network queues the transaction, unless another of the account is there.
Send(c) ==
  /\ At(c, "send")
  /\ current[c]
  /\ tx' = IF Queued THEN tx ELSE [tx EXCEPT ![c] = "pending"]
  /\ Goto(c, "wait")
  /\ UNCHANGED <<deploy, chainVars, venue, dir, current, outcome, configVars>>

\* ... or answers ERROR: the number is used up, or any other reason.
SendRefused(c) ==
  /\ At(c, "send")
  /\ ~current[c] \/ "reject" \in deploy.faults
  /\ End(c, "deferred")
  /\ UNCHANGED <<deploy, chainVars, venue, dir, current, tx, configVars>>

Confirm(c) ==
  /\ At(c, "wait")
  /\ Confirmed(c)
  /\ Goto(c, AfterConfirm(c))
  /\ UNCHANGED <<deploy, chainVars, venue, dir, current, tx, outcome, configVars>>

GiveUp(c) ==
  /\ At(c, "wait")
  /\ GivesUp(c)
  /\ End(c, "deferred")
  /\ UNCHANGED <<deploy, chainVars, venue, dir, current, tx, configVars>>

InsertDecision(c) ==
  /\ At(c, "insert")
  /\ \/ End(c, "recorded")
     \/ "db" \in deploy.faults /\ End(c, "threw")
  /\ UNCHANGED <<deploy, chainVars, venue, dir, current, tx, configVars>>

CycleStep(c) ==
  \/ Gate(c) \/ ReadPosition(c) \/ Bind(c) \/ ReadAccount(c) \/ Prepare(c)
  \/ Send(c) \/ SendRefused(c) \/ Confirm(c) \/ GiveUp(c) \/ InsertDecision(c)

\* The API process dies with every cycle in flight.
Crash ==
  /\ "crash" \in deploy.faults
  /\ \E c \in Cycles : pc[c] # "idle"
  /\ pc' = [c \in Cycles |-> "idle"]
  /\ outcome' = [c \in Cycles |-> IF pc[c] = "idle" THEN outcome[c] ELSE "threw"]
  /\ UNCHANGED <<deploy, chainVars, venue, dir, current, tx, configVars>>

-----------------------------------------------------------------------------
(* The network.                                                            *)

AllStale == current' = [c \in Cycles |-> FALSE]

Settled(c, how) == tx' = [tx EXCEPT ![c] = how]

\* Applied, with effect or without: the number is used up either way.
Land(c) ==
  /\ tx[c] = "pending" /\ current[c]
  /\ \/ /\ Applicable(venue[c], dir[c])
        /\ Transfer(venue[c], dir[c])
        /\ UNCHANGED gain
        /\ Settled(c, "landed")
     \/ /\ ~Applicable(venue[c], dir[c]) \/ "reject" \in deploy.faults
        /\ UNCHANGED chainVars
        /\ Settled(c, "failed")
  /\ AllStale
  /\ UNCHANGED <<deploy, pc, venue, dir, outcome, configVars>>

\* Its number was taken by another transaction, or its 180 s are over.
Drop(c) ==
  /\ tx[c] = "pending"
  /\ ~current[c] \/ "reject" \in deploy.faults
  /\ Settled(c, "dropped")
  /\ UNCHANGED <<deploy, chainVars, pc, venue, dir, current, outcome, configVars>>

\* A job that signs with the same key lands something: a payroll, a treasury flow.
OtherJob ==
  /\ "reject" \in deploy.faults
  /\ AllStale /\ current' # current
  /\ UNCHANGED <<deploy, chainVars, pc, venue, dir, tx, outcome, configVars>>

\* A position earns interest ...
Accrue(v) ==
  /\ "drift" \in deploy.faults /\ v \in deploy.live
  /\ position[v] < Funds /\ gain[v] < MaxGain
  /\ position' = [position EXCEPT ![v] = @ + 1]
  /\ gain' = [gain EXCEPT ![v] = @ + 1]
  /\ UNCHANGED <<deploy, recent, outflow, cycleVars, configVars>>

\* ... and is moved by the other routes that use the same account: a rebalance
\* (Rebalance), a manual deposit or withdrawal.
OtherMove(v, d) ==
  /\ "drift" \in deploy.faults /\ v \in deploy.live
  /\ Applicable(v, d)
  /\ Transfer(v, d)
  /\ IF d = "deposit" THEN gain[v] < MaxGain /\ gain' = [gain EXCEPT ![v] = @ + 1]
                      ELSE UNCHANGED gain
  /\ AllStale
  /\ UNCHANGED <<deploy, pc, venue, dir, tx, outcome, configVars>>

Ledger ==
  /\ deploy.smart
  /\ \E age \in Window : outflow[age] > 0
  /\ Account!Age
  /\ outflow' = [age \in Window |-> IF age = 0 THEN 0 ELSE outflow[age - 1]]
  /\ UNCHANGED <<deploy, position, gain, cycleVars, configVars>>

Edit ==
  /\ deploy.edits
  /\ ConfigNext
  /\ UNCHANGED <<deploy, chainVars, cycleVars>>

-----------------------------------------------------------------------------

Next ==
  \/ \E c \in Cycles, v \in Venues : Begin(c, v)
  \/ \E c \in Cycles : CycleStep(c) \/ Land(c) \/ Drop(c)
  \/ \E v \in Venues : Accrue(v) \/ \E d \in {"deposit", "withdraw"} : OtherMove(v, d)
  \/ Crash \/ OtherJob \/ Ledger \/ Edit

Spec == Init /\ [][Next]_vars

\* Awaits settle: every HTTP call and every poll has a deadline.  The network
\* applies what it queued or lets it expire.
FairSpec ==
  /\ Spec
  /\ \A c \in Cycles : WF_vars(CycleStep(c)) /\ WF_vars(Land(c) \/ Drop(c))

-----------------------------------------------------------------------------
(* Properties.                                                             *)

\* The variables hold values of the kinds declared above.
TypeOK ==
  /\ ConfigTypeOK
  /\ deploy \in Deployments
  /\ position \in [Venues -> Int]
  /\ gain \in [Venues -> Nat]
  /\ outflow \in [Window -> Nat]
  /\ pc \in [Cycles -> {"idle"} \cup InFlight]
  /\ venue \in [Cycles -> Venues]
  /\ dir \in [Cycles -> {"deposit", "withdraw"}]
  /\ current \in [Cycles -> BOOLEAN]
  /\ tx \in [Cycles -> TxStatus]
  /\ outcome \in [Cycles -> Outcomes]

\* As long as positions can be read, cycles carry one above its ceiling by no more
\* than one step for each of them that was under way beside the last, calls given
\* up whose transaction landed late among them, and what it gained from elsewhere
\* since there was room (agentService.ts, lines 75-77 and 143-145).
BandHolds ==
  "blind" \notin deploy.faults =>
    \A v \in Venues :
      position[v] <= Ceiling + Cardinality(deploy.cycles) - 1 + gain[v]

\* No more than the limit leaves the smart account within any window, however many
\* cycles overlap and whatever they believe their position to be
\* (smart-treasury/src/lib.rs, lines 93-119; blend.ts, lines 284-287).
SpendCapped ==
  MapThenSumSet(LAMBDA age : outflow[age], Window) <= SpendingLimit

\* An executed decision names a transaction that landed (agentService.ts,
\* lines 85-88 and 108).
ExecutedMeansLanded ==
  \A c \in Cycles : outcome[c] = "recorded" => tx[c] = "landed"

\* Without a lost answer, a database failure or a crash the converse holds: a
\* move that landed has its decision once the call is over.
MovesAreRecorded ==
  deploy.faults \cap {"lag", "db", "crash"} = {} =>
    \A c \in Cycles :
      pc[c] = "idle" /\ tx[c] = "landed" => outcome[c] = "recorded"

\* Once the switch stays off, the agent's transactions come to an end: what was
\* past the gate finishes, and nothing follows (agent.ts, lines 11-15).
SwitchStops ==
  (deploy.cycles \subseteq Jobs /\ <>[](config # NoRow /\ ~config.enabled))
    => <>[](~Queued)

\* Every cycle returns.
CyclesConclude == \A c \in Cycles : pc[c] # "idle" ~> pc[c] = "idle"

\* What the worker relies on, and does not hold when a cycle is slow or payroll
\* runs beside it: "interleaved so the three tx-producing jobs ... never grab the same Stellar
\* sequence number" (worker/src/index.ts, lines 69-71).
NeverStale == \A c \in Jobs : pc[c] = "send" => current[c]
=============================================================================
