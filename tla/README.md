# Contextio in TLA+

A model of the parts of Contextio that move money, bind it to a legal context,
or show a tenant what it has: the payroll and treasury contracts and the smart
account; the API's `executeRun`, `prepareRun`/`submitRun`, `rebalance`, yield and
lending cycles and the configuration they obey; the worker that calls them; the
legal context every action is bound to; and wallet sign-in, the API's cache of
on-chain positions and the dashboard's live data. TLC checks the models on small
instances, and TLAPS proves the central results for every instance.

`tla/PROJECT.json` lists the runs, their properties, the lines of the source
each definition stands for, the hazards and the theorems. Paths in this file
are relative to `src/`.

    tlc -workers 2 -config Runs.cfg MCPayrollRuns      # one run
    tlapm Payroll_proofs.tla                           # one proof module

## 1. The system

A tenant holds a stablecoin treasury and pays its staff from it. Four
processes and a ledger take part:

| part | code | state it keeps | operations that change it |
|---|---|---|---|
| API | `apps/api` | none of its own: it reads and writes the database | HTTP handlers; each request is a chain of awaits |
| worker | `apps/worker` | timers, one "running" flag per task | `scheduledPayroll`, rebalance and yield jobs, which call the API |
| dashboard | `apps/web` | a stored session, a module-level cache, the state of each page | sign-in, loads, forms, signing envelopes with the user's wallet |
| database | `supabase/migrations` | schedules, runs, positions, decisions, legal contexts, treasury configuration, users and memberships, audit log | row inserts and upserts, one at a time and with no transaction around them |
| contracts | `contracts/payroll`, `contracts/treasury`, `contracts/smart-treasury` | admin, operators, settled run ids; balances per strategy; rules and spending history; events | `execute_run`, `add_operator`, `record_flow`, `__check_auth`, ... |

Nothing locks across awaits. Two requests, a request and a worker job, or a
request and a crash may meet at any await, and every write of a row replaces
the whole row with what was read some awaits before. That, the two independent
transactions of a payroll run (the payout on the classic network, the record on
the contract), and the confirmations that may be lost, are what is hard here.

### Components

| component | hard behaviour | what makes it correct |
|---|---|---|
| payroll contract | repeated and reordered calls, changing operators | a run id settles once; index and events agree; it is an append-only ledger |
| payroll run (`executeRun`) | two transactions, lost confirmations, crashes, overlapping runs, stale row written back | a status never claims more than the chain has; no record without its payout; every transaction leaves a row; simulation, dry runs and mainnet never settle |
| worker, scheduled payroll | retries, restarts, stale due list, forms that write the date back, failing schedules in front of healthy ones | no payday skipped; while users leave the date alone none served twice and none early; no retry storm; no starvation |
| legal context | publish is a read and a later write; bindings outlive versions | one context id per tenant; a version names one document; recorded bindings stay verifiable |
| treasury contract | i128 boundaries, withdrawal of the exact balance | balances are the replay of the events and stay in range |
| rebalance | venue, contract and two rows changed in turn; check far from the write | settled moves are covered; books, venues and contract agree; nothing minted by a partial failure; a decision that is not cut off runs once |
| self-custody payouts (`prepareRun`/`submitRun`) | two requests with a wallet in between; two envelopes numbered before either is sent; relayer or not | of two envelopes with one number one lands; a completed row's envelopes landed; a row never claims less than was paid; payments form a ledger |
| treasury configuration, agent switch | two read-modify-writes of one row, one of them signed | serial toggles keep the rules; a switch that stays off stops the agent |
| yield and lending cycles | a position read awaits before the move; one signing account and one position for every tenant and route; transactions that land after their call gave up; failed reads counted as zero | cycles leave the band by no more than the moves under way; a decision names a landed move, and conversely |
| smart treasury account, spending limit | rules numbered by the constructor, named by the API | no more than the limit leaves in a window |
| Stellar client, sequence numbers | read, build, send are awaits of their own | part of the self-custody and cycle models; a fault elsewhere |
| wallet sign-in | look up, then insert, from several browsers | a wallet is one user |
| treasury snapshot and cache | overlapping reads, a clock that starts at their end, one platform wallet behind every tenant's page | no answer older than the cache allows |
| dashboard live data | late answers, a key that changes under a mounted page, missed notices | the cache holds no other tenant's data; a settled page shows its session's; a page left alone catches up |
| agent planner | closed package, not in the repository | not modelled; any move is a possible proposal |
| fiat anchors, market data, AI, SDK, audit log | no state other components read | not modelled |

## 2. The modules

| module | models | composes |
|---|---|---|
| `RunLedger` | what a payroll contract promises: an append-only log of runs with distinct ids | |
| `PayrollContract` | `contracts/payroll/src/lib.rs`, one action per entry point | refines `RunLedger` (`ImplementsLedger`) |
| `Cadence` | what `executeRun` and the worker's loop count by: a tenant's schedules, hours, the backoff | |
| `PayrollRuns` | `PayrollService.executeRun`, one action per await, with Horizon, the payroll contract, the tenant's edits, database faults and API crashes | extends `Cadence`, instantiates `PayrollContract` |
| `PayrollWorker` | who calls `executeRun`: the worker's job under its scheduler, worker restarts, users | extends `PayrollRuns` |
| `PayrollTicks` | the worker's loop over many schedules, hour after hour, with a run, or a throw, as one step | extends `Cadence` |
| `LegalContext` | `publish`, `bindForAction` and the recorded bindings | |
| `TreasuryContract` | `contracts/treasury/src/lib.rs`, one action per entry point | |
| `Rebalance` | `TreasuryService.rebalance` and its three routes (`/treasury/rebalance`, `/agent/propose` with `execute`, `/agent/decisions/:id/execute`), one action per await | instantiates `TreasuryContract` |
| `SelfCustody` | `prepareRun`, the wallet in `PayoutsPanel`, `submitRun`, the client's envelopes and the relayer | instantiates `PayrollContract`; its payments refine `RunLedger` (`PaidLikeALedger`) |
| `TreasuryConfig` | `saveConfig` and `setAgentEnabled` over one row | |
| `SmartAccount` | the rules of `contracts/smart-treasury` and the spending limit (library code, modelled from its use) | |
| `AgentCycles` | `runYieldCycle`, `runBlendCycle`, their clients, the platform account and the position they share with everything else | extends `TreasuryConfig`, instantiates `SmartAccount` |
| `WalletSignIn` | `connect`, `signOut`, `WalletAuthService`, users and memberships, several browsers | |
| `Dashboard` | `useLiveData`, an API endpoint with or without the snapshot cache, Realtime | extends `WalletSignIn` |
| `*_proofs` | theorems about the module they are named after; `Payroll_proofs` about `PayrollRuns`, `PayrollWorker` and `PayrollTicks`; `Dashboard_proofs` also about `WalletSignIn`; `AgentCycles_proofs` about `TreasuryConfig` and `SmartAccount` | |
| `MC*` | instances for TLC | |

### How state and actions correspond to the code

**Contracts.** A call that returns an error or panics is rolled back by the
host, so only calls that return `Ok` are actions, and a refused call is a
stuttering step. TTL extension is left out: an expired persistent entry is
archived and restored, not lost. Storage is `admin`, `operators`, `executed`,
`balance`; events are sequences.

**`PayrollRuns`.** An element of `Calls` is one call of `executeRun`; since the
code draws a fresh `randomUUID()` per call, it is also the run id. `pc[c]` names
the await the call is at, and `snap[c]`, `payees[c]`, `job[c]` are its locals.
`row` is `payroll_schedules`, `run` the status column of `payroll_runs`.
`payout[c]` and `record[c]` are the two transactions: a transaction that is
`pending` lands or is dropped whether or not the call still waits for it, which
is what a polling timeout leaves behind. The clock counts units of
`FAILURE_BACKOFF_MS`. `occ` numbers the occurrence a row stands for; the code
has no such number and no action reads it, it lets properties say "the same
payday". `env` is the deployment: network, whether there is a secret, whether
there is an issuer, and the faults considered; it never changes. Amounts are
abstract (the sign of a total is all any guard looks at).

`SaveSchedule` is what `saveSchedule` does: the form a user sends replaces the
whole row, date, cadence, employees and switch, however long ago it was opened.
A form may therefore move a payday forward or back, or undo an advance; `redated`
remembers the schedules whose date a form has moved. A form with another date
makes the row stand for the payday of that date, which may be one that has been
served. `staff` is how each employee is paid; a run takes the employees its row
lists as they are when `buildRunLines` reads them.

**`PayrollWorker`.** `queue` is the due list of the current tick, `serving` the
call the worker awaits. The scheduler's rule that a task does not overlap itself
and the job's sequential loop are `WorkerIdle`. A restart forgets both variables
and leaves the call running in the API.

**`PayrollTicks`.** A date is the hours from now to it. `RunFails` is the one failure
the code backs off, a settlement that fails. `BackoffLost` is the same with one of
the two writes after it lost, and `RunThrows` a call that throws anywhere else;
both leave the row as due as it was. `lost` and `thrown` remember them.

**`LegalContext`.** Every document carries its `publishedAt`, so no two publish
calls build the same one: a hash is named by the call that computed it. `rows`
is the table by primary key, with its unique `(tenant_id, version)` constraint.

**`Rebalance`.** `held` and `stored` are `treasury_positions` (amount, and
whether the row exists, since a conflicting insert fails), `venue` what the
platform really has in Blend and in the mock vault. The two `applyPositionDelta`
calls are a read and a write each. `setting` names one of the uses of the
instance: whether calls overlap, what may go wrong, whether the gateway has a key or
simulates, what is asked. `SymbolOf` is what the gateway makes of a strategy
reference: of more than 32 characters it leaves "blend" or "defindex", so the
contract may keep one balance for two pools. `late[c]` is a transaction whose
polling timed out: the call has thrown, and it may still land (`LandsLate`).
`acted` remembers the calls whose move took effect anywhere, whatever became of
the call.

**`SelfCustody`.** An element of `Payouts` is one call of `prepareRun` (and its
run id), an element of `Submits` one of `submitRun`. `status[p][k]` and
`number[p][k]` are the payment and the record envelope of a payout: what the
ledger has made of it, and the sequence number it was built with. `seq` is the
account's last number, which other transactions of the same wallet move too
(`OtherTransaction`). `row` is the total a completed `payroll_runs` row claims.
`env` is the deployment. `consent` stands for a document that names the consent
`prepareRun` asks for; the documents the repository builds never do, and the
deployment with `consent` off shows that every payout is then refused.

**`AgentCycles`.** A cycle is one call of a route together with the transaction it
leaves behind; its name is used again once both are over. A caller that starts
again while its last transaction may still land (a user after the 30 s of polling,
a job that goes on to the next tenant, a restarted worker) is therefore another
cycle, and `deploy.cycles` says how many may be under way. `pc[c]` is the await of
the cycle, `current[c]` whether the account it read is still the latest, `tx[c]` its
transaction. Amounts are counted in steps of the size a cycle moves, and a
position in the whole steps it holds: the ceiling is a whole number of them, so the
cycle decides the same on either. The position also earns interest (`Accrue`) and
is moved by rebalances and manual moves (`OtherMove`); `gain` counts what it gained
that way since a cycle last found room in it. `recent` is the smart account's own
spending history, `outflow` what has really left: the two differ if a rule is named
wrongly, and that is what `SpendCapped` compares. An edit of the configuration is a
call of one of the two handlers.

**`WalletSignIn`.** `step[t]` is the await at which the sign-in of a browser is;
the locals of the two requests are forgotten when they end. Users are named by
the browser that inserted them. Signatures and HMACs are guards.

**`Dashboard`.** An element of `Loads` is one call of `load`, with the session of
its closure; `by` says whether the component it belongs to is the one on the
page, one that was left, or one of a page that was reloaded. `version` numbers the
changes of an owner's data, `since` the ticks since a value was read. Owners are
the tenants and the platform: `GET /treasury` reads the one platform wallet and its
positions whoever asks, and the tenant's own rows only if that shows nothing
(`ReadChain`), so `Rightful` says whose data may stand under a key. `site` is
the deployment, the users' manners and the events considered.

## 3. The runs

| run | instance | question |
|---|---|---|
| `PayrollContract` | 3 signers, 3 run ids, valid and invalid totals and counts | can any sequence of calls settle an id twice, lose an event, or leave the ledger specification? |
| `Runs` | 1 schedule, 2 employees, 2 calls, three deployments, a form that changes every field | what may a status, a record or a transaction mean, whatever overlaps or fails? |
| `Worker` | 3 calls of one worker over 2 hours, three fault mixes, forms with every date | what can retries do to a payday, while forms are saved that leave its date alone? |
| `WorkerUsers` | 1 worker call, 1 user call, worker restarts | is a payday ever left behind unpaid, and does every run conclude? |
| `Ticks` | 2 healthy and 2 broken schedules, throws at any call, unbounded time | does the loop storm or starve? |
| `Legal` | 4 publish calls, 3 actions | what survives overlapping publishes? |
| `SelfCustody` | 2 payouts, 2 submissions, seven deployments, three staffs | what may a signed envelope do, and what may its row say? |
| `AgentCycles` | 2 cycles at once of jobs, users and other tenants, ten deployments, 2 edits of the configuration | band, cap, records, switch, termination |
| `Dashboard` | 2 browsers, 2 wallets, 2 tenants, 2 loads at once, 2 changes, a cache of 2 ticks, the platform's wallet; seven sites | who is a wallet, whose data is kept and shown, and how old? |
| `TreasuryContract` | 2 strategies, amounts up to one past the limit, 6 flows | do balances stay the replay of the events? |
| `Rebalance` | 3 calls, three routes, five settings | do books, venues and contract agree, and what does a partial failure cost? |
| `RetryPaysTwice` | small | the code against one sentence of its docs (section 6) |

### What the passing runs show

* A run the database calls `completed` is settled on chain
  (`CompletedMeansSettled`), and the contract never holds a record of a payroll
  whose wallets were not paid (`RecordImpliesPaid`), although status and record
  are written several awaits, possible timeouts and crashes after the payout.
* Whatever was sent leaves a run row and had a legal context (`MoneyLeavesARow`).
  A dry run settles nothing (`DryRunIsHarmless`).
* Whatever overlaps, fails or restarts, no payday is left behind without a completed
  run, unless a user moves the date (`NoPaydaySkipped`).
* The next four are about paydays whose date no user has moved, with the worker
  alone with the API; what else users save in forms changes nothing. A payday is
  paid once as long as only the payout may fail and fails visibly
  (`ConfirmedPaydaysPaidOnce`); with lost confirmations it may be paid twice, but
  without crashes and database faults never with two `completed` runs
  (`CompletedOncePerPayday`); once a call has returned nothing more is started for
  its payday (`ServedIsNotRepaid`); nothing is paid ahead of its date
  (`WorkerPaysWhatIsDue`). A form that moves the date breaks all four (section 6).
* A settlement that keeps failing is tried once an hour, and once more for each
  backoff the database loses (`NoRetryStorm`). As long as nothing but settlements
  fails, no schedule falls behind without bound (`LatenessBounded`), and from such a
  time on every schedule that can be paid catches up (`HealthySchedulesCatchUp`).
  A call that throws before it settles is not backed off: it is tried at every poll,
  and if its schedule heads the list for good, the ones behind it are not reached.
* The context id survives first publishes that race (`ContextIdStable`), because
  the unique version constraint turns the loser away; while publish calls come one
  after another a version names one document (`VersionNamesOneDocument`).
* Serial rebalances keep books, venues and contract together, and a partial
  failure loses money from the books but never creates any (`NothingMinted`). No
  position is ever written negative, calls overlapping or not (`TypeOK`). The moves
  such calls settle are covered (`SerialMovesAreCovered`); `BooksMatchVenues` is of
  undisturbed calls, and of the platform's position as far as rebalances move it.
  Of serial calls that moved the money of one decision, by either route, at most one
  was not cut off (`SerialDecisionOnce`): a call that failed or crashed before it
  wrote "executed" leaves a proposal that can be carried out again.
* However often a self-custody payout is signed and submitted, its payment lands
  at most once (`PaidLikeALedger`), two envelopes with one number never both land
  (`NeverBothLand`), a completed row's envelopes landed unless a relayer was
  trusted (`CompletedMeansLanded`), and a row claims at least what was paid while
  the staff is not edited in between (`BooksAgree`). The client is `PayoutsPanel`,
  which submits under a run id the envelopes prepared for it; the API does not check
  that.
* Cycles carry a position above its ceiling by at most one step for each that may
  be under way beside the last, calls given up whose transaction lands late among
  them, and what it gained from elsewhere since there was room (`BandHolds`); when
  positions cannot be read there is no such bound, and the smart account still caps
  what leaves (`SpendCapped`). Decisions and landed moves agree
  (`ExecutedMeansLanded`, `MovesAreRecorded`). A switch that stays off ends the
  agent's transactions (`SwitchStops`), toggles one after another keep the rules
  (`SerialTogglesKeepRules`), and every cycle ends (`CyclesConclude`).
* A wallet has one user however many browsers it signs in from at once
  (`OneIdentityPerWallet`): the look-up and the insert are awaits apart, and the
  unique index turns the second one away.
* However late answers arrive, the page's cache never holds another tenant's data
  (`CacheIsOwn`): on the treasury page what it holds is mostly the platform's, the
  same under every key. A page at rest shows its own session's data if every request
  succeeds and the session only changes while the page is at rest
  (`SettledPageIsOwn`); no answer is older than the cache's lifetime and the longest
  read, whichever of two overlapping reads stores last (`AnswersAreRecent`); and a
  page left alone ends up showing the last version (`EventuallyShows`).

### Bounds, and why they are enough

* *Calls.* Every safety property of `PayrollRuns`, `LegalContext` and `Rebalance`
  relates at most two calls, and a call reaches another only through the rows both
  read and write, so two calls that overlap at every await already interfere in
  every way two can; the third of `Rebalance` and `Worker` meets what the first
  two left behind, and the fourth publish call of `Legal` lets a straggler meet
  two versions. The theorems of section 5 remove the bound.
* *Schedules.* Calls on different schedules share only the contract, which keeps
  their run ids apart; `Ticks` has four schedules because its subject is the
  order between them.
* *`MaxTime`.* 0 in `Runs` and `WorkerUsers`, where only the order of steps
  matters; 2 in `Worker`, twice the backoff, so a retry can fail again.
* *`Forms`, `Employees`.* `Runs` has one form, which changes every field at once,
  and two employees so that a form and an edit of the staff can each decide who is
  paid. `Worker` and `WorkerUsers` have the forms with any date the clock reaches,
  switch on or off. `OthersKeepWallets` (`Runs`) keeps the employee the form does not
  list on a wallet.
* *`WorkerBound`* (`Worker`). A constraint that does not go on once a form has moved
  the one schedule's date, of which the four properties say nothing then, and that
  keeps the crash deployment to one hour and to a tenant that pays wallets: a crash
  leaves the schedule due at once. The theorems have neither.
* *`PayingTenant`* (`WorkerUsers`). A constraint to tenants with a context and
  wallets to pay. A call refused earlier takes a path that ends in a few steps and
  starts nothing, and `NoPaydaySkipped` is proved without the constraint.
* *`MaxLate`* (`Ticks`). Lateness is counted no further than 5 hours. It stays
  within the number of failing schedules and one (`LatenessBoundedHolds`), 3 in
  the run, so the floor loses nothing.
* *`PollsPerHour`* (`Ticks`). Two polls an hour instead of twelve: the second
  already meets the schedule the first one backed off.
* *`MaxFlows`, `MaxAmount`* (`TreasuryContract`). Six flows and a limit of 3
  reach the limit, cross it and come back.
* *`Funds`, `Amounts`, `SymbolOf`* (`Rebalance`). Amounts below, at and above what the
  source bucket holds, and two references the contract takes for one.
* *`MaxOther`, `MaxEdits`* (`SelfCustody`). One foreign transaction is enough to
  make a number stale, one edit to make the recomputed lines differ. Two submits
  are the same payout twice, or two payouts at once.
* *`Ceiling`, `Funds`, `SpendingLimit`, `PeriodLedgers`* (`AgentCycles`). A
  ceiling of 2 steps is reached and crossed by overlapping deposits; a limit of 3
  in a window of 2 is met, refused, and freed again as the window moves on. Names of
  cycles are used again without bound, and two of them may be under way: a call and
  the late transaction of the call before it, or two callers.
* *`MaxGain`* (`AgentCycles`). A position gains at most 2 steps from elsewhere between
  two readings that find room: enough to cross the ceiling that way and to meet a
  deposit decided below it. The theorem is for any `MaxGain`.
* *`MaxChanges`, `TTL`, `MaxRead`, `Loads`* (`Dashboard`). Two changes let a
  notice arrive during the load the one before it caused; a lifetime of 2 ticks
  and a read of at most 1 let a read overlap the expiry, and an older read be
  stored last. Two loads are the old session's and the new one's. Only the
  watching sites change data, since nothing else reads versions.
* *Symmetry* is used over calls, payouts, submissions and publishers only, in runs without liveness:
  nothing but equality is ever asked of them.

Deadlock is checked where the system cannot stop. `Legal`, `Rebalance` and
`SelfCustody` turn it off: their calls are used up; `AgentCycles` and `Dashboard`
do because a deployment may allow no cycle, and users may stop. The schedules, the tenant and the clock keep
the payroll instances going.

## 4. Fairness

`FairWorkerSpec` (`WorkerUsers`) assumes weak fairness of each call of
`executeRun` and nothing of the network, the worker or the tenant: the event loop
resumes a call whose await has settled, and every await settles, because polling
(`pollTransaction`, `client.ts`) and Horizon's submission have deadlines.
`RunsConclude` holds because the client gives up on its own; if it waited for
the network it would not, since no transaction is assumed ever to land. It
excludes API crashes and database faults, after which the code leaves a run
`executing`.

`FairSpec` of `AgentCycles` assumes weak fairness of each step of a cycle (every
await has a deadline: 30 s of polling, 45 s of the DeFindex client's request)
and that the network applies a queued transaction or lets it expire (time bounds
of 180 s). It assumes nothing of when jobs start, of edits or of ledgers closing.

`FairSpec` of `Dashboard` assumes that React mounts the page and runs the
callbacks of notices, and that each request is answered. `EventuallyShows` states
in its premise what the code does not guarantee: that the channel has joined
before the page loads, that requests keep their order, and that the endpoint has
no cache behind it. Without them it fails (`LiveStale`, section 6).

`FairTicksSpec` of `PayrollTicks` assumes that timers fire, that awaited calls return
and that time passes. It assumes nothing of when calls throw; the premise of
`HealthySchedulesCatchUp` says that they stop doing so.

## 5. What is proved

Every theorem is checked by TLAPS to the last leaf, for every value of the
constants. Together they state every invariant and action property of the
passing runs.

| module | theorems | argument |
|---|---|---|
| `PayrollContract_proofs` | `SettledOnceHolds`, `IndexMatchesEventsHolds`, `AdminIsFixed`, `ContractImplementsLedger` | the invariant says that the index of settled ids is exactly the ids of the events, and no two events share one |
| `Payroll_proofs` (`PayrollRuns`) | `TypesHold`, `CompletedMeansSettledHolds`, `RecordImpliesPaidHolds`, `MoneyLeavesARowHolds`, `SimulationStaysOffChainHolds`, `DryRunIsHarmlessHolds`, `MainnetReportsNothingHolds` | see *One run* below |
| `Payroll_proofs`, `SelfCustody_proofs`, `Rebalance_proofs` (the contracts) | `EventMeansPaidHolds`, `ApiKeepsLedger`, `WorkerKeepsLedger`, `RecordsImplementLedger`, `OneEntryPerRunHolds`, `ContractReplaysHolds` | see *The contracts in use* below |
| `Payroll_proofs` (`PayrollRuns`) | `NoPaydaySkippedHolds` | a call that has read occurrence n found n paydays covered before it, and moves the row on only after its own run is completed; an older call that writes the row back moves it backwards, over paydays that stay covered |
| `Payroll_proofs` (`PayrollWorker`) | `WorkerRecordImpliesPaid`, `WorkerSkipsNoPayday`, `WorkerKeepsLedger` | a lemma (`WorkerRuns`) says that a behaviour of the composition is one of `PayrollRuns`, so what is proved of any callers holds of the worker, its restarts and users |
| `Payroll_proofs` (`PayrollWorker`) | `ServedIsNotRepaidHolds`, `WorkerPaysWhatIsDueHolds`, `CompletedOncePerPaydayHolds`, `ConfirmedPaydaysPaidOnceHolds` | see *A payday* below |
| `Payroll_proofs` (`PayrollTicks`) | `TicksTypesHold`, `NoRetryStormHolds` | a schedule whose settlement failed this hour, and whose backoff was written, is due in the next one at the earliest, and a list names only what is due, once |
| `Payroll_proofs` (`PayrollTicks`) | `LatenessBoundedHolds` | see *Lateness* below |
| `SelfCustody_proofs` | `InvariantHolds`, `NeverBothLandHolds`, `CompletedMeansLandedHolds`, `BooksAgreeHolds`, `PaymentsImplementLedger` | both envelopes are numbered from reads of the account made before either is sent; landing raises the account's number to the envelope's own, which leaves the other behind; what a submission has seen land follows from its await; the ledger of payments is the set of payment envelopes that landed; while no edit intervenes, the lines signed and the lines recomputed are still the staff's, and whatever wrote a row, an event or a payment wrote it of them |
| `AgentCycles_proofs` | `InvariantHolds`, `BandHoldsAlways`, `ExecutedMeansLandedHolds`, `MovesAreRecordedHolds` | every deposit in flight was decided when the position was below the ceiling, and what it gained from elsewhere since then is in `gain`: position plus deposits in flight is bounded by the ceiling, the cycles that may be under way less one, and the gain (`BandInv`) |
| `AgentCycles_proofs` | `SpendCappedHolds` | the reserve leaves only through the rule that limits it, so the account's history of that rule is exactly what has left, and the account checked the sum of its window before it let the last transfer through |
| `AgentCycles_proofs` (`TreasuryConfig`) | `SerialTogglesKeepRulesHolds` | as long as edits have come one at a time, a toggle between its read and its write holds the row as it is |
| `Rebalance_proofs` | `TypesHold`, `SerialMovesAreCoveredHolds`, `NothingMintedHolds`, `SerialDecisionOnceHolds`, `BooksMatchVenuesHolds` | see *A rebalance* below |
| `LegalContext_proofs` | `InvariantHolds`, `VersionNamesOneDocumentHolds`, `ContextIdStableHolds` | every row but one stays at version 1, below that one, so it is the only row anybody reads and every later document goes into it; a publisher that read no row and comes late is turned away by the unique constraint, or becomes such a row below. While publishers have been serial, a binding is to the row's document or to one of an earlier version |
| `Dashboard_proofs` | `InvariantHolds`, `CacheIsOwnAlways`, `AnswersAreRecentAlways`, `OneIdentityPerWalletHolds` | a value is the tenant's whose session it was asked for with wherever it is, or the platform's on an endpoint that shows that; a usable snapshot's data is no older than the snapshot's age and one read, and both grow together; no two rows of users share a wallet, and what a session names is never deleted |
| `Dashboard_proofs` | `SettledPageIsOwnHolds` | while users wait and nothing fails, every load of the page on screen was asked with the session it has now, and once none is left the last to end has written its answer |
| `TreasuryContract_proofs` | `TypesHold`, `BalancesMatchFlowsHolds`, `EveryMoveIsLoggedHolds`, `AdminIsFixed` | each entry point keeps the balance between 0 and the limit, and changes storage only together with its event; an event appended to the log changes the replay of its own strategy by its effect, and of no other |

*One run.* The properties of `PayrollRuns` are not inductive. `RecordImpliesPaid`, for
instance, says nothing of a record that is still in flight, and that it holds
when the record lands depends on where the call was when it sent it, perhaps
before it crashed. The inductive invariant `IInv` has two parts for each call.
`PlaceInv` says what a call has done by the await it is at: before the insert
nothing is sent, from the insert on a context exists, at `record` the payout has
landed, at `markCompleted` the record has. `ChainInv` says what each transaction
carries with it wherever its call is by now: a record that was sent was paid, an
id is settled exactly if its record landed, and whatever was sent has a row. Each
action preserves both; the four state properties follow from `ChainInv` alone,
and `DryRunIsHarmless` from `PlaceInv`.

*The contracts in use.* `PayrollContract_proofs` and `TreasuryContract_proofs` are
about a contract that anybody may call. Their step lemmas (`StepKeepsInv`,
`StepSettles`, `StepKeepsReplay`) hold from any state of the invariant, so the
modules that drive a contract instantiate the proofs: a step of `executeRun`, of
`submitRun` or of `rebalance` is an entry point of the contract or leaves it alone
(`StepCallsContract`). So the contract's log is the ledger of distinct runs under
the API, under the wallets, and, because a behaviour of `PayrollWorker` is one of
`PayrollRuns`, under the worker. With what the callers' invariants add, the log says more than the
contract can promise alone: an event means that the wallets were paid
(`EventMeansPaid`), while in self-custody it means that the wallet sent no payment
of that run, since no run is on both ledgers (`OneEntryPerRun`).

*A payday.* The four properties relate two calls whose lives may lie far apart.
They are stated of schedules whose date no user has moved (`DateKept`), and proved of
a worker that has the API to itself (`UserCalls = {}` and `~Restarts`, the hypotheses
of the theorems): with a form that moves the date, a user's run or a restart beside
it they fail, as section 6 shows. Users may save everything else, at any await, and
the call writes it over. `SoleInv` says
that at most one call is in progress and that it is the one the worker serves,
that whatever is left of the due list is due, and that no call is ahead of the row
of its schedule: its occurrence is the row's while it is midway, at most the
row's at any time, and less once it has returned. A later call therefore meets
the row the earlier one left. `CompletedInv` and `PaidInv` add that a call that
was completed, or that paid, either has yet to advance the row, and is the one in
progress, or has left its payday behind. `CompletedOncePerPayday` excludes crashes and
database faults, after which a completed run may leave its row where it was.

*A rebalance.* `SerialMovesAreCovered` and `NothingMinted` rest on one
invariant, `SerialInv`: while calls do not overlap, only one call is in
progress, so what it has read of a bucket is what the bucket holds, and the
positions add up to at most what the tenant funded, with the amount of a call
that is between its debit and its credit to spare. A call that ends there leaves
that much missing. `SerialDecisionOnce` rests on it too: the calls whose move took
effect are past the check of the status (`SentInv`), at most one of them is in
progress, and one that returned has left the decision "executed" for good. What is
left is a call that was cut off.
`BooksMatchVenues` compares the venues with sums of positions,
across writes that are awaits apart: `BookInv` says at each await how far a venue is
ahead of the books. It also shows that the contract refuses nothing, since
a refusal leaves the venue moved and the books not. A withdrawal is always
covered there, because the contract's balance is at least what the positions
say. That a deposit does not run over the limit is a hypothesis of the theorem:
every amount is at most `cap`, and `cap` times the number of calls is at most
`MaxAmount`, which is 2^127 - 1 in the code. The run's instance meets it (3
calls, amounts up to 3, a limit of 9).

*Lateness.* As long as nothing but settlements fails (`~thrown`), with `b` failing
schedules none is ever more than `b + 1` hours late,
failing or not, however many schedules, polls and hours there are. Each hour at
least one failing schedule is backed off if any is due, and it is the latest of
them: a tick goes through its list by date and ends at the first that fails. So at most
`b - k + 1` failing schedules are `k` hours late, and one fewer once the hour's
first tick is over (`LateInv`). A schedule that can be paid waits only behind
failing ones at least as late as itself. The hypothesis, that `MaxLate` exceeds
`b + 1`, keeps the model's floor on dates out of the way and restricts nothing in
the code. TLC checked `LateInv` for up to three failing schedules first.

*Sums and folds.* The sums over a window, over positions and over a log are the
folds of the community modules or functions of an index. The induction theorems
of the library take an operator as a parameter and cannot be used; where a sum
over any finite set or a log of any length is needed, the proofs take the set of
counterexamples and its least element, or apply a set form of induction on
subsets proved in the module (`SubsetInduction` in `AgentCycles_proofs` and
`Rebalance_proofs`).

Assumptions: `CadenceAssumption` (the tenant has a schedule, and finitely many; the
period is positive); `PayrollAssumption` (a deployment on
mainnet has no secret, which `assertMainnetHasNoHotKey` enforces at boot; the
admin is not the absence of one; there is an employee, and forms are what
`scheduleSchema` accepts: a date, a cadence, at least one employee, the switch); `WorkerAssumption` (user calls are calls, and
`NoCall` is none); `TicksAssumption` (failing schedules are schedules; the bounds
on polls and lateness are positive);
`CustodyAssumption` (a schedule's wallet part is at most its total; service and
wallet are different accounts); `RebalanceAssumption` and `SettingsAssumption` (there are
finitely many references and at least one, each with a symbol; there is an amount to
move; a decision's payload is a move); `LegalAssumption` (the absence of a document is neither a publisher nor a
stored document); `CyclesAssumption` and `ConfigAssumption` (cycles are
finitely many, and those the switch stops are not the others; every deployment has a
cycle; the ceiling is positive; the default rules are rules); `SignInAssumption` and `DashboardAssumption` (there is a wallet;
`None` is no value; the platform is no tenant; the lifetime is positive).
`SpendCappedHolds` assumes of the deployment that the reserve token is not itself a
target of the gateway rule, since that rule has no limit.

Proved and not run, because a run says nothing the proof does not:
`AdminNeverReplaced` of both contracts, `EveryMoveIsLogged`, the type invariants
of the treasury contract, `SelfCustody`, `AgentCycles` and `Dashboard` (each part
of its `IInv`) and of `PayrollTicks` (part of `ListInv`), `SimulationStaysOffChain` and `MainnetReportsNothing` of
`PayrollRuns`, and the theorems about the contracts in use, which follow from
properties the runs check.

**Only model-checked.** `RunsConclude`, `HealthySchedulesCatchUp`, `SwitchStops`,
`CyclesConclude` and `EventuallyShows`, since liveness is out of the prover's
reach.

## 6. Where the code and its documentation disagree

The run `RetryPaysTwice` is a counterexample to a sentence of the repository, and
so are the cfgs `BackoffDrifts`, `HistoryOverwritten` and `UncoveredMove`, which
are not in `PROJECT.json` and are run the same way:

* `RetryPaysTwice` (`PaidOncePerPayday`). `contracts/README.md:44` says a retried submission is
  rejected rather than paying twice. `executeRun` draws a new run id per attempt,
  so a payout that landed before its record was rejected is paid again an hour
  later. It takes no fault at all if a form that was opened before the run is saved
  after it: `saveSchedule` writes the old date back and the payday is paid again
  (the same cfg with `Environments <- NothingFails` and `Forms <- DateForms`).
* `BackoffDrifts`. `payrollService.ts:256` says a schedule advances from the date
  it was scheduled for, so the rhythm does not drift. The backoff of line 237
  overwrites that date.
* `HistoryOverwritten`. `legalContextService.ts:41` says historical bindings stay
  verifiable. `publish` upserts on the id of the row it read, so the old version
  is gone.
* `UncoveredMove`. `treasuryService.ts:237` says a move the source bucket cannot
  cover never settles. Two requests that overlap both pass the check.
* `UncoveredMove` with `DecisionOnce` as its invariant. `routes/agent.ts:120` refuses
  a decision that is not a proposal any more. Two overlapping requests both execute
  one decision; and so do two serial ones (`Settings <- FaultsOnly`) if the first
  throws before it writes "executed", for instance because the confirmation of its
  move was lost.

Others came up on the way; each has a `.cfg` that reproduces it (TLC reports the
named property violated):

| cfg, with the MC module | property | what happens |
|---|---|---|
| `NoIssuer`, `MCPayrollRuns` | `CompletedMeansPaid` | without `USDC_ISSUER` a run is recorded, completed and audited as paid, and no wallet is paid |
| `OneOffPaidTwice`, `MCPayrollWorker` | `OneOffNeverRecurs` | the worker and a user who run a one-off schedule at once both pay it |
| `StaleDueList`, `MCPayrollWorker` | `WorkerPaysWhatIsDue` | a schedule a user has just run is paid again, ahead of its date, from a due list read before |
| `PayoutRefused`, `MCLegalContext` | `PayoutCanBind` | `prepareRun` asks for a consent no document can contain, so a self-custody payout is refused |
| `ChainDrifts`, `MCRebalance` | `BooksMatchChain` | a move from venue to venue is recorded on chain as a deposit only |
| `SecondEnvelopeDead`, `MCSelfCustody` | `SecondEnvelopeUsable` | both envelopes of a payout are built on one number, so once the payment has landed the record can not |
| `SwitchUnsigned`, `MCAgentCycles` | `SwitchIsSigned` | saving the risk panel writes the agent's switch too, without the owner's signature |
| `RulesLost`, `MCAgentCycles` | `TogglesKeepRules` | a toggle writes back limits read before another call saved new ones |
| `SequenceClash`, `MCAgentCycles` | `NeverStale` | two jobs build on one account number although they are started apart |
| `OthersShown`, `MCDashboard` | `EveryPageIsOwn` | a load of the old session answers last and stays on the page of the new one |
| `LiveStale`, `MCDashboard` | `LiveWithoutPolling` | the load a notice causes is answered from the API's cache, and nothing loads again; of what changes on the ledger nothing notifies at all |

`WorkerPaysWhatIsDue` and its three companions need `DateKept` for the same reason:
without it `DateForms` violates each of them with no fault. A user who postpones a
schedule after the due list was read, for one, is paid early, since `executeRun`
never looks at the date.

`treasuryService.ts:136` and `161-165` read one platform address and its positions for
every tenant, so `GET /treasury` shows each tenant the same wallet as its own, and
the tenant's rows only when that wallet shows nothing. The model states whose data is
shown (`Rightful`) and does not judge it.

Proving `BooksMatchVenues` showed one more, of a single request: `rebalanceSchema`
(`schemas.ts:65`) lets a move name one strategy as source and target. `rebalance`
then supplies the amount to the venue once more, and its two writes of the
position cancel out. The property excludes such moves (`Undisturbed`).

The passing runs check what is left of these properties: `ConfirmedPaydaysPaidOnce`,
`CompletedOncePerPayday`, `SerialMovesAreCovered`, `SerialDecisionOnce`,
`NeverBothLand`, `SerialTogglesKeepRules`, `SettledPageIsOwn` and `EventuallyShows`
name the condition under which each holds. They do not catch the hazards outside
it: overlapping publish calls, edits of the staff or of the configuration in between,
and failures in the middle of a rebalance are shown by the cfgs above and named in the
notes of `PROJECT.json`'s hazards.

## 7. Not modelled

* *Data the properties do not tell apart*: amounts per employee, memo and binding
  fields, exchange rates and the valuation of balances, roles within a tenant,
  formatting, wording and logging, the audit log, which no component reads.
* *Presentation*, which is most of the implementation by lines: pages, charts,
  translations, the pitch and the landing page. Of `apps/web` the models have
  what keeps state across awaits: the session, the live-data hook, the payout
  panel's signing loop and the risk panel's save. The share of the code the map
  covers is low for that reason, and because most of the rest of `client.ts`,
  `blend.ts` and `defindex.ts` encodes and decodes.
* *The planner*: `@contextio/agent-planner` is a closed package that is not in
  the repository. `Rebalance` lets it propose any move.
* *The anchors, BlindPay, the AI and price integrations*: they answer with canned
  data or read an external service with a fallback, and keep no state. The SDK is
  a typed HTTP client.
* *Capabilities and the mainnet allowlist*: checks of one request without state.
  Row level security is not modelled: the services use the service role.
* *The calendar of `advanceCadence`*: a period stands for it. That a monthly
  payday on the 31st moves to the next month's first days
  (`payrollService.ts:38`) is a property of one date, and only listed as a hazard.
* *The database as a whole failing in the middle of a statement, and the loss of
  the API's memory other than through a crash of a call*: the rows are written
  one statement at a time, and each statement is atomic.
