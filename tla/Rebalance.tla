------------------------------ MODULE Rebalance ------------------------------
(***************************************************************************)
(* TreasuryService.rebalance (apps/api/src/services/treasuryService.ts)    *)
(* and its callers: POST /treasury/rebalance, POST /agent/propose with     *)
(* execute: true, and POST /agent/decisions/:id/execute.  Calls interleave *)
(* at every await over the positions of the database, the venues (Blend    *)
(* and the mock DeFindex vault) and the treasury contract.                 *)
(*                                                                         *)
(* A transaction whose confirmation did not come within the 30 s the       *)
(* client polls (client.ts, line 525) counts as failed and is valid for    *)
(* longer, so it may land while the call is over: `late`.                  *)
(*                                                                         *)
(* One tenant and one asset.  The legal binding is LegalContext's subject, *)
(* and a network other than testnet refuses every call (PayrollRuns has    *)
(* that guard), so calls start after both.                                 *)
(***************************************************************************)
EXTENDS Integers, Sequences, FiniteSets, Functions

CONSTANTS
  Calls,        \* calls of rebalance
  Refs,         \* strategyRef: the vaults and pools moves may name
  SymbolOf,     \* what the contract is told of a strategyRef: one of more than
                \* 32 characters is cut down to "blend" or "defindex"
  Amounts,      \* amountBaseUnits a request may carry
  Decisions,    \* the agent's stored decisions, none of them a noop
  Payload,      \* the move each decision proposes
  NoDecision,   \* a call that executes no decision
  NoRef,        \* strategyRef of the liquidity bucket: null
  Funds,        \* what the tenant's liquidity bucket holds at first
  DefindexLive, \* DeFindex is configured, so rebalance leaves it alone
  Settings,     \* the uses considered, by name: see Setting
  Platform,     \* the platform service account, admin of the contract
  NoAdmin,
  MaxAmount     \* i128::MAX

FaultKinds == {"venue", "contract", "db", "crash"}

Strategies == {"liquidity", "defindex_vault", "blend_pool"}
Venues == Strategies \ {"liquidity"}

ASSUME RebalanceAssumption ==
  /\ Amounts \subseteq Nat /\ Amounts # {}
  /\ IsFiniteSet(Refs) /\ Refs # {} /\ DOMAIN SymbolOf = Refs
  /\ Funds \in Nat
  /\ DefindexLive \in BOOLEAN
  /\ NoDecision \notin Decisions
  /\ NoRef \notin Refs
  /\ NoAdmin # Platform
  /\ MaxAmount \in Nat

\* The strategies the contract keeps apart.
Symbols == {SymbolOf[r] : r \in Refs}

\* A bucket of treasury_positions.  Liquidity has a null strategy_ref.
Buckets == {<<"liquidity", NoRef>>} \cup (Venues \X Refs)
Bucket(strategy, ref) == <<strategy, IF strategy = "liquidity" THEN NoRef ELSE ref>>

VARIABLES
  setting,      \* the use this behaviour is about, the name of a setting
  held,         \* amount_base_units of each bucket, 0 without a row
  stored,       \* the buckets that have a row
  venue,        \* what the platform really has in each venue
  decision,     \* agent_decisions.status, "none" without a row
  pc,           \* where each call is
  job,          \* what each call was asked to do
  seen,         \* the amount each call last read, to be written back
  insert,       \* whether that read found no row, so the write is an insert
  late,         \* the transaction a call gave up on and that may still land
  acted,        \* history: the calls whose move took effect at a venue or the contract
  admin, balance, flows    \* the treasury contract

treasuryVars == <<admin, balance, flows>>
dbVars == <<held, stored, decision>>
sentVars == <<late, acted>>
vars == <<setting, dbVars, venue, pc, job, seen, insert, sentVars, treasuryVars>>

Move == [from : Strategies, to : Strategies, ref : Refs, amount : Amounts]
Job == [move : Move, decision : Decisions \cup {NoDecision}]

\* A use of the service: whether calls overlap, what may go wrong, whether the
\* gateway has a key and a contract to record flows with, which moves are
\* requested and which decisions are proposed.
Setting ==
  [overlap : BOOLEAN, faults : SUBSET FaultKinds, live : BOOLEAN,
   requests : SUBSET Move, decisions : SUBSET Decisions]

ASSUME SettingsAssumption ==
  /\ Payload \in [Decisions -> Move]
  /\ \A name \in DOMAIN Settings : Settings[name] \in Setting

Overlap == Settings[setting].overlap
Faults == Settings[setting].faults
Live == Settings[setting].live
Requests == Settings[setting].requests
Executable == Settings[setting].decisions

Running == {"propose", "find", "check", "defindex", "blend", "record", "readFrom",
            "writeFrom", "readTo", "writeTo", "decide"}
Finished == {"returned", "threw", "crashed"}

Contract == INSTANCE TreasuryContract WITH
  Addresses <- {Platform}, Keys <- Symbols, Directions <- {"deposit", "withdraw"}

AnyJob == CHOOSE j \in Job : TRUE

\* A tenant that has funded its liquidity and allocated none of it.
Init ==
  /\ setting \in DOMAIN Settings
  /\ held = [b \in Buckets |-> IF b[1] = "liquidity" THEN Funds ELSE 0]
  /\ stored = {b \in Buckets : b[1] = "liquidity"}
  /\ decision = [d \in Decisions |-> "none"]
  /\ venue = [v \in Venues |-> 0]
  /\ pc = [c \in Calls |-> "idle"]
  /\ job = [c \in Calls |-> AnyJob]
  /\ seen = [c \in Calls |-> 0]
  /\ insert = [c \in Calls |-> FALSE]
  /\ late = [c \in Calls |-> "nothing"]
  /\ acted = {}
  /\ admin = Platform
  /\ balance = [k \in Symbols |-> 0]
  /\ flows = <<>>

-----------------------------------------------------------------------------
(* Decisions of the call.                                                  *)

Amount(c) == job[c].move.amount
FromBucket(c) == Bucket(job[c].move.from, job[c].move.ref)
ToBucket(c) == Bucket(job[c].move.to, job[c].move.ref)
Symbol(c) == SymbolOf[job[c].move.ref]

\* assertCanDebit
CanDebitMutant(c) == TRUE
CanDebit(c) == held[FromBucket(c)] >= Amount(c)

\* What rebalance asks of a venue: a deposit if the venue is the target, else a
\* withdrawal if it is the source.
VenueMoveMutant(v, c) ==
  IF job[c].move.to = v THEN Amount(c) ELSE 0
VenueMove(v, c) ==
  IF v = "defindex_vault" /\ DefindexLive THEN 0
  ELSE IF job[c].move.to = v THEN Amount(c)
  ELSE IF job[c].move.from = v THEN -Amount(c)
  ELSE 0

\* How the contract is told of the move.
Direction(c) == IF job[c].move.to = "liquidity" THEN "withdraw" ELSE "deposit"

\* The amount each of the two writes leaves, from the amount it read.
DebitedMutant(c) == seen[c]
Debited(c) == seen[c] - Amount(c)
Credited(c) == seen[c] + Amount(c)

\* applyPositionDelta refuses to write a negative amount.
NotNegativeMutant(c) == TRUE
NotNegative(c) == Debited(c) >= 0

\* Where a rebalance goes once it has written both positions.
AfterWrites(c) == IF job[c].decision = NoDecision THEN "returned" ELSE "decide"

-----------------------------------------------------------------------------
(* The steps of one call, one per await.                                   *)

Goto(c, from, to) ==
  /\ pc[c] = from
  /\ pc' = [pc EXCEPT ![c] = to]

MayStart == Overlap \/ \A c \in Calls : pc[c] \notin Running

Receive(c, m) ==
  /\ MayStart
  /\ Goto(c, "idle", "check")
  /\ job' = [job EXCEPT ![c] = [move |-> m, decision |-> NoDecision]]
  /\ UNCHANGED <<dbVars, venue, seen, insert, sentVars, treasuryVars>>

\* A decision nobody has stored or is about to store: its id is a fresh UUID.
Unused(d) ==
  /\ decision[d] = "none"
  /\ \A c \in Calls : job[c].decision = d => pc[c] = "idle"

\* POST /agent/propose: the plan is stored as a proposal.
Propose(d) ==
  /\ Unused(d)
  /\ decision' = [decision EXCEPT ![d] = "proposed"]
  /\ UNCHANGED <<held, stored, venue, pc, job, seen, insert, sentVars, treasuryVars>>

\* POST /agent/propose with execute: true, for a plan that is no noop: once it is
\* stored, the call goes on with the move.
ReceiveProposal(c, d) ==
  /\ MayStart /\ Unused(d)
  /\ Goto(c, "idle", "propose")
  /\ job' = [job EXCEPT ![c] = [move |-> Payload[d], decision |-> d]]
  /\ UNCHANGED <<dbVars, venue, seen, insert, sentVars, treasuryVars>>

InsertProposal(c) ==
  /\ Goto(c, "propose", "check")
  /\ decision' = [decision EXCEPT ![job[c].decision] = "proposed"]
  /\ UNCHANGED <<held, stored, venue, job, seen, insert, sentVars, treasuryVars>>

\* POST /agent/decisions/:id/execute, of a decision its caller has seen.
ReceiveDecision(c, d) ==
  /\ MayStart /\ decision[d] # "none"
  /\ Goto(c, "idle", "find")
  /\ job' = [job EXCEPT ![c] = [move |-> Payload[d], decision |-> d]]
  /\ UNCHANGED <<dbVars, venue, seen, insert, sentVars, treasuryVars>>

\* listDecisions, and 409 unless the decision is still a proposal.
StillProposedMutant(c) == TRUE
StillProposed(c) == decision[job[c].decision] = "proposed"
FindDecision(c) ==
  /\ Goto(c, "find", IF StillProposed(c) THEN "check" ELSE "threw")
  /\ UNCHANGED <<dbVars, venue, job, seen, insert, sentVars, treasuryVars>>

Check(c) ==
  /\ Goto(c, "check", IF CanDebit(c) THEN "defindex" ELSE "threw")
  /\ UNCHANGED <<dbVars, venue, job, seen, insert, sentVars, treasuryVars>>

\* DeFindex is asked first, Blend second; a venue cannot give what it lacks.
AskVenue(v, c, from, to) ==
  /\ venue[v] + VenueMove(v, c) >= 0
  /\ Goto(c, from, to)
  /\ venue' = [venue EXCEPT ![v] = @ + VenueMove(v, c)]
  /\ acted' = acted \cup {x \in {c} : VenueMove(v, c) # 0}
  /\ UNCHANGED <<dbVars, job, seen, insert, late, treasuryVars>>

AskDefindex(c) == AskVenue("defindex_vault", c, "defindex", "blend")
AskBlend(c) == AskVenue("blend_pool", c, "blend", "record")

\* The venue refuses, or reports a failure.  What Blend reports as failed may be
\* a transaction it lost sight of; the DeFindex mock has none.
VenueFails(v, c, from) ==
  /\ VenueMove(v, c) # 0
  /\ \/ /\ venue[v] + VenueMove(v, c) < 0
        /\ late' = late
     \/ /\ "venue" \in Faults
        /\ late' = [late EXCEPT ![c] = IF v = "blend_pool" THEN "blend" ELSE @]
  /\ Goto(c, from, "threw")
  /\ UNCHANGED <<dbVars, venue, job, seen, insert, acted, treasuryVars>>

DefindexFails(c) == VenueFails("defindex_vault", c, "defindex")
BlendFails(c) == VenueFails("blend_pool", c, "blend")

\* soroban.recordTreasuryFlow: accepted by the contract, or refused by it.  A
\* gateway without a key or a contract answers with a simulated hash.
Flow(c) == Contract!RecordFlow(Platform, Symbol(c), Direction(c), Amount(c))

Record(c) ==
  /\ Goto(c, "record", "readFrom")
  /\ \/ Live /\ Flow(c)
     \/ ~Live /\ UNCHANGED treasuryVars
  /\ acted' = acted \cup {c}
  /\ UNCHANGED <<dbVars, venue, job, seen, insert, late>>

RecordRefused(c) ==
  /\ Live
  /\ ~ /\ Contract!ValidFlow(Direction(c), Amount(c))
       /\ Contract!Covered(Symbol(c), Direction(c), Amount(c))
  /\ Goto(c, "record", "threw")
  /\ UNCHANGED <<dbVars, venue, job, seen, insert, sentVars, treasuryVars>>

\* applyPositionDelta, twice: listPositions, then upsertPosition of the sum.
ReadPosition(c, b, from, to) ==
  /\ Goto(c, from, to)
  /\ seen' = [seen EXCEPT ![c] = held[b]]
  /\ insert' = [insert EXCEPT ![c] = b \notin stored]
  /\ UNCHANGED <<dbVars, venue, job, sentVars, treasuryVars>>

ReadFrom(c) == ReadPosition(c, FromBucket(c), "readFrom", "writeFrom")
ReadTo(c) == ReadPosition(c, ToBucket(c), "readTo", "writeTo")

\* An insert of a bucket that got its row meanwhile breaks uq_positions_bucket.
RowConflict(c, b) == insert[c] /\ b \in stored

WritePosition(c, b, amount, from, to) ==
  /\ Goto(c, from, to)
  /\ held' = [held EXCEPT ![b] = amount]
  /\ stored' = stored \cup {b}
  /\ UNCHANGED <<decision, venue, job, seen, insert, sentVars, treasuryVars>>

WriteFrom(c) ==
  /\ NotNegative(c) /\ ~RowConflict(c, FromBucket(c))
  /\ WritePosition(c, FromBucket(c), Debited(c), "writeFrom", "readTo")

WriteTo(c) ==
  /\ ~RowConflict(c, ToBucket(c))
  /\ WritePosition(c, ToBucket(c), Credited(c), "writeTo", AfterWrites(c))

WriteRefused(c) ==
  /\ \/ /\ ~NotNegative(c) \/ RowConflict(c, FromBucket(c))
        /\ Goto(c, "writeFrom", "threw")
     \/ /\ RowConflict(c, ToBucket(c))
        /\ Goto(c, "writeTo", "threw")
  /\ UNCHANGED <<dbVars, venue, job, seen, insert, sentVars, treasuryVars>>

\* repo.updateDecision(status: "executed")
Decide(c) ==
  /\ Goto(c, "decide", "returned")
  /\ decision' = [decision EXCEPT ![job[c].decision] = "executed"]
  /\ UNCHANGED <<held, stored, venue, job, seen, insert, sentVars, treasuryVars>>

\* The contract call or the database fails, and rebalance throws from where it
\* is.  A contract call that failed may be one whose confirmation was lost.
RecordFault(c) ==
  /\ Live /\ "contract" \in Faults
  /\ Goto(c, "record", "threw")
  /\ late' = [late EXCEPT ![c] = "record"]
  /\ UNCHANGED <<dbVars, venue, job, seen, insert, acted, treasuryVars>>

DbFault(c) ==
  /\ "db" \in Faults
  /\ pc[c] \in Running \ {"defindex", "blend", "record"}
  /\ pc' = [pc EXCEPT ![c] = "threw"]
  /\ UNCHANGED <<dbVars, venue, job, seen, insert, sentVars, treasuryVars>>

\* What a call that stops where it is leaves on its way to the chain.
Unconfirmed(c) ==
  IF pc[c] = "blend" /\ VenueMove("blend_pool", c) # 0 THEN "blend"
  ELSE IF pc[c] = "record" /\ Live THEN "record"
  ELSE late[c]

\* The DeFindex mock lives in the API's memory and starts anew with it.
Crash ==
  /\ "crash" \in Faults
  /\ \E c \in Calls : pc[c] \in Running
  /\ pc' = [c \in Calls |-> IF pc[c] \in Running THEN "crashed" ELSE pc[c]]
  /\ late' = [c \in Calls |-> Unconfirmed(c)]
  /\ venue' = [venue EXCEPT !["defindex_vault"] = 0]
  /\ UNCHANGED <<dbVars, job, seen, insert, acted, treasuryVars>>

\* A transaction lands after its call is over.
LandsLate(c) ==
  /\ \/ /\ late[c] = "blend"
        /\ venue["blend_pool"] + VenueMove("blend_pool", c) >= 0
        /\ venue' = [venue EXCEPT !["blend_pool"] = @ + VenueMove("blend_pool", c)]
        /\ UNCHANGED treasuryVars
     \/ /\ late[c] = "record"
        /\ Flow(c)
        /\ UNCHANGED venue
  /\ late' = [late EXCEPT ![c] = "nothing"]
  /\ acted' = acted \cup {c}
  /\ UNCHANGED <<dbVars, pc, job, seen, insert>>

CallStep(c) ==
  \/ InsertProposal(c) \/ FindDecision(c) \/ Check(c)
  \/ AskDefindex(c) \/ DefindexFails(c) \/ AskBlend(c) \/ BlendFails(c)
  \/ Record(c) \/ RecordRefused(c)
  \/ ReadFrom(c) \/ WriteFrom(c) \/ ReadTo(c) \/ WriteTo(c) \/ WriteRefused(c)
  \/ Decide(c)
  \/ RecordFault(c) \/ DbFault(c)

Next ==
  /\ \/ \E c \in Calls :
          \/ \E m \in Requests : Receive(c, m)
          \/ \E d \in Executable : ReceiveProposal(c, d) \/ ReceiveDecision(c, d)
          \/ CallStep(c)
          \/ LandsLate(c)
     \/ \E d \in Executable : Propose(d)
     \/ Crash
  /\ UNCHANGED setting

Spec == Init /\ [][Next]_vars

-----------------------------------------------------------------------------
(* Properties.                                                             *)

\* The rows, the calls and the contract hold values of the declared types.  No
\* position is ever written negative, however calls overlap: applyPositionDelta
\* checks what it is about to write, not what rebalance saw before it settled.
TypeOK ==
  /\ setting \in DOMAIN Settings
  /\ held \in [Buckets -> Nat]
  /\ stored \subseteq Buckets
  /\ decision \in [Decisions -> {"none", "proposed", "executed"}]
  /\ venue \in [Venues -> Nat]
  /\ pc \in [Calls -> {"idle"} \cup Running \cup Finished]
  /\ job \in [Calls -> Job]
  /\ seen \in [Calls -> Nat]
  /\ insert \in [Calls -> BOOLEAN]
  /\ late \in [Calls -> {"nothing", "blend", "record"}]
  /\ acted \subseteq Calls
  /\ Contract!TypeOK

AtRest == \A c \in Calls : pc[c] \notin Running

\* What calls may be asked to do.
Asked == Requests \cup {Payload[d] : d \in Executable}

\* Calls come one after another, nothing fails on the way, and no move names one
\* strategy as source and target (which rebalanceSchema lets pass: the venue is
\* supplied and the two writes cancel out).
Undisturbed ==
  /\ ~Overlap /\ Faults = {}
  /\ \A m \in Asked : m.from # m.to

\* A move the contract has recorded can be booked: when its debit comes to be
\* written, the source bucket still covers it ("never settle a move the source
\* bucket can't cover", treasuryService.ts, lines 237-239).
SettledMovesAreCovered ==
  \A c \in Calls : pc[c] = "writeFrom" => seen[c] >= Amount(c)

\* It holds while calls do not overlap, whatever fails between them.
SerialMovesAreCovered == ~Overlap => SettledMovesAreCovered

\* What the positions say is in the venues under one symbol of the contract.
InVenues(k) == SumFunctionOnSet(held, {b \in Venues \X Refs : SymbolOf[b[2]] = k})

\* Whenever no call is in progress, the contract's balance of a strategy is what
\* the positions say the tenant has there.
BooksMatchChain ==
  Live /\ AtRest => \A k \in Symbols : balance[k] = InVenues(k)

\* The venues rebalance drives, and what the positions say is in one.
Driven == {v \in Venues : ~(v = "defindex_vault" /\ DefindexLive)}
Booked(v) == SumFunctionOnSet(held, {v} \X Refs)

\* Whenever no undisturbed call is in progress, the positions of a venue add up
\* to what the calls have put there, for moves between venues too.  A call that is
\* cut off leaves them apart, and the lending cycle moves the same Blend account.
BooksMatchVenues ==
  Undisturbed /\ AtRest => \A v \in Driven : venue[v] = Booked(v)

\* No failure or crash between the two writes of a rebalance creates money: the
\* debit is written before the credit, so a move that is cut short loses its
\* amount from the books rather than counting it twice.
NothingMinted == ~Overlap => SumFunction(held) <= Funds

\* Calls that carry out one decision, and the calls that were cut off.
SameDecision(c1, c2) ==
  c1 # c2 /\ job[c1].decision = job[c2].decision /\ job[c1].decision # NoDecision
CutOff == {c \in Calls : pc[c] \in {"threw", "crashed"}}

\* The money of a decision is moved at most once ("Decision already ...", 409 at
\* routes/agent.ts, line 120).
DecisionOnce == \A c1, c2 \in acted : ~SameDecision(c1, c2)

\* While calls do not overlap, a decision whose money was moved by a call that is
\* not cut off is not carried out again: of two calls that moved it, the guard on
\* the status has been got around only by one that failed or crashed before it
\* wrote "executed" (agentService.ts, line 333), and left a proposal behind.
SerialDecisionOnce ==
  ~Overlap => \A c1, c2 \in acted \ CutOff : ~SameDecision(c1, c2)
=============================================================================
