-------------------------- MODULE TreasuryContract --------------------------
(***************************************************************************)
(* The Soroban treasury contract (contracts/treasury/src/lib.rs).          *)
(*                                                                         *)
(* As in PayrollContract, a call that fails is rolled back and so is a     *)
(* stuttering step: every action below is a call that returns Ok.  An      *)
(* addition past i128 panics (overflow-checks are on), which is a failed   *)
(* call too.  The legal-context hash an event carries is opaque to the     *)
(* contract and left out.                                                  *)
(***************************************************************************)
EXTENDS Integers, Sequences

CONSTANTS
  Addresses,    \* Stellar accounts that may sign a call
  Keys,         \* BalanceKey: a tenant's bucket of an asset and a strategy
  Directions,   \* values tried for the argument `direction`
  Amounts,      \* values tried for the i128 argument `amount`
  MaxAmount,    \* i128::MAX
  NoAdmin       \* what the Admin key reads as before `initialize`

ASSUME TreasuryAssumption ==
  /\ NoAdmin \notin Addresses
  /\ Amounts \subseteq Int
  /\ MaxAmount \in Nat

VARIABLES
  admin,        \* DataKey::Admin
  balance,      \* DataKey::Balance, 0 where there is no entry
  flows         \* the ("treasury", direction) events, in ledger order

treasuryVars == <<admin, balance, flows>>

FlowEvent == [key : Keys, direction : {"deposit", "withdraw"}, amount : Int]

Init ==
  /\ admin = NoAdmin
  /\ balance = [k \in Keys |-> 0]
  /\ flows = <<>>

-----------------------------------------------------------------------------

Uninitialized == admin = NoAdmin

\* The argument checks of `record_flow`.
ValidFlow(direction, amount) ==
  /\ amount > 0
  /\ direction \in {"deposit", "withdraw"}

\* The balance a flow leaves in its bucket.
NextBalanceMutant(k, direction, amount) ==
  IF direction = "withdraw" THEN balance[k] + amount ELSE balance[k] - amount
NextBalance(k, direction, amount) ==
  IF direction = "deposit" THEN balance[k] + amount ELSE balance[k] - amount

\* InsufficientBalance, and the overflow check.
CoveredMutant(k, direction, amount) ==
  NextBalance(k, direction, amount) <= MaxAmount
Covered(k, direction, amount) ==
  IF direction = "deposit"
  THEN balance[k] + amount <= MaxAmount
  ELSE balance[k] >= amount

-----------------------------------------------------------------------------

Initialize(a) ==
  /\ Uninitialized
  /\ admin' = a
  /\ UNCHANGED <<balance, flows>>

RecordFlow(signer, k, direction, amount) ==
  /\ admin # NoAdmin /\ signer = admin
  /\ ValidFlow(direction, amount)
  /\ Covered(k, direction, amount)
  /\ balance' = [balance EXCEPT ![k] = NextBalance(k, direction, amount)]
  /\ flows' = Append(flows, [key |-> k, direction |-> direction, amount |-> amount])
  /\ UNCHANGED admin

Next ==
  \/ \E a \in Addresses : Initialize(a)
  \/ \E signer \in Addresses, k \in Keys, d \in Directions, n \in Amounts :
       RecordFlow(signer, k, d, n)

Spec == Init /\ [][Next]_treasuryVars

-----------------------------------------------------------------------------
(* Properties.                                                             *)

\* Storage and events hold values of the declared types.  The balance's range
\* is the contract's stated invariant: no bucket is ever negative (lib.rs, line
\* 11), and none wraps around at i128::MAX.
TypeOK ==
  /\ admin \in Addresses \cup {NoAdmin}
  /\ balance \in [Keys -> 0 .. MaxAmount]
  /\ flows \in Seq(FlowEvent)

\* What a flow adds to its bucket.
Effect(e) == IF e.direction = "deposit" THEN e.amount ELSE -e.amount

\* Storage and the event log say the same of every bucket: replaying a bucket's
\* events gives its balance, whatever was refused in between.
BalancesMatchFlows ==
  \A k \in Keys :
    LET net[n \in Nat] ==
          IF n = 0 THEN 0
          ELSE net[n - 1] + IF flows[n].key = k THEN Effect(flows[n]) ELSE 0
    IN balance[k] = net[Len(flows)]

\* A step that touches storage or the log emits exactly one event and moves
\* exactly the bucket it names, by the amount it names: an auditor who reads the
\* events misses no movement, and no event moves two buckets.
EveryMoveIsLogged ==
  [][balance' # balance \/ flows' # flows =>
       LET e == flows'[Len(flows')] IN
       /\ Len(flows') = Len(flows) + 1
       /\ \A i \in 1 .. Len(flows) : flows'[i] = flows[i]
       /\ balance' = [balance EXCEPT ![e.key] = @ + Effect(e)]]_treasuryVars

\* Once an admin is set, nobody else ever records a flow: `initialize` cannot
\* be called again.
AdminNeverReplaced == [][admin # NoAdmin => admin' = admin]_treasuryVars
=============================================================================
