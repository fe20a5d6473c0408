----------------------- MODULE PayrollContract_proofs -----------------------
(***************************************************************************)
(* Proofs about PayrollContract, for every set of accounts, run ids and    *)
(* argument values.  `Spec` there is the contract on its own: any account  *)
(* may sign any call at any time.                                          *)
(***************************************************************************)
EXTENDS PayrollContract, TLAPS

(***************************************************************************)
(* The inductive invariant: SettledOnce is preserved by `execute_run` only *)
(* because the id it appends has no event yet, which the contract learns   *)
(* from its index, so the index has to match the log.                      *)
(***************************************************************************)
Inv == TypeOK /\ SettledOnce /\ IndexMatchesEvents

-----------------------------------------------------------------------------

\* What `execute_run` appends is a well-typed event.
LEMMA RunEventType ==
  ASSUME NEW r \in RunIds, NEW t \in Totals, NEW n \in Counts, NEW caller
  PROVE  [run |-> r, total |-> t, count |-> n, trigger |-> TriggerOf(caller)]
           \in RunEvent
BY DEF RunEvent, Trigger, TriggerOf

\* Appending an entry keeps the old ones in place and puts it last.
LEMMA AppendFacts ==
  ASSUME NEW S, NEW s \in Seq(S), NEW e \in S
  PROVE  /\ Append(s, e) \in Seq(S)
         /\ Len(Append(s, e)) = Len(s) + 1
         /\ DOMAIN s = 1..Len(s)
         /\ DOMAIN Append(s, e) = 1..(Len(s) + 1)
         /\ \A i \in 1..Len(s) : Append(s, e)[i] = s[i]
         /\ Append(s, e)[Len(s) + 1] = e
OBVIOUS

\* A function on 1..n is a sequence of length n.
LEMMA FunctionIsSequence ==
  ASSUME NEW S, NEW n \in Nat, NEW f \in [1..n -> S]
  PROVE  f \in Seq(S) /\ Len(f) = n
OBVIOUS

-----------------------------------------------------------------------------

\* Every entry point preserves the invariant, from any state that satisfies it:
\* what calls the contract may start from a state of its own.
LEMMA StepKeepsInv == Inv /\ [Next]_contractVars => Inv'
<1> SUFFICES ASSUME Inv, [Next]_contractVars
             PROVE  Inv'
  OBVIOUS
<1> USE DEF Inv
<1>1. ASSUME NEW a \in Addresses, Initialize(a)
      PROVE  Inv'
  BY <1>1 DEF Initialize, TypeOK, SettledOnce, IndexMatchesEvents
<1>2. ASSUME NEW signer \in Addresses, NEW o \in Addresses,
             AddOperator(signer, o)
      PROVE  Inv'
  BY <1>2 DEF AddOperator, TypeOK, SettledOnce, IndexMatchesEvents
<1>3. ASSUME NEW signer \in Addresses, NEW o \in Addresses,
             RemoveOperator(signer, o)
      PROVE  Inv'
  BY <1>3 DEF RemoveOperator, TypeOK, SettledOnce, IndexMatchesEvents
<1>4. ASSUME NEW signer \in Addresses, NEW caller \in Addresses,
             NEW r \in RunIds, NEW t \in Totals, NEW n \in Counts,
             ExecuteRun(signer, caller, r, t, n)
      PROVE  Inv'
  <2> DEFINE e == [run |-> r, total |-> t, count |-> n,
                   trigger |-> TriggerOf(caller)]
  <2>1. e \in RunEvent
    BY RunEventType
  <2>2. /\ events \in Seq(RunEvent)
        /\ events' = Append(events, e)
        /\ executed' = executed \cup {r}
        /\ r \notin executed
        /\ executed = {events[i].run : i \in DOMAIN events}
        /\ UNCHANGED <<admin, operators>>
    BY <1>4 DEF ExecuteRun, NotExecuted, MarkExecuted, TypeOK,
                IndexMatchesEvents
  <2>3. e.run = r
    OBVIOUS
  <2> HIDE DEF e
  <2>4. /\ events' \in Seq(RunEvent)
        /\ Len(events) \in Nat
        /\ DOMAIN events = 1..Len(events)
        /\ DOMAIN events' = 1..(Len(events) + 1)
        /\ \A i \in 1..Len(events) : events'[i] = events[i]
        /\ events'[Len(events) + 1] = e
    BY <2>1, <2>2, AppendFacts
  <2>5. TypeOK'
    BY <2>2, <2>4 DEF TypeOK
  <2>6. SettledOnce'
    BY <2>2, <2>3, <2>4 DEF SettledOnce
  <2>7. IndexMatchesEvents'
    BY <2>2, <2>3, <2>4 DEF IndexMatchesEvents
  <2>8. QED
    BY <2>5, <2>6, <2>7
<1>5. CASE UNCHANGED contractVars
  BY <1>5 DEF contractVars, TypeOK, SettledOnce, IndexMatchesEvents
<1>6. QED
  BY <1>1, <1>2, <1>3, <1>4, <1>5 DEF Next

\* Every reachable state of the contract is well typed, settles each run id at
\* most once and has an idempotency index that matches its events.
THEOREM InvariantHolds == Spec => []Inv
<1>1. Init => Inv
  BY DEF Init, Inv, TypeOK, SettledOnce, IndexMatchesEvents
<1>2. QED
  BY <1>1, StepKeepsInv, PTL DEF Spec

\* A run id settles at most once.
THEOREM SettledOnceHolds == Spec => []SettledOnce
<1>1. Inv => SettledOnce
  BY DEF Inv
<1>2. QED
  BY <1>1, InvariantHolds, PTL

\* `run_executed` answers what the event log says.
THEOREM IndexMatchesEventsHolds == Spec => []IndexMatchesEvents
<1>1. Inv => IndexMatchesEvents
  BY DEF Inv
<1>2. QED
  BY <1>1, InvariantHolds, PTL

\* Once an admin is in place no call replaces it.
THEOREM AdminIsFixed == Spec => AdminNeverReplaced
<1>1. [Next]_contractVars => [admin # NoAdmin => admin' = admin]_contractVars
  BY DEF Next, Initialize, Uninitialized, AddOperator, RemoveOperator,
         ExecuteRun, contractVars
<1>2. QED
  BY <1>1, PTL DEF Spec, AdminNeverReplaced

-----------------------------------------------------------------------------
(* Refinement of the append-only ledger.                                   *)

\* The ledger entry an event stands for.
Entries ==
  [i \in DOMAIN events |->
     [run |-> events[i].run, total |-> events[i].total,
      count |-> events[i].count]]

\* Every entry point settles a run in the ledger or leaves it alone.
LEMMA StepSettles == Inv /\ [Next]_contractVars => [Ledger!Next]_Entries
<1> SUFFICES ASSUME Inv, [Next]_contractVars
             PROVE  [Ledger!Next]_Entries
  OBVIOUS
<1>1. ASSUME NEW signer \in Addresses, NEW caller \in Addresses,
             NEW r \in RunIds, NEW t \in Totals, NEW n \in Counts,
             ExecuteRun(signer, caller, r, t, n)
      PROVE  Ledger!Settle(r, t, n)
  <2> DEFINE e == [run |-> r, total |-> t, count |-> n,
                   trigger |-> TriggerOf(caller)]
             f == [run |-> r, total |-> t, count |-> n]
  <2>1. /\ events \in Seq(RunEvent)
        /\ events' = Append(events, e)
        /\ r \notin {events[i].run : i \in DOMAIN events}
        /\ t > 0
        /\ n > 0
    BY <1>1, ContractAssumption
       DEF ExecuteRun, NotExecuted, ValidRun, Inv, TypeOK, IndexMatchesEvents
  <2>2. /\ Len(events) \in Nat
        /\ DOMAIN events = 1..Len(events)
        /\ DOMAIN events' = 1..(Len(events) + 1)
        /\ \A i \in 1..Len(events) : events'[i] = events[i]
        /\ events'[Len(events) + 1] = e
    BY <2>1, RunEventType, AppendFacts
  <2>3. Entries \in [1..Len(events) ->
                      [run : RunIds, total : Totals, count : Counts]]
    <3>1. \A i \in 1..Len(events) : events[i] \in RunEvent
      BY <2>1, <2>2
    <3>2. QED
      BY <2>2, <3>1 DEF Entries, RunEvent
  <2>4. /\ Entries \in Seq([run : RunIds, total : Totals, count : Counts])
        /\ Len(Entries) = Len(events)
        /\ DOMAIN Entries = 1..Len(events)
    BY <2>2, <2>3, FunctionIsSequence
  <2>5. r \notin {Entries[i].run : i \in DOMAIN Entries}
    BY <2>1, <2>2, <2>4 DEF Entries
  <2>6. Entries' = Append(Entries, f)
    BY <2>2, <2>3, <2>4 DEF Entries
  <2>7. QED
    BY <2>1, <2>5, <2>6 DEF Ledger!Settle, Ledger!Settled, Entries
<1>2. CASE UNCHANGED events
  BY <1>2 DEF Entries
<1>3. QED
  BY <1>1, <1>2 DEF Next, Initialize, AddOperator, RemoveOperator,
                    contractVars, Ledger!Next

\* The contract implements the append-only ledger of distinct run ids.
THEOREM ContractImplementsLedger == Spec => ImplementsLedger
<1>1. Init => Ledger!Init
  BY DEF Init, Ledger!Init
<1>2. QED
  BY <1>1, StepSettles, InvariantHolds, PTL
     DEF Spec, ImplementsLedger, Ledger!Spec, Entries
=============================================================================
