-------------------------- MODULE Rebalance_proofs --------------------------
(***************************************************************************)
(* Proofs about Rebalance, for every set of calls, vaults, amounts and     *)
(* decisions and every use of the service: what the check before a move    *)
(* is worth when its debit is written, what the books say of the venues,   *)
(* what a partial failure may do to the tenant's total, and that the       *)
(* contract's balances stay the replay of its events.                      *)
(*                                                                         *)
(* The books are compared as sums over all buckets, so the module starts   *)
(* with the lemmas about SumFunctionOnSet they need, proved by induction   *)
(* over the finite subsets of the domain.                                  *)
(***************************************************************************)
EXTENDS Rebalance, TLAPS, FiniteSetTheorems, WellFoundedInduction

-----------------------------------------------------------------------------
(* The inductive invariants.                                               *)

Total == SumFunction(held)

\* While calls do not overlap, at most one is in progress.
Alone ==
  \A c, d \in Calls : pc[c] \in Running /\ pc[d] \in Running => c = d

\* What the call in progress knows of the rows it is about to write, and what a
\* decision's status says of the call that carries it out.
PlaceInv(c) ==
  /\ pc[c] \in {"defindex", "blend", "record", "readFrom"} =>
       held[FromBucket(c)] >= Amount(c)
  /\ pc[c] = "writeFrom" =>
       seen[c] = held[FromBucket(c)] /\ seen[c] >= Amount(c)
  /\ pc[c] = "writeTo" => seen[c] = held[ToBucket(c)]
  /\ job[c].decision # NoDecision =>
       /\ pc[c] = "propose" => decision[job[c].decision] = "none"
       /\ pc[c] \in Running \ {"propose", "find"} =>
            decision[job[c].decision] = "proposed"
       /\ pc[c] = "returned" => decision[job[c].decision] = "executed"
  /\ pc[c] \in {"propose", "find", "decide"} => job[c].decision # NoDecision

\* Only a call that was cut off leaves a transaction behind, and only one that got
\* past its check has moved money.
SentInv(c) ==
  /\ late[c] # "nothing" => c \in CutOff
  /\ c \in acted => pc[c] \notin {"idle", "propose", "find", "check"}

\* What is debited and not yet credited is missing from the books.
TotalInv ==
  /\ Total <= Funds
  /\ \A c \in Calls :
       pc[c] \in {"readTo", "writeTo"} => Total + Amount(c) <= Funds

SerialInv == ~Overlap => Alone /\ TotalInv /\ \A c \in Calls : PlaceInv(c)

\* How far venue v is ahead of the books while call c is in progress.
Ahead(v, c) ==
  CASE pc[c] = "blend" -> IF v = "defindex_vault" THEN VenueMove(v, c) ELSE 0
    [] pc[c] \in {"record", "readFrom", "writeFrom"} -> VenueMove(v, c)
    [] pc[c] \in {"readTo", "writeTo"} ->
         IF job[c].move.to = v THEN Amount(c) ELSE 0
    [] OTHER -> 0

\* The calls the contract may have been told of.
Recorded ==
  {c \in Calls : pc[c] \notin {"idle", "propose", "find", "check", "defindex", "blend",
                            "record"}}

\* How far the contract is at least from what the positions say is in the venues,
\* while call c is in progress.
Lead(c) ==
  IF job[c].move.to # "liquidity"
  THEN IF pc[c] \in {"readFrom", "writeFrom", "readTo", "writeTo"}
       THEN Amount(c) ELSE 0
  ELSE IF pc[c] \in {"readFrom", "writeFrom"} THEN -Amount(c) ELSE 0

\* The books agree with the venues and do not exceed the contract's balances,
\* given how far call c has got.
Level(c) ==
  /\ \A v \in Driven : venue[v] = Booked(v) + Ahead(v, c)
  /\ Live => \A k \in Symbols :
       balance[k] >= InVenues(k) + IF k = Symbol(c) THEN Lead(c) ELSE 0

\* What call c has read of the rows still holds.
Fresh(c) ==
  /\ pc[c] = "writeFrom" => insert[c] = (FromBucket(c) \notin stored)
  /\ pc[c] = "writeTo" => insert[c] = (ToBucket(c) \notin stored)

\* The books, the venues and the contract, as long as nothing goes wrong.  The
\* contract refuses nothing: it holds at least what the positions say, so it
\* covers every withdrawal, and too little to overflow.
BookInv(cap) ==
  /\ AtRest => /\ \A v \in Driven : venue[v] = Booked(v)
               /\ Live => \A k \in Symbols : balance[k] >= InVenues(k)
  /\ \A c \in Calls : pc[c] \in Running => Level(c) /\ Fresh(c) /\ job[c].move \in Asked
  /\ \A k \in Symbols : balance[k] <= cap * Cardinality(Recorded)
  /\ \A c \in Calls : late[c] = "nothing"

UndisturbedInv(cap) == Undisturbed => BookInv(cap)

-----------------------------------------------------------------------------
(* Sums.  SumFunctionOnSet is a fold: a function over the subsets of the   *)
(* set, defined by recursion.  That such a function exists is proved by    *)
(* induction over subsets, from a minimal counterexample.                  *)

\* A family of subsets that holds a set whenever it holds all its proper
\* subsets is all of them.
LEMMA SubsetInduction ==
  ASSUME NEW S, IsFiniteSet(S), NEW U \in SUBSET SUBSET S,
         \A s \in SUBSET S : (\A t \in SUBSET s : t # s => t \in U) => s \in U
  PROVE  U = SUBSET S
<1> SUFFICES ASSUME U # SUBSET S
             PROVE  FALSE
  OBVIOUS
<1> DEFINE B == {s \in SUBSET S : s \notin U}
<1>1. B \subseteq FiniteSubsetsOf(S) /\ B # {}
  BY FS_Subset DEF FiniteSubsetsOf
<1>2. PICK t \in B : \A y \in B : ~(<<y, t>> \in StrictSubsetOrdering(S))
  <2> HIDE DEF B
  <2> QED
    BY <1>1, FS_StrictSubsetOrderingWellFounded, WFMin
<1>3. ASSUME NEW s \in SUBSET t, s # t
      PROVE  s \in U
  <2>1. <<s, t>> \in StrictSubsetOrdering(S)
    BY <1>3 DEF StrictSubsetOrdering
  <2>2. QED
    BY <1>2, <2>1
<1>4. QED
  BY <1>3

\* The element a fold takes from a set first.
Pick(s) == CHOOSE x \in s : TRUE

\* g is the fold's function for f over the subsets of S, and the equation it
\* satisfies at each set of a family.
IsFold(S, f, g) ==
  g = [s \in SUBSET S |-> IF s = {} THEN 0 ELSE f[Pick(s)] + g[s \ {Pick(s)}]]
Sums(f, g, D) ==
  \A s \in D : g[s] = IF s = {} THEN 0 ELSE f[Pick(s)] + g[s \ {Pick(s)}]

LEMMA PickIn == \A s : s # {} => Pick(s) \in s
BY DEF Pick

\* Two functions that satisfy the equation below a set agree on it.
LEMMA SumsUnique ==
  ASSUME NEW S, IsFiniteSet(S), NEW f, NEW g, NEW h,
         Sums(f, g, SUBSET S), Sums(f, h, SUBSET S)
  PROVE  \A s \in SUBSET S : g[s] = h[s]
<1> DEFINE U == {s \in SUBSET S : g[s] = h[s]}
<1>1. ASSUME NEW s \in SUBSET S, \A t \in SUBSET s : t # s => t \in U
      PROVE  s \in U
  <2>1. s # {} => s \ {Pick(s)} \in U
    BY <1>1, PickIn
  <2>2. QED
    BY <2>1 DEF Sums
<1>2. U \in SUBSET SUBSET S
  OBVIOUS
<1>3. U = SUBSET S
  <2> HIDE DEF U
  <2> QED
    BY <1>1, <1>2, SubsetInduction
<1>4. QED
  BY <1>3

\* The fold's function exists: take, for each set, the value that the functions
\* which satisfy the equation below it agree on.
LEMMA FoldExists ==
  ASSUME NEW S, IsFiniteSet(S), NEW f
  PROVE  \E g : IsFold(S, f, g)
<1> DEFINE Local(s) == CHOOSE g : Sums(f, g, SUBSET s)
           U == {s \in SUBSET S : \E g : Sums(f, g, SUBSET s)}
           G == [s \in SUBSET S |->
                   IF s = {} THEN 0
                   ELSE f[Pick(s)] + Local(s \ {Pick(s)})[s \ {Pick(s)}]]
<1>1. \A s \in SUBSET S : IsFiniteSet(s)
  BY FS_Subset
<1>2. ASSUME NEW s \in SUBSET S, \A t \in SUBSET s : t # s => t \in U
      PROVE  Sums(f, G, SUBSET s)
  <2> SUFFICES ASSUME NEW t \in SUBSET s, t # {}
               PROVE  G[t] = f[Pick(t)] + G[t \ {Pick(t)}]
    <3>1. ASSUME NEW t \in SUBSET s, t = {}
          PROVE  G[t] = 0
      BY <3>1
    <3> HIDE DEF G
    <3> QED
      BY <3>1 DEF Sums
  <2> DEFINE r == t \ {Pick(t)}
  <2>1. r \in U /\ r \in SUBSET S
    BY <1>2, PickIn
  <2>2. Sums(f, Local(r), SUBSET r)
    BY <2>1
  <2>3. Local(r)[r] = G[r]
    <3>1. CASE r = {}
      BY <2>2, <3>1 DEF Sums
    <3>2. CASE r # {}
      <4> DEFINE q == r \ {Pick(r)}
      <4>1. q \in U /\ q \in SUBSET r
        BY <1>2, <2>1, <3>2, PickIn
      <4>2. Sums(f, Local(q), SUBSET q)
        BY <4>1
      <4>3. Sums(f, Local(r), SUBSET q)
        BY <2>2, <4>1 DEF Sums
      <4>4. Local(q)[q] = Local(r)[q]
        <5>1. IsFiniteSet(q)
          BY <1>1, <2>1, <4>1
        <5> HIDE DEF Local, q
        <5>2. ASSUME NEW g, NEW h, Sums(f, g, SUBSET q), Sums(f, h, SUBSET q)
              PROVE  g[q] = h[q]
          BY <5>1, <5>2, SumsUnique
        <5>3. QED
          BY <4>2, <4>3, <5>2
      <4>5. Local(r)[r] = f[Pick(r)] + Local(r)[q]
        BY <2>2, <3>2 DEF Sums
      <4>6. QED
        BY <2>1, <3>2, <4>4, <4>5
    <3>3. QED
      BY <3>1, <3>2
  <2>4. QED
    BY <2>1, <2>3
<1> HIDE DEF G
<1>3. U \in SUBSET SUBSET S
  OBVIOUS
<1>4. ASSUME NEW s \in SUBSET S, \A t \in SUBSET s : t # s => t \in U
      PROVE  s \in U
  BY <1>2, <1>4
<1>5. U = SUBSET S
  <2> HIDE DEF U
  <2> QED
    BY <1>3, <1>4, SubsetInduction
<1>6. Sums(f, G, SUBSET S)
  BY <1>2, <1>5
<1>7. G = [s \in SUBSET S |-> G[s]]
  BY DEF G
<1>8. IsFold(S, f, G)
  BY <1>6, <1>7 DEF IsFold, Sums
<1>9. QED
  BY <1>8

\* So a sum is the value of a function that satisfies the equation.
LEMMA SumWitness ==
  ASSUME NEW S, IsFiniteSet(S), NEW f
  PROVE  \E g : Sums(f, g, SUBSET S) /\ SumFunctionOnSet(f, S) = g[S]
<1> DEFINE g == CHOOSE g : IsFold(S, f, g)
<1>1. SumFunctionOnSet(f, S) = g[S]
  BY DEF SumFunctionOnSet, FoldFunctionOnSet, MapThenFoldSet, IsFold, Pick
<1>2. \E k : IsFold(S, f, k)
  BY FoldExists
<1>3. IsFold(S, f, g)
  BY <1>2
<1> HIDE DEF g
<1>4. Sums(f, g, SUBSET S)
  BY <1>3 DEF IsFold, Sums
<1>5. QED
  BY <1>1, <1>4

\* A sum depends on the function's values on the set only.
LEMMA SumCongruence ==
  ASSUME NEW S, IsFiniteSet(S), NEW f, NEW h, \A x \in S : h[x] = f[x]
  PROVE  SumFunctionOnSet(h, S) = SumFunctionOnSet(f, S)
<1>1. PICK g : Sums(f, g, SUBSET S) /\ SumFunctionOnSet(f, S) = g[S]
  BY SumWitness
<1>2. PICK k : Sums(h, k, SUBSET S) /\ SumFunctionOnSet(h, S) = k[S]
  BY SumWitness
<1>3. ASSUME NEW s \in SUBSET S
      PROVE  k[s] = IF s = {} THEN 0 ELSE f[Pick(s)] + k[s \ {Pick(s)}]
  <2>1. s # {} => h[Pick(s)] = f[Pick(s)]
    BY PickIn
  <2>2. QED
    BY <1>2, <2>1 DEF Sums
<1>4. Sums(f, k, SUBSET S)
  BY <1>3 DEF Sums
<1>5. QED
  BY <1>1, <1>2, <1>4, SumsUnique

\* A sum of naturals is a natural.
LEMMA SumIsNat ==
  ASSUME NEW S, IsFiniteSet(S), NEW f, \A x \in S : f[x] \in Nat
  PROVE  SumFunctionOnSet(f, S) \in Nat
<1>1. PICK g : Sums(f, g, SUBSET S) /\ SumFunctionOnSet(f, S) = g[S]
  BY SumWitness
<1> DEFINE U == {s \in SUBSET S : g[s] \in Nat}
<1>2. ASSUME NEW s \in SUBSET S, \A t \in SUBSET s : t # s => t \in U
      PROVE  s \in U
  <2>1. CASE s = {}
    BY <1>1, <2>1 DEF Sums
  <2>2. CASE s # {}
    <3>1. s \ {Pick(s)} \in U /\ f[Pick(s)] \in Nat
      BY <1>2, <2>2, PickIn
    <3>2. QED
      BY <1>1, <2>2, <3>1 DEF Sums
  <2>3. QED
    BY <2>1, <2>2
<1>3. U \in SUBSET SUBSET S
  OBVIOUS
<1>4. U = SUBSET S
  <2> HIDE DEF U
  <2> QED
    BY <1>2, <1>3, SubsetInduction
<1>5. QED
  BY <1>1, <1>4

\* Changing one value changes the sum by as much.
LEMMA SumChange ==
  ASSUME NEW S, IsFiniteSet(S), NEW f, NEW h, NEW y \in S,
         \A x \in S : f[x] \in Int /\ h[x] \in Int,
         \A x \in S : x # y => h[x] = f[x]
  PROVE  /\ SumFunctionOnSet(f, S) \in Int
         /\ SumFunctionOnSet(h, S) = SumFunctionOnSet(f, S) + h[y] - f[y]
<1>1. PICK g : Sums(f, g, SUBSET S) /\ SumFunctionOnSet(f, S) = g[S]
  BY SumWitness
<1>2. PICK k : Sums(h, k, SUBSET S) /\ SumFunctionOnSet(h, S) = k[S]
  BY SumWitness
<1> DEFINE Change(s) == IF y \in s THEN h[y] - f[y] ELSE 0
           U == {s \in SUBSET S : g[s] \in Int /\ k[s] = g[s] + Change(s)}
<1>3. ASSUME NEW s \in SUBSET S, \A t \in SUBSET s : t # s => t \in U
      PROVE  s \in U
  <2>1. CASE s = {}
    <3>1. g[s] = 0 /\ k[s] = 0
      BY <1>1, <1>2, <2>1 DEF Sums
    <3>2. QED
      BY <2>1, <3>1
  <2>2. CASE s # {}
    <3> DEFINE x == Pick(s)
               r == s \ {x}
    <3>1. x \in s /\ f[x] \in Int /\ h[x] \in Int
      BY <2>2, PickIn
    <3>2. g[r] \in Int /\ k[r] = g[r] + Change(r)
      BY <1>3, <3>1
    <3>3. g[s] = f[x] + g[r] /\ k[s] = h[x] + k[r]
      BY <1>1, <1>2, <2>2 DEF Sums
    <3> HIDE DEF x
    <3>4. g[s] \in Int /\ k[s] = g[s] + Change(s)
      <4>1. CASE y = x
        BY <3>1, <3>2, <3>3, <4>1
      <4>2. CASE y # x
        BY <3>1, <3>2, <3>3, <4>2
      <4>3. QED
        BY <4>1, <4>2
    <3>5. QED
      BY <3>4
  <2>3. QED
    BY <2>1, <2>2
<1>4. U \in SUBSET SUBSET S
  OBVIOUS
<1>5. U = SUBSET S
  <2> HIDE DEF U
  <2> QED
    BY <1>3, <1>4, SubsetInduction
<1>6. QED
  BY <1>1, <1>2, <1>5

\* A value is part of the sum.
LEMMA SumCoversValue ==
  ASSUME NEW S, IsFiniteSet(S), NEW f, \A x \in S : f[x] \in Nat, NEW y \in S
  PROVE  SumFunctionOnSet(f, S) >= f[y]
<1> DEFINE h == [x \in S |-> IF x = y THEN 0 ELSE f[x]]
<1>1. SumFunctionOnSet(h, S) \in Nat
  BY SumIsNat
<1>2. /\ SumFunctionOnSet(f, S) \in Int
      /\ SumFunctionOnSet(h, S) = SumFunctionOnSet(f, S) + h[y] - f[y]
  <2>1. /\ \A x \in S : f[x] \in Int /\ h[x] \in Int
        /\ \A x \in S : x # y => h[x] = f[x]
    OBVIOUS
  <2> HIDE DEF h
  <2>2. QED
    BY <2>1, SumChange
<1>3. h[y] = 0 /\ f[y] \in Nat
  OBVIOUS
<1> HIDE DEF h
<1>4. QED
  BY <1>1, <1>2, <1>3

\* Nothing sums to nothing.
LEMMA SumOfZeros ==
  ASSUME NEW S, IsFiniteSet(S), NEW f, \A x \in S : f[x] = 0
  PROVE  SumFunctionOnSet(f, S) = 0
<1>1. PICK g : Sums(f, g, SUBSET S) /\ SumFunctionOnSet(f, S) = g[S]
  BY SumWitness
<1> DEFINE U == {s \in SUBSET S : g[s] = 0}
<1>2. ASSUME NEW s \in SUBSET S, \A t \in SUBSET s : t # s => t \in U
      PROVE  s \in U
  <2>1. CASE s = {}
    BY <1>1, <2>1 DEF Sums
  <2>2. CASE s # {}
    <3>1. s \ {Pick(s)} \in U /\ f[Pick(s)] = 0
      BY <1>2, <2>2, PickIn
    <3>2. QED
      BY <1>1, <2>2, <3>1 DEF Sums
  <2>3. QED
    BY <2>1, <2>2
<1>3. U \in SUBSET SUBSET S
  OBVIOUS
<1>4. U = SUBSET S
  <2> HIDE DEF U
  <2> QED
    BY <1>2, <1>3, SubsetInduction
<1>5. QED
  BY <1>1, <1>4

-----------------------------------------------------------------------------
(* Types.                                                                  *)

LEMMA AnyJobIsJob == AnyJob \in Job
<1>1. PICK r \in Refs, a \in Amounts : TRUE
  BY RebalanceAssumption
<1>2. [from |-> "liquidity", to |-> "liquidity", ref |-> r, amount |-> a] \in Move
  BY DEF Move, Strategies
<1>3. [move |-> [from |-> "liquidity", to |-> "liquidity", ref |-> r, amount |-> a],
       decision |-> NoDecision] \in Job
  BY <1>2 DEF Job
<1>4. QED
  BY <1>3 DEF AnyJob

\* What a call is asked to do is well typed, and names two of the buckets.
LEMMA JobFacts ==
  ASSUME NEW c \in Calls, job \in [Calls -> Job]
  PROVE  /\ job[c] \in Job
         /\ job[c].move.from \in Strategies /\ job[c].move.to \in Strategies
         /\ job[c].move.ref \in Refs /\ Symbol(c) \in Symbols
         /\ Amount(c) \in Amounts /\ Amount(c) \in Nat
         /\ FromBucket(c) \in Buckets /\ ToBucket(c) \in Buckets
<1>1. job[c] \in Job /\ job[c].move \in Move
  BY DEF Job
<1>2. /\ job[c].move.from \in Strategies /\ job[c].move.to \in Strategies
      /\ job[c].move.ref \in Refs /\ job[c].move.amount \in Amounts
  BY <1>1 DEF Move
<1>3. FromBucket(c) \in Buckets /\ ToBucket(c) \in Buckets
  BY <1>2 DEF FromBucket, ToBucket, Bucket, Buckets, Strategies, Venues
<1>4. QED
  BY <1>1, <1>2, <1>3, RebalanceAssumption DEF Amount, Symbol, Symbols

\* The deployments of the assumption are what the names of a setting stand for.
LEMMA SettingFacts ==
  ASSUME setting \in DOMAIN Settings
  PROVE  /\ Overlap \in BOOLEAN
         /\ Requests \subseteq Move
         /\ Executable \subseteq Decisions
         /\ \A d \in Executable : Payload[d] \in Move
BY SettingsAssumption DEF Overlap, Requests, Executable, Setting

LEMMA VenueMoveIsInt ==
  ASSUME NEW c \in Calls, NEW v \in Venues, job \in [Calls -> Job]
  PROVE  VenueMove(v, c) \in Int
BY JobFacts DEF VenueMove

\* A flow the contract accepts keeps its storage and its log well typed.
LEMMA RecordFlowKeepsTypes ==
  ASSUME Contract!TypeOK, NEW k \in Symbols, NEW n \in Nat,
         NEW d \in {"deposit", "withdraw"},
         Contract!RecordFlow(Platform, k, d, n)
  PROVE  Contract!TypeOK'
<1> DEFINE e == [key |-> k, direction |-> d, amount |-> n]
<1>1. e \in Contract!FlowEvent
  BY DEF Contract!FlowEvent
<1>2. /\ flows \in Seq(Contract!FlowEvent)
      /\ flows' = Append(flows, e)
  BY DEF Contract!TypeOK, Contract!RecordFlow
<1>3. flows' \in Seq(Contract!FlowEvent)
  <2> HIDE DEF e
  <2> QED
    BY <1>1, <1>2
<1>4. Contract!NextBalance(k, d, n) \in 0 .. MaxAmount
  BY RebalanceAssumption
     DEF Contract!TypeOK, Contract!RecordFlow, Contract!ValidFlow,
         Contract!Covered, Contract!NextBalance
<1>5. balance' \in [Symbols -> 0 .. MaxAmount] /\ admin' = admin
  BY <1>4 DEF Contract!TypeOK, Contract!RecordFlow
<1>6. QED
  BY <1>3, <1>5 DEF Contract!TypeOK

LEMMA FlowKeepsTypes ==
  ASSUME TypeOK, NEW c \in Calls, Flow(c)
  PROVE  Contract!TypeOK'
BY RecordFlowKeepsTypes, JobFacts DEF Flow, Direction, TypeOK

\* The steps that write at most where the call is and what it left behind.
LEMMA LocalStepKeepsTypes ==
  ASSUME TypeOK, NEW c \in Calls, UNCHANGED setting,
         \/ FindDecision(c) \/ Check(c) \/ DefindexFails(c) \/ BlendFails(c)
         \/ RecordRefused(c) \/ RecordFault(c) \/ WriteRefused(c) \/ DbFault(c)
  PROVE  TypeOK'
<1>1. /\ UNCHANGED <<setting, held, stored, decision, venue, job, seen, insert,
                     acted, admin, balance, flows>>
      /\ \E l \in {"check", "defindex", "threw"} : pc' = [pc EXCEPT ![c] = l]
      /\ late' = late \/ \E l \in {"blend", "record", late[c]} : late' = [late EXCEPT ![c] = l]
  BY DEF FindDecision, Check, DefindexFails, BlendFails, VenueFails, RecordFault,
         RecordRefused, WriteRefused, DbFault, Goto, dbVars, sentVars, treasuryVars
<1>2. pc' \in [Calls -> {"idle"} \cup Running \cup Finished]
  BY <1>1 DEF TypeOK, Running, Finished
<1>3. QED
  BY <1>1, <1>2 DEF TypeOK, Contract!TypeOK

\* The steps that write a variable of their own.
LEMMA WritingStepKeepsTypes ==
  ASSUME TypeOK, NEW c \in Calls, UNCHANGED setting,
         \/ AskDefindex(c) \/ AskBlend(c) \/ Record(c) \/ InsertProposal(c)
         \/ ReadFrom(c) \/ ReadTo(c) \/ WriteFrom(c) \/ WriteTo(c) \/ Decide(c)
  PROVE  TypeOK'
<1> USE JobFacts DEF TypeOK, dbVars, sentVars, Goto, Running, Finished
<1>1. ASSUME UNCHANGED treasuryVars
      PROVE  Contract!TypeOK'
  BY <1>1 DEF treasuryVars, Contract!TypeOK
<1>2. CASE AskDefindex(c)
  <2>1. venue'["defindex_vault"] \in Nat
    BY <1>2, VenueMoveIsInt DEF AskDefindex, AskVenue, Venues, Strategies
  <2>2. QED
    BY <1>1, <1>2, <2>1 DEF AskDefindex, AskVenue
<1>3. CASE AskBlend(c)
  <2>1. venue'["blend_pool"] \in Nat
    BY <1>3, VenueMoveIsInt DEF AskBlend, AskVenue, Venues, Strategies
  <2>2. QED
    BY <1>1, <1>3, <2>1 DEF AskBlend, AskVenue
<1>4. CASE Record(c)
  <2>1. Contract!TypeOK'
    BY <1>1, <1>4, FlowKeepsTypes DEF Record
  <2>2. QED
    BY <1>4, <2>1 DEF Record
<1>5. CASE InsertProposal(c)
  BY <1>1, <1>5 DEF InsertProposal
<1>6. CASE ReadFrom(c) \/ ReadTo(c)
  <2>1. PICK b \in {FromBucket(c), ToBucket(c)}, l \in {"writeFrom", "writeTo"} :
          /\ pc' = [pc EXCEPT ![c] = l]
          /\ seen' = [seen EXCEPT ![c] = held[b]]
          /\ insert' = [insert EXCEPT ![c] = b \notin stored]
    BY <1>6 DEF ReadFrom, ReadTo, ReadPosition
  <2>2. held[b] \in Nat
    OBVIOUS
  <2>3. UNCHANGED <<setting, held, stored, decision, venue, job, late, acted, treasuryVars>>
    BY <1>6 DEF ReadFrom, ReadTo, ReadPosition
  <2>4. QED
    BY <1>1, <2>1, <2>2, <2>3
<1>7. CASE WriteFrom(c)
  <2>1. Debited(c) \in Nat
    BY <1>7 DEF WriteFrom, NotNegative, Debited
  <2>2. QED
    BY <1>1, <1>7, <2>1 DEF WriteFrom, WritePosition
<1>8. CASE WriteTo(c)
  <2>1. Credited(c) \in Nat
    BY DEF Credited
  <2>2. QED
    BY <1>1, <1>8, <2>1 DEF WriteTo, WritePosition, AfterWrites
<1>9. CASE Decide(c)
  BY <1>1, <1>9 DEF Decide
<1>10. QED
  BY <1>2, <1>3, <1>4, <1>5, <1>6, <1>7, <1>8, <1>9

\* No position is ever written negative and no bucket of the contract leaves its
\* range, however calls overlap and whatever fails.
THEOREM TypesHold == Spec => []TypeOK
<1>1. Init => TypeOK
  BY AnyJobIsJob, RebalanceAssumption
     DEF Init, TypeOK, Venues, Strategies, Buckets, Contract!TypeOK
<1>2. TypeOK /\ [Next]_vars => TypeOK'
  <2> SUFFICES ASSUME TypeOK, [Next]_vars
               PROVE  TypeOK'
    OBVIOUS
  <2>1. ASSUME UNCHANGED <<setting, held, stored, decision, venue, seen, insert, late,
                           acted, treasuryVars>>,
               NEW c \in Calls, NEW m \in Move,
               NEW d \in Decisions \cup {NoDecision},
               NEW to \in Running, Goto(c, "idle", to),
               job' = [job EXCEPT ![c] = [move |-> m, decision |-> d]]
        PROVE  TypeOK'
    <3>1. [move |-> m, decision |-> d] \in Job
      BY DEF Job
    <3>2. QED
      BY <2>1, <3>1 DEF TypeOK, Contract!TypeOK, treasuryVars, Goto
  <2>2. ASSUME NEW c \in Calls, NEW m \in Requests, Receive(c, m), UNCHANGED setting
        PROVE  TypeOK'
    BY <2>1, <2>2, SettingFacts DEF Receive, TypeOK, dbVars, sentVars, Running
  <2>3. ASSUME NEW c \in Calls, NEW d \in Executable, UNCHANGED setting,
               ReceiveProposal(c, d) \/ ReceiveDecision(c, d)
        PROVE  TypeOK'
    BY <2>1, <2>3, SettingFacts
       DEF ReceiveProposal, ReceiveDecision, TypeOK, dbVars, sentVars, Running
  <2>4. ASSUME NEW c \in Calls, CallStep(c), UNCHANGED setting
        PROVE  TypeOK'
    BY <2>4, LocalStepKeepsTypes, WritingStepKeepsTypes DEF CallStep
  <2>5. CASE Crash /\ UNCHANGED setting
    BY <2>5
       DEF Crash, Unconfirmed, TypeOK, dbVars, treasuryVars, Contract!TypeOK, Finished
  <2>6. CASE UNCHANGED vars
    BY <2>6 DEF vars, dbVars, sentVars, treasuryVars, TypeOK, Contract!TypeOK
  <2>7. ASSUME NEW c \in Calls, LandsLate(c), UNCHANGED setting
        PROVE  TypeOK'
    <3>1. Contract!TypeOK'
      BY <2>7, FlowKeepsTypes DEF LandsLate, TypeOK, treasuryVars, Contract!TypeOK
    <3>2. venue' \in [Venues -> Nat]
      BY <2>7, VenueMoveIsInt DEF LandsLate, TypeOK, Venues, Strategies
    <3>3. QED
      BY <2>7, <3>1, <3>2 DEF LandsLate, TypeOK, dbVars
  <2>8. ASSUME NEW d \in Executable, Propose(d), UNCHANGED setting
        PROVE  TypeOK'
    BY <2>8 DEF Propose, TypeOK, sentVars, treasuryVars, Contract!TypeOK
  <2>9. QED
    BY <2>2, <2>3, <2>4, <2>5, <2>6, <2>7, <2>8 DEF Next
<1>3. QED
  BY <1>1, <1>2, PTL DEF Spec

-----------------------------------------------------------------------------
(* The books as sums over the buckets.                                     *)

LEMMA BucketsFinite ==
  /\ IsFiniteSet(Buckets)
  /\ \A v \in Venues : IsFiniteSet({v} \X Refs) /\ {v} \X Refs \subseteq Buckets
<1>1. IsFiniteSet(Venues) /\ Venues = {"defindex_vault", "blend_pool"}
  <2>1. Venues = {"defindex_vault"} \cup {"blend_pool"}
    BY DEF Venues, Strategies
  <2>2. QED
    BY <2>1, FS_Singleton, FS_Union
<1>2. IsFiniteSet(Refs)
  BY RebalanceAssumption
<1>3. IsFiniteSet(Venues \X Refs)
  BY <1>1, <1>2, FS_Product
<1>4. IsFiniteSet({<<"liquidity", NoRef>>})
  BY FS_Singleton
<1>5. IsFiniteSet(Buckets)
  BY <1>3, <1>4, FS_Union DEF Buckets
<1>6. ASSUME NEW v \in Venues
      PROVE  IsFiniteSet({v} \X Refs) /\ {v} \X Refs \subseteq Buckets
  BY <1>2, <1>6, FS_Singleton, FS_Product DEF Buckets
<1>7. QED
  BY <1>5, <1>6

LEMMA TotalIsSum ==
  ASSUME held \in [Buckets -> Nat]
  PROVE  Total = SumFunctionOnSet(held, Buckets) /\ Total \in Nat
<1>1. DOMAIN held = Buckets /\ \A b \in Buckets : held[b] \in Nat
  OBVIOUS
<1>2. QED
  BY <1>1, BucketsFinite, SumIsNat DEF Total, SumFunction

\* The buckets one symbol of the contract stands for.
BucketsOf(k) == {b \in Venues \X Refs : SymbolOf[b[2]] = k}

\* A write changes the sum over a set of buckets by what it changes the bucket.
LEMMA WriteChangesSum ==
  ASSUME held \in [Buckets -> Nat], NEW b \in Buckets, NEW n \in Nat,
         held' = [held EXCEPT ![b] = n], NEW S \in SUBSET Buckets
  PROVE  SumFunctionOnSet(held', S) =
           IF b \in S THEN SumFunctionOnSet(held, S) + n - held[b]
           ELSE SumFunctionOnSet(held, S)
<1>1. /\ \A x \in S : held[x] \in Int /\ held'[x] \in Int
      /\ \A x \in S : x # b => held'[x] = held[x]
      /\ held'[b] = n
  OBVIOUS
<1>2. IsFiniteSet(S)
  BY BucketsFinite, FS_Subset
<1>3. CASE b \in S
  <2>1. \A h : /\ \A x \in S : h[x] \in Int
               /\ \A x \in S : x # b => h[x] = held[x]
               => SumFunctionOnSet(h, S) = SumFunctionOnSet(held, S) + h[b] - held[b]
    BY <1>1, <1>2, <1>3, SumChange
  <2>2. SumFunctionOnSet(held', S) = SumFunctionOnSet(held, S) + held'[b] - held[b]
    BY <1>1, <2>1
  <2>3. QED
    BY <1>1, <1>3, <2>2
<1>4. CASE b \notin S
  <2>1. \A x \in S : held'[x] = held[x]
    BY <1>1, <1>4
  <2>2. SumFunctionOnSet(held', S) = SumFunctionOnSet(held, S)
    BY <1>2, <2>1, SumCongruence
  <2>3. QED
    BY <1>4, <2>2
<1>5. QED
  BY <1>3, <1>4

\* A write changes the tenant's total, what is booked in the bucket's venue, and
\* what is in the venues under the bucket's symbol, by what it changes the bucket.
LEMMA WriteChangesSums ==
  ASSUME held \in [Buckets -> Nat], NEW b \in Buckets, NEW n \in Nat,
         held' = [held EXCEPT ![b] = n]
  PROVE  /\ Total' = Total + n - held[b]
         /\ \A v \in Venues :
              Booked(v)' = IF b[1] = v THEN Booked(v) + n - held[b] ELSE Booked(v)
         /\ \A k \in Symbols :
              InVenues(k)' = IF b \in BucketsOf(k)
                             THEN InVenues(k) + n - held[b] ELSE InVenues(k)
<1>1. DOMAIN held = Buckets /\ DOMAIN held' = Buckets
  OBVIOUS
<1>2. Total' = Total + n - held[b]
  <2>1. SumFunctionOnSet(held', Buckets) = SumFunctionOnSet(held, Buckets) + n - held[b]
    BY WriteChangesSum
  <2>2. QED
    BY <1>1, <2>1 DEF Total, SumFunction
<1>3. ASSUME NEW v \in Venues
      PROVE  Booked(v)' = IF b[1] = v THEN Booked(v) + n - held[b] ELSE Booked(v)
  <2>1. {v} \X Refs \in SUBSET Buckets
    BY BucketsFinite
  <2>2. b \in {v} \X Refs <=> b[1] = v
    BY DEF Buckets, Venues, Strategies
  <2>3. QED
    BY <2>1, <2>2, WriteChangesSum DEF Booked
<1>4. ASSUME NEW k \in Symbols
      PROVE  InVenues(k)' = IF b \in BucketsOf(k)
                            THEN InVenues(k) + n - held[b] ELSE InVenues(k)
  <2>1. BucketsOf(k) \in SUBSET Buckets
    BY DEF BucketsOf, Buckets
  <2>2. SumFunctionOnSet(held', BucketsOf(k)) =
          IF b \in BucketsOf(k) THEN SumFunctionOnSet(held, BucketsOf(k)) + n - held[b]
          ELSE SumFunctionOnSet(held, BucketsOf(k))
    <3> HIDE DEF BucketsOf
    <3> QED
      BY <2>1, WriteChangesSum
  <2>3. QED
    BY <2>2 DEF InVenues, BucketsOf
<1>5. QED
  BY <1>2, <1>3, <1>4

\* A sum of positions is a natural that covers each of its buckets.
LEMMA PositionSums ==
  ASSUME NEW h \in [Buckets -> Nat], NEW S \in SUBSET Buckets
  PROVE  /\ SumFunctionOnSet(h, S) \in Nat
         /\ \A b \in S : SumFunctionOnSet(h, S) >= h[b]
<1>1. IsFiniteSet(S) /\ \A x \in S : h[x] \in Nat
  BY BucketsFinite, FS_Subset
<1>2. SumFunctionOnSet(h, S) \in Nat
  BY <1>1, SumIsNat
<1>3. \A x \in S : SumFunctionOnSet(h, S) >= h[x]
  BY <1>1, SumCoversValue
<1>4. QED
  BY <1>2, <1>3

LEMMA BookedIsNat ==
  ASSUME held \in [Buckets -> Nat], NEW v \in Venues
  PROVE  Booked(v) \in Nat /\ \A r \in Refs : Booked(v) >= held[<<v, r>>]
BY BucketsFinite, PositionSums DEF Booked

LEMMA InVenuesIsNat ==
  ASSUME held \in [Buckets -> Nat], NEW k \in Symbols
  PROVE  InVenues(k) \in Nat /\ \A b \in BucketsOf(k) : InVenues(k) >= held[b]
<1>1. BucketsOf(k) \in SUBSET Buckets
  BY DEF BucketsOf, Buckets
<1>2. InVenues(k) = SumFunctionOnSet(held, BucketsOf(k))
  BY DEF InVenues, BucketsOf
<1> HIDE DEF BucketsOf
<1>3. QED
  BY <1>1, <1>2, PositionSums

\* At first all of it is in the liquidity bucket.
LEMMA InitialSums ==
  ASSUME held = [b \in Buckets |-> IF b[1] = "liquidity" THEN Funds ELSE 0]
  PROVE  /\ Total = Funds
         /\ \A v \in Venues : Booked(v) = 0
         /\ \A k \in Symbols : InVenues(k) = 0
<1> DEFINE home == <<"liquidity", NoRef>>
           none == [b \in Buckets |-> 0]
<1>1. home \in Buckets
  BY DEF Buckets
<1>2. \A b \in Buckets : held[b] = IF b = home THEN Funds ELSE 0
  BY DEF Buckets, Venues, Strategies
<1>3. \A b \in Buckets : none[b] = 0
  OBVIOUS
<1>4. DOMAIN held = Buckets /\ Funds \in Nat
  BY RebalanceAssumption
<1> HIDE DEF home, none
<1>5. SumFunctionOnSet(none, Buckets) = 0
  BY <1>3, BucketsFinite, SumOfZeros
<1>6. SumFunctionOnSet(held, Buckets) =
        SumFunctionOnSet(none, Buckets) + held[home] - none[home]
  <2>1. /\ \A x \in Buckets : none[x] \in Int /\ held[x] \in Int
        /\ \A x \in Buckets : x # home => held[x] = none[x]
    BY <1>2, <1>3, <1>4
  <2>2. QED
    BY <1>1, <2>1, BucketsFinite, SumChange
<1>7. Total = Funds
  BY <1>1, <1>2, <1>3, <1>4, <1>5, <1>6 DEF Total, SumFunction
<1>8. ASSUME NEW v \in Venues
      PROVE  Booked(v) = 0
  <2>1. IsFiniteSet({v} \X Refs) /\ \A x \in {v} \X Refs : held[x] = 0
    BY <1>2, BucketsFinite DEF home, Venues, Strategies
  <2>2. QED
    BY <2>1, SumOfZeros DEF Booked
<1>9. ASSUME NEW k \in Symbols
      PROVE  InVenues(k) = 0
  <2>1. BucketsOf(k) \subseteq Buckets /\ \A x \in BucketsOf(k) : held[x] = 0
    BY <1>2 DEF home, BucketsOf, Buckets, Venues, Strategies
  <2>2. IsFiniteSet(BucketsOf(k)) /\ InVenues(k) = SumFunctionOnSet(held, BucketsOf(k))
    BY <2>1, BucketsFinite, FS_Subset DEF InVenues, BucketsOf
  <2> HIDE DEF BucketsOf
  <2>3. QED
    BY <2>1, <2>2, SumOfZeros
<1>10. QED
  BY <1>7, <1>8, <1>9

-----------------------------------------------------------------------------
(* Calls one after another.                                                *)

\* What every step of a call has in common.
LEMMA StepShape ==
  ASSUME TypeOK, NEW c \in Calls, CallStep(c)
  PROVE  /\ pc[c] \in Running
         /\ \E l \in (Running \cup Finished) \ {"propose", "find"} :
              /\ pc' = [pc EXCEPT ![c] = l]
              /\ l = "check" => pc[c] \in {"propose", "find"}
         /\ job' = job
         /\ \A d \in Decisions :
              /\ decision[d] = "executed"
              /\ pc[c] = "propose" => job[c].decision # d
              => decision'[d] = "executed"
<1> USE DEF TypeOK, dbVars, Goto, Running, Finished
<1>1. CASE FindDecision(c) \/ Check(c)
  BY <1>1 DEF FindDecision, Check
<1>2. CASE AskDefindex(c) \/ DefindexFails(c) \/ AskBlend(c) \/ BlendFails(c)
  BY <1>2 DEF AskDefindex, DefindexFails, AskBlend, BlendFails, AskVenue, VenueFails
<1>3. CASE Record(c) \/ RecordRefused(c) \/ RecordFault(c) \/ DbFault(c)
  BY <1>3 DEF Record, RecordRefused, RecordFault, DbFault
<1>4. CASE ReadFrom(c) \/ ReadTo(c)
  BY <1>4 DEF ReadFrom, ReadTo, ReadPosition
<1>5. CASE WriteFrom(c) \/ WriteTo(c) \/ WriteRefused(c)
  BY <1>5 DEF WriteFrom, WriteTo, WriteRefused, WritePosition, AfterWrites
<1>6. CASE Decide(c)
  <2>1. /\ pc[c] = "decide" /\ pc' = [pc EXCEPT ![c] = "returned"] /\ job' = job
        /\ decision' = [decision EXCEPT ![job[c].decision] = "executed"]
    BY <1>6 DEF Decide
  <2>2. \A d \in Decisions : decision[d] = "executed" => decision'[d] = "executed"
    BY <2>1
  <2>3. \E l \in (Running \cup Finished) \ {"propose", "find"} :
          /\ pc' = [pc EXCEPT ![c] = l]
          /\ l = "check" => pc[c] \in {"propose", "find"}
    <3>1. "returned" \in (Running \cup Finished) \ {"propose", "find"}
      OBVIOUS
    <3>2. "returned" # "check"
      OBVIOUS
    <3> HIDE DEF TypeOK, Running, Finished
    <3>3. QED
      BY <2>1, <3>1, <3>2, Zenon
  <2>4. QED
    BY <2>1, <2>2, <2>3
<1>7. CASE InsertProposal(c)
  BY <1>7 DEF InsertProposal
<1>8. QED
  BY <1>1, <1>2, <1>3, <1>4, <1>5, <1>6, <1>7 DEF CallStep

\* What a step of a call does to what it has sent.
LEMMA StepSends ==
  ASSUME TypeOK, NEW c \in Calls, CallStep(c)
  PROVE  /\ \A x \in Calls \ {c} : late'[x] = late[x]
         /\ late'[c] # late[c] => pc'[c] = "threw"
         /\ acted \subseteq acted' /\ acted' \subseteq acted \cup {c}
         /\ acted' # acted => pc'[c] \in {"blend", "record", "readFrom"}
<1> USE DEF TypeOK, sentVars, Goto, Running, Finished
<1>1. CASE AskDefindex(c) \/ AskBlend(c) \/ Record(c)
  BY <1>1 DEF AskDefindex, AskBlend, AskVenue, Record
<1>2. CASE DefindexFails(c) \/ BlendFails(c) \/ RecordFault(c)
  BY <1>2 DEF DefindexFails, BlendFails, VenueFails, RecordFault
<1>3. CASE \/ InsertProposal(c) \/ FindDecision(c) \/ Check(c) \/ RecordRefused(c)
           \/ ReadFrom(c) \/ WriteFrom(c) \/ ReadTo(c) \/ WriteTo(c) \/ WriteRefused(c)
           \/ Decide(c) \/ DbFault(c)
  BY <1>3 DEF InsertProposal, FindDecision, Check, RecordRefused, ReadFrom, ReadTo,
              ReadPosition, WriteFrom, WriteTo, WritePosition, WriteRefused, Decide,
              DbFault
<1>4. QED
  BY <1>1, <1>2, <1>3 DEF CallStep

LEMMA StepKeepsSent ==
  ASSUME TypeOK, \A x \in Calls : SentInv(x), NEW c \in Calls, CallStep(c)
  PROVE  \A x \in Calls : SentInv(x)'
<1>1. PICK l \in (Running \cup Finished) \ {"propose", "find"} :
        /\ pc' = [pc EXCEPT ![c] = l]
        /\ l = "check" => pc[c] \in {"propose", "find"}
  BY StepShape
<1>2. /\ pc[c] \in Running /\ pc'[c] = l
      /\ \A x \in Calls \ {c} : pc'[x] = pc[x]
  BY <1>1, StepShape DEF TypeOK
<1>3. ASSUME NEW x \in Calls \ {c}
      PROVE  SentInv(x)'
  BY <1>2, StepSends DEF SentInv, CutOff
<1>4. late'[c] # "nothing" => c \in CutOff'
  BY <1>2, StepSends DEF SentInv, CutOff, Running
<1>5. c \in acted' => pc'[c] \notin {"idle", "propose", "find", "check"}
  <2>1. CASE acted' # acted
    BY <2>1, StepSends
  <2>2. CASE acted' = acted
    BY <1>1, <1>2, <2>2 DEF SentInv, Running, Finished
  <2>3. QED
    BY <2>1, <2>2
<1>6. QED
  BY <1>3, <1>4, <1>5 DEF SentInv

\* A step of the one call in progress keeps what is known of the others.
LEMMA OthersUndisturbed ==
  ASSUME TypeOK, Alone, \A d \in Calls : PlaceInv(d), NEW c \in Calls, CallStep(c)
  PROVE  /\ Alone'
         /\ \A d \in Calls \ {c} :
              /\ pc[d] \notin Running /\ pc'[d] = pc[d] /\ job'[d] = job[d]
              /\ PlaceInv(d)'
<1>1. PICK l \in Running \cup Finished : pc' = [pc EXCEPT ![c] = l]
  BY StepShape
<1>2. /\ pc[c] \in Running /\ job' = job
      /\ \A d \in Decisions : decision[d] = "executed" => decision'[d] = "executed"
  <2>1. pc[c] = "propose" => decision[job[c].decision] = "none"
    BY DEF PlaceInv
  <2>2. QED
    BY <2>1, StepShape
<1>3. \A d \in Calls \ {c} :
        pc[d] \notin Running /\ pc'[d] = pc[d] /\ job'[d] = job[d]
  BY <1>1, <1>2 DEF Alone, TypeOK
<1>4. Alone'
  BY <1>3 DEF Alone
<1>5. ASSUME NEW d \in Calls \ {c}
      PROVE  PlaceInv(d)'
  <2>1. job[d].decision # NoDecision => job[d].decision \in Decisions
    BY DEF TypeOK, Job
  <2>2. QED
    BY <1>2, <1>3, <1>5, <2>1 DEF PlaceInv, Running
<1>6. QED
  BY <1>3, <1>4, <1>5

\* Each step of the one call in progress keeps what is known of it, and the
\* tenant's total.
LEMMA SerialStep ==
  ASSUME TypeOK, Alone, TotalInv, \A d \in Calls : PlaceInv(d),
         NEW c \in Calls, CallStep(c)
  PROVE  Alone' /\ TotalInv' /\ \A d \in Calls : PlaceInv(d)'
<1>1. \A d \in Calls \ {c} :
        pc[d] \notin Running /\ pc'[d] = pc[d] /\ job'[d] = job[d] /\ PlaceInv(d)'
  BY OthersUndisturbed
<1>2. /\ PlaceInv(c) /\ job' = job /\ pc[c] \in Running
      /\ job[c].decision # NoDecision => job[c].decision \in Decisions
      /\ Amount(c) \in Nat /\ FromBucket(c) \in Buckets /\ ToBucket(c) \in Buckets
      /\ Amount(c)' = Amount(c)
      /\ FromBucket(c)' = FromBucket(c) /\ ToBucket(c)' = ToBucket(c)
  BY StepShape, JobFacts DEF TypeOK, Job, Amount, FromBucket, ToBucket
<1>3. /\ Total <= Funds /\ Total \in Nat /\ Funds \in Nat
      /\ pc[c] \in {"readTo", "writeTo"} => Total + Amount(c) <= Funds
  BY TotalIsSum, RebalanceAssumption DEF TotalInv, TypeOK
<1>4. SUFFICES PlaceInv(c)'
               /\ Total' <= Funds
               /\ (pc'[c] \in {"readTo", "writeTo"} => Total' + Amount(c) <= Funds)
  <2>1. TotalInv'
    BY <1>1, <1>2, <1>4 DEF TotalInv, Running
  <2>2. QED
    BY <1>1, <1>4, <2>1, OthersUndisturbed
<1>5. ASSUME held' = held, pc'[c] \notin {"readTo", "writeTo"}
      PROVE  /\ Total' <= Funds
             /\ (pc'[c] \in {"readTo", "writeTo"} => Total' + Amount(c) <= Funds)
  BY <1>3, <1>5 DEF Total
<1> USE DEF Goto, dbVars, Running, Finished
<1>6. CASE FindDecision(c)
  <2>1. PlaceInv(c)'
    BY <1>2, <1>6 DEF FindDecision, PlaceInv, StillProposed, TypeOK
  <2>2. QED
    BY <1>5, <1>6, <2>1 DEF FindDecision, TypeOK
<1>7. CASE Check(c)
  <2>1. PlaceInv(c)'
    BY <1>2, <1>7 DEF Check, PlaceInv, CanDebit, TypeOK
  <2>2. QED
    BY <1>5, <1>7, <2>1 DEF Check, TypeOK
<1>8. CASE AskDefindex(c) \/ DefindexFails(c) \/ AskBlend(c) \/ BlendFails(c)
  <2> USE <1>8 DEF AskDefindex, DefindexFails, AskBlend, BlendFails, AskVenue, VenueFails
  <2>1. PlaceInv(c)'
    BY <1>2 DEF PlaceInv, TypeOK
  <2>2. QED
    BY <1>5, <2>1 DEF TypeOK
<1>9. CASE Record(c) \/ RecordRefused(c) \/ RecordFault(c)
  <2> USE <1>9 DEF Record, RecordRefused, RecordFault
  <2>1. PlaceInv(c)'
    BY <1>2 DEF PlaceInv, TypeOK
  <2>2. QED
    BY <1>5, <2>1 DEF TypeOK
<1>10. CASE ReadFrom(c)
  <2>1. PlaceInv(c)'
    BY <1>2, <1>10 DEF ReadFrom, ReadPosition, PlaceInv, TypeOK
  <2>2. QED
    BY <1>5, <1>10, <2>1 DEF ReadFrom, ReadPosition, TypeOK
<1>11. CASE WriteFrom(c)
  <2>1. /\ held' = [held EXCEPT ![FromBucket(c)] = Debited(c)]
        /\ pc'[c] = "readTo" /\ pc[c] = "writeFrom" /\ decision' = decision
    BY <1>11 DEF WriteFrom, WritePosition, TypeOK
  <2>2. seen[c] = held[FromBucket(c)] /\ seen[c] >= Amount(c)
    BY <1>2, <2>1 DEF PlaceInv
  <2>3. Debited(c) \in Nat /\ Debited(c) = held[FromBucket(c)] - Amount(c)
    BY <1>2, <2>2 DEF Debited, TypeOK
  <2>4. Total' = Total + Debited(c) - held[FromBucket(c)]
    BY <1>2, <2>1, <2>3, WriteChangesSums DEF TypeOK
  <2>5. held[FromBucket(c)] \in Nat
    BY <1>2 DEF TypeOK
  <2>6. Total' = Total - Amount(c)
    BY <1>2, <1>3, <2>3, <2>4, <2>5
  <2>7. PlaceInv(c)'
    BY <1>2, <2>1 DEF PlaceInv
  <2>8. QED
    BY <1>2, <1>3, <2>6, <2>7
<1>12. CASE ReadTo(c)
  <2>1. /\ held' = held /\ pc[c] = "readTo" /\ pc'[c] = "writeTo"
        /\ decision' = decision /\ seen'[c] = held[ToBucket(c)]
    BY <1>12 DEF ReadTo, ReadPosition, TypeOK
  <2>2. PlaceInv(c)'
    BY <1>2, <2>1 DEF PlaceInv
  <2>3. QED
    BY <1>3, <2>1, <2>2 DEF Total
<1>13. CASE WriteTo(c)
  <2>1. /\ held' = [held EXCEPT ![ToBucket(c)] = Credited(c)]
        /\ pc'[c] = AfterWrites(c) /\ pc[c] = "writeTo" /\ decision' = decision
    BY <1>13 DEF WriteTo, WritePosition, TypeOK
  <2>2. seen[c] = held[ToBucket(c)] /\ held[ToBucket(c)] \in Nat
    BY <1>2, <2>1 DEF PlaceInv, TypeOK
  <2>3. Credited(c) \in Nat /\ Credited(c) = held[ToBucket(c)] + Amount(c)
    BY <1>2, <2>2 DEF Credited
  <2>4. Total' = Total + Credited(c) - held[ToBucket(c)]
    BY <1>2, <2>1, <2>3, WriteChangesSums DEF TypeOK
  <2>5. Total' = Total + Amount(c)
    BY <1>2, <1>3, <2>2, <2>3, <2>4
  <2>6. PlaceInv(c)'
    BY <1>2, <2>1 DEF PlaceInv, AfterWrites
  <2>7. QED
    BY <1>2, <1>3, <2>1, <2>5, <2>6 DEF AfterWrites
<1>14. CASE WriteRefused(c) \/ DbFault(c)
  <2> USE <1>14 DEF WriteRefused, DbFault
  <2>1. PlaceInv(c)'
    BY <1>2 DEF PlaceInv, TypeOK
  <2>2. QED
    BY <1>5, <2>1 DEF TypeOK
<1>15. CASE Decide(c)
  <2>1. /\ decision' = [decision EXCEPT ![job[c].decision] = "executed"]
        /\ pc[c] = "decide" /\ pc'[c] = "returned" /\ held' = held
    BY <1>15 DEF Decide, TypeOK
  <2>2. decision'[job[c].decision] = "executed"
    BY <1>2, <2>1 DEF PlaceInv, TypeOK
  <2>3. PlaceInv(c)'
    BY <1>2, <2>1, <2>2 DEF PlaceInv
  <2>4. QED
    BY <1>5, <2>1, <2>3
<1>16. CASE InsertProposal(c)
  <2>1. /\ decision' = [decision EXCEPT ![job[c].decision] = "proposed"]
        /\ pc[c] = "propose" /\ pc'[c] = "check" /\ held' = held
    BY <1>16 DEF InsertProposal, TypeOK
  <2>2. decision'[job[c].decision] = "proposed"
    BY <1>2, <2>1 DEF PlaceInv, TypeOK
  <2>3. PlaceInv(c)'
    BY <1>2, <2>1, <2>2 DEF PlaceInv
  <2>4. QED
    BY <1>5, <2>1, <2>3
<1>17. QED
  BY <1>6, <1>7, <1>8, <1>9, <1>10, <1>11, <1>12, <1>13, <1>14, <1>15, <1>16 DEF CallStep

\* A call starts, by one of the three routes.
Starts(c) ==
  \/ \E m \in Requests : Receive(c, m)
  \/ \E d \in Executable : ReceiveProposal(c, d) \/ ReceiveDecision(c, d)

\* A call that starts while no other is in progress knows nothing yet.
LEMMA StartShape ==
  ASSUME TypeOK, NEW c \in Calls, Starts(c)
  PROVE  /\ MayStart /\ pc[c] = "idle"
         /\ \E m \in Asked, d \in Decisions \cup {NoDecision},
               l \in {"propose", "find", "check"} :
              /\ pc' = [pc EXCEPT ![c] = l] /\ (l # "check" => d # NoDecision)
              /\ l = "check" => d = NoDecision
              /\ l = "propose" => decision[d] = "none"
              /\ job' = [job EXCEPT ![c] = [move |-> m, decision |-> d]]
         /\ UNCHANGED <<held, stored, decision, venue, seen, insert, late, acted,
                        admin, balance, flows>>
<1>1. ASSUME NEW m \in Requests, Receive(c, m)
      PROVE  /\ MayStart /\ pc[c] = "idle" /\ m \in Asked
             /\ pc' = [pc EXCEPT ![c] = "check"]
             /\ job' = [job EXCEPT ![c] = [move |-> m, decision |-> NoDecision]]
             /\ UNCHANGED <<held, stored, decision, venue, seen, insert, late, acted,
                            admin, balance, flows>>
  BY <1>1 DEF Receive, Goto, dbVars, sentVars, treasuryVars, Asked
<1>2. ASSUME NEW d \in Executable, ReceiveDecision(c, d)
      PROVE  /\ MayStart /\ pc[c] = "idle" /\ Payload[d] \in Asked
             /\ d \in Decisions /\ d # NoDecision
             /\ pc' = [pc EXCEPT ![c] = "find"]
             /\ job' = [job EXCEPT ![c] = [move |-> Payload[d], decision |-> d]]
             /\ UNCHANGED <<held, stored, decision, venue, seen, insert, late, acted,
                            admin, balance, flows>>
  BY <1>2, SettingFacts, RebalanceAssumption
     DEF ReceiveDecision, Goto, dbVars, sentVars, treasuryVars, Asked, TypeOK
<1>3. ASSUME NEW d \in Executable, ReceiveProposal(c, d)
      PROVE  /\ MayStart /\ pc[c] = "idle" /\ Payload[d] \in Asked
             /\ d \in Decisions /\ d # NoDecision /\ decision[d] = "none"
             /\ pc' = [pc EXCEPT ![c] = "propose"]
             /\ job' = [job EXCEPT ![c] = [move |-> Payload[d], decision |-> d]]
             /\ UNCHANGED <<held, stored, decision, venue, seen, insert, late, acted,
                            admin, balance, flows>>
  BY <1>3, SettingFacts, RebalanceAssumption
     DEF ReceiveProposal, Unused, Goto, dbVars, sentVars, treasuryVars, Asked, TypeOK
<1>4. QED
  BY <1>1, <1>2, <1>3 DEF Starts

\* What has been sent, however calls overlap.
LEMMA SentInvHolds == Spec => [](TypeOK /\ \A c \in Calls : SentInv(c))
<1>1. Init => \A c \in Calls : SentInv(c)
  BY DEF Init, SentInv
<1>2. TypeOK /\ (\A c \in Calls : SentInv(c)) /\ [Next]_vars
        => (\A c \in Calls : SentInv(c))'
  <2> SUFFICES ASSUME TypeOK, \A c \in Calls : SentInv(c), [Next]_vars
               PROVE  \A c \in Calls : SentInv(c)'
    OBVIOUS
  <2>1. ASSUME NEW c \in Calls, Starts(c)
        PROVE  \A x \in Calls : SentInv(x)'
    <3>1. /\ pc[c] = "idle" /\ UNCHANGED <<late, acted>>
          /\ \A x \in Calls \ {c} : pc'[x] = pc[x]
      BY <2>1, StartShape DEF TypeOK
    <3>2. QED
      BY <3>1 DEF SentInv, CutOff
  <2>2. ASSUME NEW c \in Calls, CallStep(c)
        PROVE  \A x \in Calls : SentInv(x)'
    BY <2>2, StepKeepsSent
  <2>3. CASE Crash
    BY <2>3 DEF Crash, Unconfirmed, SentInv, CutOff, TypeOK, Running
  <2>4. ASSUME NEW c \in Calls, LandsLate(c)
        PROVE  \A x \in Calls : SentInv(x)'
    BY <2>4 DEF LandsLate, SentInv, CutOff, TypeOK
  <2>5. ASSUME NEW d \in Executable, Propose(d)
        PROVE  \A x \in Calls : SentInv(x)'
    BY <2>5 DEF Propose, sentVars, SentInv, CutOff
  <2>6. CASE UNCHANGED vars
    BY <2>6 DEF vars, sentVars, SentInv, CutOff
  <2>7. QED
    BY <2>1, <2>2, <2>3, <2>4, <2>5, <2>6 DEF Next, Starts
<1>3. QED
  BY <1>1, <1>2, TypesHold, PTL DEF Spec

LEMMA SerialInvHolds == Spec => [](TypeOK /\ SerialInv)
<1>1. Init /\ TypeOK => SerialInv
  <2> SUFFICES ASSUME Init, TypeOK
               PROVE  SerialInv
    OBVIOUS
  <2>1. Total = Funds /\ Funds \in Nat
    BY InitialSums, RebalanceAssumption DEF Init
  <2>2. \A c \in Calls : pc[c] = "idle" /\ job[c] \in Job
    BY DEF Init, TypeOK
  <2>3. Alone /\ TotalInv /\ \A c \in Calls : PlaceInv(c)
    BY <2>1, <2>2 DEF Alone, TotalInv, PlaceInv, Running
  <2>4. QED
    BY <2>3 DEF SerialInv
<1>2. TypeOK /\ TypeOK' /\ SerialInv /\ [Next]_vars => SerialInv'
  <2> SUFFICES ASSUME TypeOK, TypeOK', SerialInv, [Next]_vars, ~Overlap'
               PROVE  (Alone /\ TotalInv /\ \A c \in Calls : PlaceInv(c))'
    BY DEF SerialInv
  <2>1. setting' = setting
    BY DEF Next, vars
  <2>2. /\ ~Overlap /\ Alone /\ TotalInv /\ \A c \in Calls : PlaceInv(c)
    BY <2>1 DEF SerialInv, Overlap
  <2>3. ASSUME NEW c \in Calls, Starts(c)
        PROVE  (Alone /\ TotalInv /\ \A x \in Calls : PlaceInv(x))'
    <3>1. PICK m \in Asked, d \in Decisions \cup {NoDecision},
               l \in {"propose", "find", "check"} :
            /\ pc' = [pc EXCEPT ![c] = l] /\ (l # "check" => d # NoDecision)
            /\ l = "check" => d = NoDecision
            /\ l = "propose" => decision[d] = "none"
            /\ job' = [job EXCEPT ![c] = [move |-> m, decision |-> d]]
      BY <2>3, StartShape
    <3>2. /\ \A x \in Calls : pc[x] \notin Running
          /\ UNCHANGED <<held, decision, seen>>
      BY <2>2, <2>3, StartShape DEF MayStart
    <3>3. /\ pc'[c] = l /\ job'[c].decision = d
          /\ \A x \in Calls \ {c} : pc'[x] = pc[x] /\ job'[x] = job[x]
      BY <3>1 DEF TypeOK
    <3>4. Alone'
      BY <3>2, <3>3 DEF Alone
    <3>5. TotalInv'
      BY <2>2, <3>2, <3>3 DEF TotalInv, Total, Running
    <3>6. PlaceInv(c)'
      BY <3>1, <3>2, <3>3 DEF PlaceInv, Running
    <3>7. \A x \in Calls \ {c} : PlaceInv(x)'
      BY <2>2, <3>2, <3>3 DEF PlaceInv, Running
    <3>8. QED
      BY <3>4, <3>5, <3>6, <3>7
  <2>4. ASSUME NEW c \in Calls, CallStep(c)
        PROVE  (Alone /\ TotalInv /\ \A x \in Calls : PlaceInv(x))'
    BY <2>2, <2>4, SerialStep
  <2>5. CASE Crash
    <3>1. /\ \A x \in Calls : /\ pc'[x] \notin Running
                              /\ pc'[x] = "returned" => pc[x] = "returned"
          /\ UNCHANGED <<held, decision, job>>
      BY <2>5 DEF Crash, dbVars, Running
    <3>2. QED
      BY <2>2, <3>1 DEF Alone, TotalInv, Total, PlaceInv, Running
  <2>6. CASE UNCHANGED vars \/ \E c \in Calls : LandsLate(c)
    <3>1. UNCHANGED <<held, decision, pc, job, seen>>
      BY <2>6 DEF vars, LandsLate, dbVars
    <3>2. QED
      BY <2>2, <3>1 DEF Alone, TotalInv, Total, PlaceInv, Amount, FromBucket, ToBucket
  <2>7. ASSUME NEW d \in Executable, Propose(d)
        PROVE  (Alone /\ TotalInv /\ \A c \in Calls : PlaceInv(c))'
    <3>1. /\ UNCHANGED <<held, pc, job, seen>>
          /\ \A c \in Calls : job[c].decision = d => pc[c] = "idle"
          /\ \A x \in Decisions \ {d} : decision'[x] = decision[x]
      BY <2>7 DEF Propose, Unused, TypeOK
    <3>2. Alone' /\ TotalInv'
      BY <2>2, <3>1 DEF Alone, TotalInv, Total, Amount
    <3>3. ASSUME NEW c \in Calls
          PROVE  PlaceInv(c)'
      <4>1. /\ job[c].decision = d => pc'[c] = "idle"
            /\ job[c].decision \notin {d, NoDecision} =>
                 decision'[job[c].decision] = decision[job[c].decision]
        BY <3>1 DEF TypeOK, Job
      <4>2. QED
        BY <2>2, <3>1, <4>1
           DEF PlaceInv, Amount, FromBucket, ToBucket, Running
    <3>4. QED
      BY <3>2, <3>3
  <2>8. QED
    BY <2>3, <2>4, <2>5, <2>6, <2>7 DEF Next, Starts
<1>3. QED
  BY <1>1, <1>2, TypesHold, PTL DEF Spec

\* While calls do not overlap, a move the contract has recorded is still covered
\* by its source bucket when the debit is written, whatever failed before it.
THEOREM SerialMovesAreCoveredHolds == Spec => []SerialMovesAreCovered
<1>1. TypeOK /\ SerialInv => SerialMovesAreCovered
  BY DEF SerialInv, SerialMovesAreCovered, SettledMovesAreCovered, PlaceInv
<1>2. QED
  BY <1>1, SerialInvHolds, PTL

\* While calls do not overlap, no failure or crash between the two writes of a
\* rebalance leaves the tenant with more than it funded.
THEOREM NothingMintedHolds == Spec => []NothingMinted
<1>1. TypeOK /\ SerialInv => NothingMinted
  BY DEF SerialInv, NothingMinted, TotalInv, Total
<1>2. QED
  BY <1>1, SerialInvHolds, PTL

\* While calls do not overlap, at most one call returns from a decision.
ReturnedOnce ==
  ~Overlap => \A c1, c2 \in Calls :
    SameDecision(c1, c2) => ~(pc[c1] = "returned" /\ pc[c2] = "returned")

LEMMA ReturnedOnceHolds == Spec => []ReturnedOnce
<1>1. Init => ReturnedOnce
  BY DEF Init, ReturnedOnce
<1>2. TypeOK /\ SerialInv /\ ReturnedOnce /\ [Next]_vars => ReturnedOnce'
  <2> USE DEF SameDecision
  <2> SUFFICES ASSUME TypeOK, SerialInv, ReturnedOnce, [Next]_vars, ~Overlap',
                      NEW c1 \in Calls, NEW c2 \in Calls, c1 # c2,
                      job'[c1].decision = job'[c2].decision,
                      job'[c1].decision # NoDecision,
                      pc'[c1] = "returned", pc'[c2] = "returned"
               PROVE  FALSE
    BY DEF ReturnedOnce
  <2>1. /\ \A c \in Calls : PlaceInv(c)
        /\ Alone /\ ~Overlap
    BY DEF SerialInv, Overlap, Next, vars
  <2>2. ASSUME UNCHANGED job, \A c \in Calls : pc'[c] = "returned" => pc[c] = "returned"
        PROVE  FALSE
    BY <2>1, <2>2 DEF ReturnedOnce
  <2>3. ASSUME NEW c \in Calls, Starts(c)
        PROVE  FALSE
    <3>1. \A x \in Calls \ {c} : pc'[x] = pc[x] /\ job'[x] = job[x]
      BY <2>3, StartShape DEF TypeOK
    <3>2. pc'[c] # "returned"
      BY <2>3, StartShape DEF TypeOK
    <3>3. QED
      BY <2>1, <3>1, <3>2 DEF ReturnedOnce
  <2>4. ASSUME NEW c \in Calls, CallStep(c)
        PROVE  FALSE
    <3>1. /\ job' = job /\ pc[c] \in Running
          /\ \A x \in Calls \ {c} : pc'[x] = pc[x]
      BY <2>4, StepShape DEF TypeOK
    <3>2. CASE c \notin {c1, c2}
      BY <2>1, <3>1, <3>2 DEF ReturnedOnce
    <3>3. PICK x \in {c1, c2} : x # c
      OBVIOUS
    <3>4. CASE c \in {c1, c2}
      <4>1. /\ pc[x] = "returned" /\ job[x].decision = job[c].decision
            /\ job[c].decision # NoDecision /\ pc'[c] = "returned"
        BY <3>1, <3>3, <3>4
      <4>2. decision[job[c].decision] = "executed"
        BY <2>1, <3>3, <4>1 DEF PlaceInv
      <4>3. pc[c] = "find"
        BY <2>1, <3>1, <4>1, <4>2 DEF PlaceInv, Running
      <4>4. pc'[c] # "returned"
        <5>1. FindDecision(c) \/ DbFault(c)
          BY <2>4, <4>3
             DEF CallStep, Goto, InsertProposal, FindDecision, Check, AskDefindex, DefindexFails,
                 AskBlend, BlendFails, AskVenue, VenueFails, Record, RecordRefused,
                 ReadFrom, WriteFrom, ReadTo, WriteTo, ReadPosition, WritePosition,
                 WriteRefused, Decide, RecordFault
        <5>2. QED
          BY <5>1 DEF FindDecision, DbFault, Goto, TypeOK
      <4>5. QED
        BY <4>1, <4>4
    <3>5. QED
      BY <3>2, <3>4
  <2>5. CASE Crash
    BY <2>2, <2>5 DEF Crash, TypeOK
  <2>6. CASE \/ UNCHANGED vars
             \/ \E c \in Calls : LandsLate(c)
             \/ \E d \in Executable : Propose(d)
    BY <2>2, <2>6 DEF vars, LandsLate, Propose
  <2>7. QED
    BY <2>3, <2>4, <2>5, <2>6 DEF Next, Starts
<1>3. QED
  BY <1>1, <1>2, SerialInvHolds, PTL DEF Spec

\* While calls do not overlap, a decision is carried out once by the calls that are
\* not cut off.  Of two that moved its money, one is in progress at most, which the
\* check before the move lets happen only while the decision is a proposal; one that
\* returned has made it "executed" for good; and two do not return.
THEOREM SerialDecisionOnceHolds == Spec => []SerialDecisionOnce
<1>1. ASSUME TypeOK, SerialInv, \A c \in Calls : SentInv(c), ReturnedOnce, ~Overlap,
             NEW c1 \in acted \ CutOff, NEW c2 \in acted \ CutOff, SameDecision(c1, c2)
      PROVE  FALSE
  <2>1. /\ c1 \in Calls /\ c2 \in Calls /\ Alone
        /\ PlaceInv(c1) /\ PlaceInv(c2) /\ c1 # c2
        /\ job[c1].decision = job[c2].decision /\ job[c1].decision # NoDecision
    BY <1>1 DEF TypeOK, SerialInv, SameDecision
  <2>2. \A c \in {c1, c2} : \/ pc[c] = "returned"
                           \/ pc[c] \in Running \ {"propose", "find"}
    BY <1>1, <2>1 DEF SentInv, CutOff, TypeOK, Finished
  <2>3. ~(pc[c1] = "returned" /\ pc[c2] = "returned")
    BY <1>1, <2>1 DEF ReturnedOnce
  <2>4. ~(pc[c1] \in Running /\ pc[c2] \in Running)
    BY <2>1 DEF Alone
  <2>5. QED
    BY <2>1, <2>2, <2>3, <2>4 DEF PlaceInv, Running
<1>2. TypeOK /\ SerialInv /\ (\A c \in Calls : SentInv(c)) /\ ReturnedOnce
        => SerialDecisionOnce
  BY <1>1 DEF SerialDecisionOnce
<1>3. QED
  BY <1>2, SerialInvHolds, SentInvHolds, ReturnedOnceHolds, PTL

-----------------------------------------------------------------------------
(* Calls one after another, none of which meets a failure.                 *)

\* The buckets of a move that has a source other than its target.
LEMMA MoveBuckets ==
  ASSUME TypeOK, NEW c \in Calls, job[c].move \in Asked, Undisturbed
  PROVE  /\ job[c].move.from # job[c].move.to
         /\ FromBucket(c)[1] = job[c].move.from /\ ToBucket(c)[1] = job[c].move.to
         /\ job[c].move.from \in Venues => FromBucket(c) = <<job[c].move.from, job[c].move.ref>>
         /\ \A k \in Symbols :
              /\ FromBucket(c) \in BucketsOf(k) <=>
                   job[c].move.from # "liquidity" /\ k = Symbol(c)
              /\ ToBucket(c) \in BucketsOf(k) <=>
                   job[c].move.to # "liquidity" /\ k = Symbol(c)
<1>1. /\ job[c].move.from # job[c].move.to
      /\ job[c].move.from \in Strategies /\ job[c].move.to \in Strategies
      /\ job[c].move.ref \in Refs
  BY JobFacts DEF Undisturbed, TypeOK
<1>2. /\ FromBucket(c)[1] = job[c].move.from /\ ToBucket(c)[1] = job[c].move.to
      /\ job[c].move.from \in Venues => FromBucket(c) = <<job[c].move.from, job[c].move.ref>>
      /\ job[c].move.to \in Venues => ToBucket(c) = <<job[c].move.to, job[c].move.ref>>
  BY <1>1 DEF FromBucket, ToBucket, Bucket, Venues
<1>3. ASSUME NEW s \in Strategies
      PROVE  \A k \in Symbols : Bucket(s, job[c].move.ref) \in BucketsOf(k) <=>
               s # "liquidity" /\ k = Symbol(c)
  BY <1>1 DEF Bucket, BucketsOf, Symbol, Venues, Strategies
<1>4. QED
  BY <1>1, <1>2, <1>3 DEF FromBucket, ToBucket

\* The state the step lemmas below start from: calls one after another, nothing
\* fails, and call c is in progress.
Underway(c) ==
  /\ TypeOK /\ Undisturbed /\ Alone
  /\ PlaceInv(c) /\ Level(c) /\ Fresh(c)
  /\ pc[c] \in Running /\ job[c].move \in Asked

\* A venue holds what a withdrawal asks of it.
LEMMA VenueSuffices ==
  ASSUME NEW c \in Calls, Underway(c), NEW v \in Venues,
         held[FromBucket(c)] >= Amount(c), VenueMove(v, c) # 0, Ahead(v, c) = 0
  PROVE  venue[v] + VenueMove(v, c) >= 0
<1> USE DEF Underway
<1>1. v \in Driven /\ Amount(c) \in Nat /\ venue[v] \in Nat
  BY JobFacts DEF Driven, VenueMove, TypeOK
<1>2. Booked(v) \in Nat /\ \A r \in Refs : Booked(v) >= held[<<v, r>>]
  BY BookedIsNat DEF TypeOK
<1>3. CASE job[c].move.to = v
  BY <1>1, <1>3 DEF VenueMove
<1>4. CASE job[c].move.to # v
  <2>1. job[c].move.from = v /\ VenueMove(v, c) = -Amount(c)
    BY <1>4 DEF VenueMove
  <2>2. FromBucket(c) = <<v, job[c].move.ref>> /\ job[c].move.ref \in Refs
    BY <2>1, MoveBuckets, JobFacts DEF TypeOK
  <2>3. held[FromBucket(c)] \in Nat
    BY JobFacts DEF TypeOK
  <2>4. venue[v] = Booked(v)
    BY <1>1, <1>2 DEF Level
  <2>5. QED
    BY <1>1, <1>2, <2>1, <2>2, <2>3, <2>4
<1>5. QED
  BY <1>3, <1>4

\* The contract accepts a move of a positive amount.
LEMMA ContractAccepts ==
  ASSUME NEW c \in Calls, Underway(c), pc[c] = "record",
         balance[Symbol(c)] + Amount(c) <= MaxAmount,
         RecordRefused(c)
  PROVE  Amount(c) = 0
<1> USE DEF Underway
<1> DEFINE k == Symbol(c)
<1>1. Amount(c) \in Nat /\ k \in Symbols /\ balance[k] \in Nat
  BY JobFacts DEF TypeOK, Contract!TypeOK
<1>2. ASSUME Amount(c) # 0
      PROVE  /\ Contract!ValidFlow(Direction(c), Amount(c))
             /\ Contract!Covered(k, Direction(c), Amount(c))
  <2>1. Contract!ValidFlow(Direction(c), Amount(c))
    BY <1>1, <1>2 DEF Contract!ValidFlow, Direction
  <2>2. CASE job[c].move.to # "liquidity"
    BY <2>1, <2>2 DEF Contract!Covered, Direction
  <2>3. CASE job[c].move.to = "liquidity"
    <3>1. FromBucket(c) \in BucketsOf(k)
      BY <1>1, <2>3, MoveBuckets
    <3>2. InVenues(k) \in Nat /\ InVenues(k) >= held[FromBucket(c)]
      BY <1>1, <3>1, InVenuesIsNat DEF TypeOK
    <3>3. balance[k] >= InVenues(k)
      BY <1>1, <2>3, <3>2 DEF Level, Lead, RecordRefused
    <3>4. held[FromBucket(c)] >= Amount(c) /\ held[FromBucket(c)] \in Nat
      BY JobFacts DEF PlaceInv, TypeOK
    <3>5. balance[k] >= Amount(c)
      <4> HIDE DEF k
      <4> QED
        BY <1>1, <3>2, <3>3, <3>4
    <3>6. QED
      BY <2>1, <2>3, <3>5 DEF Contract!Covered, Direction
  <2>4. QED
    BY <2>1, <2>2, <2>3
<1>3. QED
  BY <1>2 DEF RecordRefused

\* The steps that write neither a position nor a venue nor the contract.
LEMMA QuietStepKeepsLevel ==
  ASSUME NEW c \in Calls, Underway(c), UNCHANGED setting,
         pc[c] = "record" => balance[Symbol(c)] + Amount(c) <= MaxAmount,
         \/ InsertProposal(c) \/ FindDecision(c) \/ Check(c) \/ DefindexFails(c) \/ BlendFails(c)
         \/ RecordRefused(c) \/ ReadFrom(c) \/ ReadTo(c) \/ WriteRefused(c)
         \/ Decide(c) \/ DbFault(c) \/ RecordFault(c)
  PROVE  (Level(c) /\ Fresh(c))' /\ balance' = balance /\ late' = late
<1> USE DEF Goto, dbVars, sentVars, treasuryVars
<1>1. /\ TypeOK /\ Faults = {} /\ pc \in [Calls -> {"idle"} \cup Running \cup Finished]
      /\ job[c] \in Job /\ Amount(c) \in Nat
  BY JobFacts DEF Underway, Undisturbed, TypeOK
<1>2. ASSUME UNCHANGED <<held, stored, venue, job, treasuryVars>>,
             \A v \in Driven : Ahead(v, c)' = Ahead(v, c),
             Lead(c)' = Lead(c),
             pc'[c] = "writeFrom" => insert'[c] = (FromBucket(c) \notin stored),
             pc'[c] = "writeTo" => insert'[c] = (ToBucket(c) \notin stored)
      PROVE  (Level(c) /\ Fresh(c))' /\ balance' = balance
  <2>1. Driven' = Driven /\ \A v \in Driven : Booked(v)' = Booked(v)
    BY <1>2 DEF Driven, Booked
  <2>2. /\ \A k \in Symbols : InVenues(k)' = InVenues(k)
        /\ Live' = Live /\ Symbol(c)' = Symbol(c)
    BY <1>2 DEF InVenues, Live, Symbol
  <2>3. Level(c)'
    BY <1>2, <2>1, <2>2 DEF Level, Underway
  <2>4. QED
    BY <1>2, <2>3 DEF Fresh, FromBucket, ToBucket
<1>3. CASE InsertProposal(c) \/ FindDecision(c) \/ Check(c) \/ Decide(c)
  <2>1. /\ pc[c] \in {"propose", "find", "check", "decide"}
        /\ pc'[c] \in {"check", "defindex", "returned", "threw"}
        /\ UNCHANGED <<held, stored, venue, job, late, treasuryVars>>
    BY <1>1, <1>3 DEF InsertProposal, FindDecision, Check, Decide
  <2>2. Lead(c)' = Lead(c) /\ \A v \in Driven : Ahead(v, c)' = Ahead(v, c)
    BY <2>1 DEF Lead, Ahead
  <2>3. QED
    BY <1>2, <2>1, <2>2
<1>4. CASE DefindexFails(c) \/ BlendFails(c)
  <2>1. PICK v \in Venues :
          /\ pc[c] = IF v = "defindex_vault" THEN "defindex" ELSE "blend"
          /\ VenueMove(v, c) # 0 /\ venue[v] + VenueMove(v, c) < 0
    BY <1>1, <1>4 DEF DefindexFails, BlendFails, VenueFails, Venues, Strategies
  <2>2. held[FromBucket(c)] >= Amount(c) /\ Ahead(v, c) = 0
    BY <2>1 DEF Underway, PlaceInv, Ahead
  <2>3. VenueMove(v, c) \in Int /\ venue[v] \in Nat
    BY <1>1, VenueMoveIsInt DEF TypeOK
  <2>4. QED
    BY <2>1, <2>2, <2>3, VenueSuffices
<1>5. CASE RecordRefused(c)
  <2>1. /\ pc[c] = "record" /\ pc'[c] = "threw"
        /\ UNCHANGED <<held, stored, venue, job, late, treasuryVars>>
    BY <1>1, <1>5 DEF RecordRefused
  <2>2. Amount(c) = 0
    BY <1>5, <2>1, ContractAccepts
  <2>3. Lead(c)' = Lead(c) /\ \A v \in Driven : Ahead(v, c)' = Ahead(v, c)
    <3>1. \A v \in Driven : Ahead(v, c) = VenueMove(v, c) /\ Ahead(v, c)' = 0
      BY <2>1 DEF Ahead
    <3>2. \A v \in Driven : VenueMove(v, c) = 0
      <4>1. Amount(c) \in Nat /\ Amount(c) <= 0
        BY <1>1, <2>2
      <4>2. QED
        BY <4>1 DEF VenueMove
    <3>3. Lead(c)' = Lead(c)
      BY <2>1, <2>2 DEF Lead
    <3>4. QED
      BY <3>1, <3>2, <3>3
  <2>4. QED
    BY <1>2, <2>1, <2>3
<1>6. CASE ReadFrom(c) \/ ReadTo(c)
  <2>1. /\ \/ /\ pc[c] = "readFrom" /\ pc'[c] = "writeFrom"
              /\ insert'[c] = (FromBucket(c) \notin stored)
           \/ /\ pc[c] = "readTo" /\ pc'[c] = "writeTo"
              /\ insert'[c] = (ToBucket(c) \notin stored)
        /\ UNCHANGED <<held, stored, venue, job, late, treasuryVars>>
    BY <1>1, <1>6 DEF ReadFrom, ReadTo, ReadPosition, TypeOK
  <2>2. Lead(c)' = Lead(c) /\ \A v \in Driven : Ahead(v, c)' = Ahead(v, c)
    BY <2>1 DEF Lead, Ahead, VenueMove, Amount
  <2>3. QED
    BY <1>2, <2>1, <2>2
<1>7. CASE WriteRefused(c)
  <2>1. /\ pc[c] = "writeFrom" => ~RowConflict(c, FromBucket(c)) /\ NotNegative(c)
        /\ pc[c] = "writeTo" => ~RowConflict(c, ToBucket(c))
    BY <1>1 DEF Underway, Fresh, RowConflict, NotNegative, Debited, PlaceInv, TypeOK
  <2>2. QED
    BY <1>7, <2>1 DEF WriteRefused
<1>8. CASE DbFault(c) \/ RecordFault(c)
  BY <1>1, <1>8 DEF DbFault, RecordFault
<1>9. QED
  BY <1>3, <1>4, <1>5, <1>6, <1>7, <1>8

\* The steps that ask a venue.
LEMMA AskKeepsLevel ==
  ASSUME NEW c \in Calls, Underway(c), UNCHANGED setting, AskDefindex(c) \/ AskBlend(c)
  PROVE  (Level(c) /\ Fresh(c))' /\ balance' = balance /\ late' = late
<1>1. PICK u \in Venues :
        /\ u = "defindex_vault" => pc[c] = "defindex" /\ pc'[c] = "blend"
        /\ u # "defindex_vault" => pc[c] = "blend" /\ pc'[c] = "record"
        /\ venue' = [venue EXCEPT ![u] = @ + VenueMove(u, c)]
        /\ UNCHANGED <<held, stored, job, late, balance>>
  BY DEF AskDefindex, AskBlend, AskVenue, Goto, Underway, TypeOK, Venues, Strategies,
         dbVars, treasuryVars
<1>2. /\ Driven' = Driven /\ Driven \subseteq Venues
      /\ \A v \in Driven : Booked(v)' = Booked(v)
      /\ \A k \in Symbols : InVenues(k)' = InVenues(k)
      /\ Live' = Live /\ Symbol(c)' = Symbol(c)
  BY <1>1 DEF Driven, Booked, InVenues, Live, Symbol
<1>3. ASSUME NEW v \in Driven
      PROVE  venue'[v] = Booked(v)' + Ahead(v, c)'
  <2>1. /\ venue[v] = Booked(v) + Ahead(v, c) /\ v \in Venues
        /\ VenueMove(v, c)' = VenueMove(v, c) /\ VenueMove(v, c) \in Int
    BY <1>1, <1>2, VenueMoveIsInt DEF Underway, Level, VenueMove, Amount, TypeOK
  <2>2. venue[v] \in Nat /\ Booked(v) \in Nat
    BY <2>1, BookedIsNat DEF Underway, TypeOK
  <2>3. venue'[v] = IF v = u THEN venue[v] + VenueMove(v, c) ELSE venue[v]
    BY <1>1, <2>1 DEF Underway, TypeOK
  <2>4. Ahead(v, c)' = IF v = u THEN VenueMove(v, c) ELSE Ahead(v, c)
    BY <1>1, <2>1 DEF Ahead, Venues, Strategies
  <2>5. v = u => Ahead(v, c) = 0
    BY <1>1 DEF Ahead
  <2>6. QED
    BY <1>2, <2>1, <2>2, <2>3, <2>4, <2>5
<1>4. Lead(c)' = Lead(c) /\ Fresh(c)'
  BY <1>1 DEF Lead, Fresh, Amount
<1>5. QED
  BY <1>1, <1>2, <1>3, <1>4 DEF Level, Underway

\* The contract is told: its balance moves before the books do.
LEMMA RecordKeepsLevel ==
  ASSUME NEW c \in Calls, Underway(c), UNCHANGED setting, Record(c)
  PROVE  /\ (Level(c) /\ Fresh(c))' /\ late' = late
         /\ \A k \in Symbols : balance'[k] <= balance[k] + Amount(c)
<1> DEFINE q == Symbol(c)
<1>1. /\ UNCHANGED <<held, stored, venue, job, late>>
      /\ pc[c] = "record" /\ pc'[c] = "readFrom"
      /\ Live => balance' = [balance EXCEPT ![q] =
                               Contract!NextBalance(q, Direction(c), Amount(c))]
      /\ ~Live => balance' = balance
  BY DEF Record, Flow, Goto, dbVars, treasuryVars, Underway, TypeOK, Contract!RecordFlow
<1>2. /\ Driven' = Driven /\ Live' = Live /\ Symbol(c)' = q
      /\ \A v \in Driven : Booked(v)' = Booked(v)
      /\ \A k \in Symbols : InVenues(k)' = InVenues(k)
      /\ \A v \in Driven : Ahead(v, c)' = Ahead(v, c)
  BY <1>1 DEF Driven, Booked, InVenues, Ahead, VenueMove, Amount, Live, Symbol
<1>3. /\ Amount(c) \in Nat /\ q \in Symbols /\ balance \in [Symbols -> Nat]
      /\ \A k \in Symbols : InVenues(k) \in Nat
  <2>1. balance \in [Symbols -> Nat]
    BY DEF Underway, TypeOK, Contract!TypeOK
  <2>2. QED
    BY <2>1, InVenuesIsNat, JobFacts DEF Underway, TypeOK
<1> HIDE DEF q
<1>4. /\ Live => balance'[q] = IF job[c].move.to = "liquidity" THEN balance[q] - Amount(c)
                               ELSE balance[q] + Amount(c)
      /\ \A k \in Symbols : k # q => balance'[k] = balance[k]
  BY <1>1, <1>3 DEF Contract!NextBalance, Direction
<1>5. /\ Lead(c) = 0
      /\ Lead(c)' = IF job[c].move.to = "liquidity" THEN -Amount(c) ELSE Amount(c)
  BY <1>1 DEF Lead, Amount
<1>6. ASSUME NEW k \in Symbols, Live
      PROVE  balance'[k] >= InVenues(k)' + IF k = q THEN Lead(c)' ELSE 0
  <2>1. balance[k] >= InVenues(k)
    BY <1>3, <1>5, <1>6 DEF Underway, Level, q
  <2>2. balance[k] \in Nat /\ InVenues(k) \in Nat
    BY <1>3
  <2>3. CASE k = q
    BY <1>2, <1>3, <1>4, <1>5, <1>6, <2>1, <2>2, <2>3
  <2>4. CASE k # q
    BY <1>2, <1>4, <2>1, <2>2, <2>4
  <2>5. QED
    BY <2>3, <2>4
<1>7. (Level(c) /\ Fresh(c))'
  BY <1>1, <1>2, <1>6 DEF Level, Fresh, Underway
<1>8. ASSUME NEW k \in Symbols
      PROVE  balance'[k] <= balance[k] + Amount(c)
  <2>1. balance[k] \in Nat
    BY <1>3
  <2>2. QED
    BY <1>1, <1>3, <1>4, <2>1
<1>9. QED
  BY <1>1, <1>7, <1>8

\* The debit: the books of the source catch up with its venue.
LEMMA DebitKeepsLevel ==
  ASSUME NEW c \in Calls, Underway(c), UNCHANGED setting, WriteFrom(c)
  PROVE  (Level(c) /\ Fresh(c))' /\ balance' = balance /\ late' = late
<1> DEFINE b == FromBucket(c)
           a == Amount(c)
<1>1. /\ held' = [held EXCEPT ![b] = Debited(c)]
      /\ pc[c] = "writeFrom" /\ pc'[c] = "readTo"
      /\ UNCHANGED <<venue, job, late, balance>>
  BY DEF WriteFrom, WritePosition, Goto, Underway, TypeOK, sentVars, treasuryVars
<1>2. /\ b \in Buckets /\ a \in Nat /\ held[b] \in Nat
      /\ Debited(c) = held[b] - a /\ Debited(c) \in Nat
      /\ held \in [Buckets -> Nat]
  BY <1>1, JobFacts DEF Underway, TypeOK, PlaceInv, Debited
<1>3. /\ b[1] = job[c].move.from
      /\ job[c].move.from # job[c].move.to
      /\ job[c].move.from \in Strategies
  BY MoveBuckets, JobFacts DEF Underway, TypeOK
<1>4. /\ Driven' = Driven /\ Driven \subseteq Venues
      /\ Live' = Live /\ Symbol(c)' = Symbol(c)
  BY <1>1 DEF Driven, Live, Symbol
<1>5. ASSUME NEW v \in Driven
      PROVE  venue'[v] = Booked(v)' + Ahead(v, c)'
  <2>1. Booked(v) \in Nat /\ venue[v] \in Nat
    BY <1>2, <1>4, BookedIsNat DEF Underway, TypeOK
  <2>2. Booked(v)' = IF job[c].move.from = v THEN Booked(v) - a ELSE Booked(v)
    <3>1. Booked(v)' = IF b[1] = v THEN Booked(v) + Debited(c) - held[b] ELSE Booked(v)
      BY <1>1, <1>2, <1>4, WriteChangesSums
    <3>2. QED
      BY <1>2, <1>3, <2>1, <3>1
  <2>3. venue[v] = Booked(v) + VenueMove(v, c)
    BY <1>1 DEF Underway, Level, Ahead
  <2>4. VenueMove(v, c) = IF job[c].move.to = v THEN a
                          ELSE IF job[c].move.from = v THEN -a ELSE 0
    BY DEF Driven, VenueMove
  <2>5. Ahead(v, c)' = IF job[c].move.to = v THEN a ELSE 0
    BY <1>1 DEF Ahead, Amount
  <2>6. QED
    BY <1>1, <1>2, <1>3, <2>1, <2>2, <2>3, <2>4, <2>5
<1>6. ASSUME NEW k \in Symbols, Live
      PROVE  balance'[k] >= InVenues(k)' + IF k = Symbol(c) THEN Lead(c)' ELSE 0
  <2>1. /\ balance[k] \in Nat /\ InVenues(k) \in Nat
        /\ balance[k] >= InVenues(k) + IF k = Symbol(c) THEN Lead(c) ELSE 0
    BY <1>2, <1>6, InVenuesIsNat DEF Underway, Level, TypeOK, Contract!TypeOK
  <2>2. InVenues(k)' = IF job[c].move.from # "liquidity" /\ k = Symbol(c)
                       THEN InVenues(k) - a ELSE InVenues(k)
    <3>1. InVenues(k)' = IF b \in BucketsOf(k)
                         THEN InVenues(k) + Debited(c) - held[b] ELSE InVenues(k)
      BY <1>1, <1>2, WriteChangesSums
    <3>2. b \in BucketsOf(k) <=> job[c].move.from # "liquidity" /\ k = Symbol(c)
      BY MoveBuckets DEF Underway
    <3>3. QED
      BY <1>2, <2>1, <3>1, <3>2
  <2>3. /\ Lead(c) = IF job[c].move.to # "liquidity" THEN a ELSE -a
        /\ Lead(c)' = IF job[c].move.to # "liquidity" THEN a ELSE 0
    BY <1>1 DEF Lead, Amount
  <2>4. CASE k # Symbol(c)
    BY <1>1, <2>1, <2>2, <2>4
  <2>5. CASE k = Symbol(c)
    BY <1>1, <1>2, <1>3, <2>1, <2>2, <2>3, <2>5
  <2>6. QED
    BY <2>4, <2>5
<1>7. QED
  BY <1>1, <1>4, <1>5, <1>6 DEF Level, Fresh

\* The credit: the books of the target catch up with its venue.
LEMMA CreditKeepsLevel ==
  ASSUME NEW c \in Calls, Underway(c), UNCHANGED setting, WriteTo(c)
  PROVE  (Level(c) /\ Fresh(c))' /\ balance' = balance /\ late' = late
<1> DEFINE b == ToBucket(c)
           a == Amount(c)
<1>1. /\ held' = [held EXCEPT ![b] = Credited(c)]
      /\ pc[c] = "writeTo" /\ pc'[c] \in {"returned", "decide"}
      /\ UNCHANGED <<venue, job, late, balance>>
  BY DEF WriteTo, WritePosition, AfterWrites, Goto, Underway, TypeOK, sentVars,
         treasuryVars
<1>2. /\ b \in Buckets /\ a \in Nat /\ held[b] \in Nat
      /\ Credited(c) = held[b] + a /\ Credited(c) \in Nat
      /\ held \in [Buckets -> Nat]
  BY <1>1, JobFacts DEF Underway, TypeOK, PlaceInv, Credited
<1>3. b[1] = job[c].move.to /\ job[c].move.to \in Strategies
  BY MoveBuckets, JobFacts DEF Underway, TypeOK
<1>4. /\ Driven' = Driven /\ Driven \subseteq Venues
      /\ Live' = Live /\ Symbol(c)' = Symbol(c)
  BY <1>1 DEF Driven, Live, Symbol
<1>5. ASSUME NEW v \in Driven
      PROVE  venue'[v] = Booked(v)' + Ahead(v, c)'
  <2>1. Booked(v) \in Nat /\ venue[v] \in Nat
    BY <1>2, <1>4, BookedIsNat DEF Underway, TypeOK
  <2>2. Booked(v)' = IF job[c].move.to = v THEN Booked(v) + a ELSE Booked(v)
    <3>1. Booked(v)' = IF b[1] = v THEN Booked(v) + Credited(c) - held[b] ELSE Booked(v)
      BY <1>1, <1>2, <1>4, WriteChangesSums
    <3>2. QED
      BY <1>2, <1>3, <2>1, <3>1
  <2>3. /\ venue[v] = Booked(v) + Ahead(v, c)
        /\ Ahead(v, c) = IF job[c].move.to = v THEN a ELSE 0
    BY <1>1 DEF Underway, Level, Ahead
  <2>4. Ahead(v, c)' = 0
    BY <1>1 DEF Ahead
  <2>5. QED
    BY <1>1, <1>2, <2>1, <2>2, <2>3, <2>4
<1>6. ASSUME NEW k \in Symbols, Live
      PROVE  balance'[k] >= InVenues(k)' + IF k = Symbol(c) THEN Lead(c)' ELSE 0
  <2>1. /\ balance[k] \in Nat /\ InVenues(k) \in Nat
        /\ balance[k] >= InVenues(k) + IF k = Symbol(c) THEN Lead(c) ELSE 0
    BY <1>2, <1>6, InVenuesIsNat DEF Underway, Level, TypeOK, Contract!TypeOK
  <2>2. InVenues(k)' = IF job[c].move.to # "liquidity" /\ k = Symbol(c)
                       THEN InVenues(k) + a ELSE InVenues(k)
    <3>1. InVenues(k)' = IF b \in BucketsOf(k)
                         THEN InVenues(k) + Credited(c) - held[b] ELSE InVenues(k)
      BY <1>1, <1>2, WriteChangesSums
    <3>2. b \in BucketsOf(k) <=> job[c].move.to # "liquidity" /\ k = Symbol(c)
      BY MoveBuckets DEF Underway
    <3>3. QED
      BY <1>2, <2>1, <3>1, <3>2
  <2>3. /\ Lead(c) = IF job[c].move.to # "liquidity" THEN a ELSE 0
        /\ Lead(c)' = 0
    BY <1>1 DEF Lead, Amount
  <2>4. QED
    BY <1>1, <1>2, <2>1, <2>2, <2>3
<1>7. QED
  BY <1>1, <1>4, <1>5, <1>6 DEF Level, Fresh

\* How many calls the contract has been told of bounds its balances.
LEMMA RecordedGrows ==
  ASSUME TypeOK, NEW c \in Calls, IsFiniteSet(Calls), CallStep(c), UNCHANGED setting
  PROVE  /\ IsFiniteSet(Recorded') /\ Cardinality(Recorded') \in Nat
         /\ Cardinality(Recorded) \in Nat
         /\ Cardinality(Recorded') >= Cardinality(Recorded)
         /\ pc[c] = "record" =>
              /\ Cardinality(Recorded) + 1 <= Cardinality(Calls)
              /\ pc'[c] # "record" => Cardinality(Recorded') = Cardinality(Recorded) + 1
<1>1. PICK l \in Running \cup Finished : pc' = [pc EXCEPT ![c] = l]
  BY StepShape
<1>2. pc'[c] = l /\ \A d \in Calls \ {c} : pc'[d] = pc[d]
  BY <1>1 DEF TypeOK
<1>3. Recorded \subseteq Calls /\ Recorded' \subseteq Calls
  BY DEF Recorded
<1>4. IsFiniteSet(Recorded) /\ IsFiniteSet(Recorded')
  BY <1>3, FS_Subset
<1>5. /\ Cardinality(Recorded) \in Nat /\ Cardinality(Recorded') \in Nat
      /\ Cardinality(Calls) \in Nat
  BY <1>4, FS_CardinalityType
<1>6. c \in Recorded => c \in Recorded'
  BY <1>2
     DEF CallStep, Goto, InsertProposal, FindDecision, Check, AskDefindex, DefindexFails, AskBlend,
         BlendFails, AskVenue, VenueFails, Record, RecordRefused, ReadFrom, WriteFrom,
         ReadTo, WriteTo, ReadPosition, WritePosition, WriteRefused, AfterWrites,
         Decide, RecordFault, DbFault, Recorded, Running, TypeOK
<1>7. Recorded \subseteq Recorded'
  BY <1>2, <1>6 DEF Recorded
<1>8. Cardinality(Recorded') >= Cardinality(Recorded)
  BY <1>4, <1>5, <1>7, FS_Subset
<1>9. ASSUME pc[c] = "record"
      PROVE  /\ Cardinality(Recorded) + 1 <= Cardinality(Calls)
             /\ pc'[c] # "record" => Cardinality(Recorded') = Cardinality(Recorded) + 1
  <2>1. c \notin Recorded
    BY <1>9 DEF Recorded
  <2>2. /\ IsFiniteSet(Recorded \cup {c})
        /\ Cardinality(Recorded \cup {c}) = Cardinality(Recorded) + 1
    BY <1>4, <2>1, FS_AddElement
  <2>3. Cardinality(Recorded \cup {c}) <= Cardinality(Calls)
    BY <1>3, FS_Subset
  <2>4. pc'[c] # "record" => Recorded' = Recorded \cup {c}
    <3>1. pc'[c] \notin {"idle", "propose", "find", "check", "defindex", "blend"}
      BY <1>9, <1>2
         DEF CallStep, Goto, InsertProposal, FindDecision, Check, AskDefindex, DefindexFails, AskBlend,
             BlendFails, AskVenue, VenueFails, Record, RecordRefused, ReadFrom,
             WriteFrom, ReadTo, WriteTo, ReadPosition, WritePosition, WriteRefused,
             Decide, RecordFault, DbFault, Running, TypeOK
    <3>2. QED
      BY <1>2, <1>7, <3>1 DEF Recorded
  <2>5. QED
    BY <2>2, <2>3, <2>4
<1>10. QED
  BY <1>4, <1>5, <1>8, <1>9

\* More calls, more room: the one fact about products the bound needs.
LEMMA BoundGrows ==
  ASSUME NEW k \in Nat, NEW m \in Nat, NEW n \in Nat, m <= n
  PROVE  /\ k * m \in Nat /\ k * n \in Nat
         /\ k * m <= k * n /\ k * (m + 1) = k * m + k
<1>1. /\ k * m \in Nat /\ k * n \in Nat /\ k * (m + 1) = k * m + k
  OBVIOUS
<1>2. PICK d \in Nat : n = m + d
  <2>1. n - m \in Nat /\ n = m + (n - m)
    OBVIOUS
  <2>2. QED
    BY <2>1
<1>3. k * n = k * m + k * d /\ k * d \in Nat
  BY <1>2
<1>4. QED
  BY <1>1, <1>3

\* One step of the call in progress, when nothing goes wrong.
LEMMA BookStep ==
  ASSUME NEW cap \in Nat, \A a \in Amounts : a <= cap, IsFiniteSet(Calls),
         cap * Cardinality(Calls) <= MaxAmount,
         TypeOK, Undisturbed, Alone, \A x \in Calls : PlaceInv(x), BookInv(cap),
         NEW c \in Calls, CallStep(c), UNCHANGED setting
  PROVE  BookInv(cap)'
<1>1. pc[c] \in Running /\ job' = job
  BY StepShape
<1>2. Underway(c)
  BY <1>1 DEF Underway, BookInv
<1>3. /\ Amount(c) \in Nat /\ Amount(c) <= cap /\ Symbol(c) \in Symbols
      /\ \A k \in Symbols : balance[k] \in Nat /\ balance[k] <= cap * Cardinality(Recorded)
      /\ Cardinality(Calls) \in Nat /\ MaxAmount \in Nat
  BY JobFacts, FS_CardinalityType, RebalanceAssumption
     DEF TypeOK, Contract!TypeOK, BookInv
<1>4. pc[c] = "record" => balance[Symbol(c)] + Amount(c) <= MaxAmount
  <2>1. CASE pc[c] = "record"
    <3> DEFINE n == Cardinality(Recorded)
    <3>1. n \in Nat /\ n + 1 <= Cardinality(Calls)
      BY <2>1, RecordedGrows
    <3>2. /\ cap * n \in Nat /\ cap * (n + 1) = cap * n + cap
          /\ cap * (n + 1) <= cap * Cardinality(Calls)
          /\ cap * Cardinality(Calls) \in Nat
      BY <1>3, <3>1, BoundGrows
    <3> DEFINE x == cap * n
               z == cap * Cardinality(Calls)
    <3>3. /\ x \in Nat /\ z \in Nat /\ x + cap <= z /\ z <= MaxAmount
          /\ balance[Symbol(c)] <= x
      BY <1>3, <3>2
    <3> HIDE DEF x, z
    <3>4. QED
      BY <1>3, <3>3
  <2>2. QED
    BY <2>1
<1>5. /\ Level(c)' /\ Fresh(c)' /\ late' = late
      /\ \A k \in Symbols : balance'[k] <= cap * Cardinality(Recorded')
  <2> DEFINE n == Cardinality(Recorded)
             m == Cardinality(Recorded')
  <2>1. n \in Nat /\ m \in Nat /\ n <= m /\ cap * n <= cap * m
        /\ cap * n \in Nat /\ cap * m \in Nat
    BY RecordedGrows, BoundGrows
  <2>2. ASSUME balance' = balance
        PROVE  \A k \in Symbols : balance'[k] <= cap * m
    <3> DEFINE x == cap * n
               z == cap * m
    <3>1. x \in Nat /\ z \in Nat /\ x <= z /\ \A k \in Symbols : balance[k] <= x
      BY <1>3, <2>1
    <3> HIDE DEF x, z
    <3>2. \A k \in Symbols : balance'[k] <= z
      BY <1>3, <2>2, <3>1
    <3>3. QED
      BY <3>2 DEF z
  <2>3. CASE Record(c)
    <3>1. pc[c] = "record" /\ pc'[c] # "record"
      BY <2>3 DEF Record, Goto, TypeOK
    <3>2. m = n + 1 /\ cap * m = cap * n + cap
      BY <2>1, <3>1, RecordedGrows, BoundGrows
    <3>3. \A k \in Symbols : balance'[k] <= balance[k] + Amount(c) /\ balance'[k] \in Int
      <4>1. \A k \in Symbols : balance'[k] <= balance[k] + Amount(c)
        BY <1>2, <2>3, RecordKeepsLevel
      <4>2. Contract!TypeOK'
        BY <1>3, <2>3, FlowKeepsTypes DEF Record, TypeOK, treasuryVars, Contract!TypeOK
      <4>3. \A k \in Symbols : balance'[k] \in Int
        BY <4>2 DEF Contract!TypeOK
      <4>4. QED
        BY <4>1, <4>3
    <3> DEFINE x == cap * n
               z == cap * m
    <3>4. x \in Nat /\ z = x + cap /\ \A k \in Symbols : balance[k] <= x
      BY <1>3, <2>1, <3>2
    <3> HIDE DEF x, z
    <3>5. \A k \in Symbols : balance'[k] <= z
      BY <1>3, <3>3, <3>4
    <3>6. QED
      BY <1>2, <2>3, <3>5, RecordKeepsLevel DEF z
  <2>4. CASE AskDefindex(c) \/ AskBlend(c)
    BY <1>2, <2>2, <2>4, AskKeepsLevel
  <2>5. CASE WriteFrom(c)
    BY <1>2, <2>2, <2>5, DebitKeepsLevel
  <2>6. CASE WriteTo(c)
    BY <1>2, <2>2, <2>6, CreditKeepsLevel
  <2>7. CASE \/ InsertProposal(c) \/ FindDecision(c) \/ Check(c) \/ DefindexFails(c) \/ BlendFails(c)
             \/ RecordRefused(c) \/ ReadFrom(c) \/ ReadTo(c) \/ WriteRefused(c)
             \/ Decide(c) \/ DbFault(c) \/ RecordFault(c)
    BY <1>2, <1>4, <2>2, <2>7, QuietStepKeepsLevel
  <2>8. QED
    BY <2>3, <2>4, <2>5, <2>6, <2>7 DEF CallStep
<1>6. \A x \in Calls \ {c} : pc'[x] \notin Running
  BY OthersUndisturbed
<1>7. pc'[c] \notin Running =>
        /\ \A v \in Driven : venue'[v] = Booked(v)'
        /\ Live => \A k \in Symbols : balance'[k] >= InVenues(k)'
  <2> SUFFICES ASSUME pc'[c] \notin Running
               PROVE  /\ \A v \in Driven : venue'[v] = Booked(v)'
                      /\ Live => \A k \in Symbols : balance'[k] >= InVenues(k)'
    OBVIOUS
  <2>1. /\ Driven' = Driven /\ Live' = Live
        /\ Lead(c)' = 0 /\ \A v \in Driven : Ahead(v, c)' = 0
    BY DEF Driven, Live, Lead, Ahead, Running
  <2>2. TypeOK'
    BY LocalStepKeepsTypes, WritingStepKeepsTypes DEF CallStep
  <2>3. /\ \A v \in Driven : Booked(v)' \in Nat
        /\ \A k \in Symbols : InVenues(k)' \in Nat
    <3>1. held' \in [Buckets -> Nat]
      BY <2>2 DEF TypeOK
    <3>2. \A k \in Symbols : InVenues(k)' \in Nat
      <4>1. \A k \in Symbols : BucketsOf(k) \in SUBSET Buckets
        BY DEF BucketsOf, Buckets
      <4>2. \A k \in Symbols : InVenues(k)' = SumFunctionOnSet(held', BucketsOf(k))
        BY DEF InVenues, BucketsOf
      <4> HIDE DEF BucketsOf
      <4>3. QED
        BY <3>1, <4>1, <4>2, PositionSums
    <3>3. \A v \in Venues : Booked(v)' \in Nat
      BY <3>1, BucketsFinite, PositionSums DEF Booked
    <3>4. QED
      BY <3>2, <3>3 DEF Driven
  <2>4. QED
    BY <1>5, <2>1, <2>3 DEF Level
<1>8. QED
  BY <1>1, <1>2, <1>5, <1>6, <1>7
     DEF BookInv, AtRest, Underway, Asked, Requests, Executable, Driven, Live

\* While calls come one after another and nothing fails, the positions of a venue
\* add up to what the platform has there whenever no call is in progress, for
\* moves between two venues too and for a move the contract refuses: an amount of
\* zero.  The contract would also refuse a deposit past i128::MAX, after the
\* venue took it, so the amounts of all calls together must stay below that.
THEOREM BooksMatchVenuesHolds ==
  ASSUME NEW cap \in Nat, \A a \in Amounts : a <= cap,
         IsFiniteSet(Calls), cap * Cardinality(Calls) <= MaxAmount
  PROVE  Spec => []BooksMatchVenues
<1>1. Init /\ TypeOK => UndisturbedInv(cap)
  <2> SUFFICES ASSUME Init, TypeOK
               PROVE  BookInv(cap)
    BY DEF UndisturbedInv
  <2>1. \A v \in Driven : venue[v] = Booked(v)
    BY InitialSums DEF Init, Driven
  <2>2. \A c \in Calls : pc[c] = "idle"
    BY DEF Init
  <2>3. Recorded = {} /\ Cardinality(Recorded) = 0
    BY <2>2, FS_EmptySet DEF Recorded
  <2>4. /\ \A k \in Symbols : balance[k] = 0 /\ InVenues(k) = 0
        /\ \A c \in Calls : late[c] = "nothing"
    BY InitialSums DEF Init
  <2>5. QED
    BY <2>1, <2>2, <2>3, <2>4 DEF BookInv, Running
<1>2. /\ TypeOK /\ TypeOK' /\ SerialInv /\ UndisturbedInv(cap) /\ [Next]_vars
      => UndisturbedInv(cap)'
  <2> SUFFICES ASSUME TypeOK, TypeOK', SerialInv, UndisturbedInv(cap), [Next]_vars,
                      Undisturbed'
               PROVE  BookInv(cap)'
    BY DEF UndisturbedInv
  <2>1. setting' = setting
    BY DEF Next, vars
  <2>2. /\ Undisturbed /\ BookInv(cap) /\ Alone /\ \A c \in Calls : PlaceInv(c)
        /\ ~Overlap /\ Faults = {} /\ Driven' = Driven /\ Asked' = Asked /\ Live' = Live
    BY <2>1
       DEF UndisturbedInv, Undisturbed, SerialInv, Overlap, Faults, Asked, Requests,
           Executable, Driven, Live
  <2>3. ASSUME NEW c \in Calls, Starts(c)
        PROVE  BookInv(cap)'
    <3>1. PICK m \in Asked, d \in Decisions \cup {NoDecision},
               l \in {"propose", "find", "check"} :
            /\ pc' = [pc EXCEPT ![c] = l]
            /\ job' = [job EXCEPT ![c] = [move |-> m, decision |-> d]]
      BY <2>3, StartShape
    <3>2. /\ AtRest /\ pc[c] = "idle"
          /\ UNCHANGED <<held, stored, venue, late, balance>>
      BY <2>2, <2>3, StartShape DEF MayStart, AtRest
    <3>3. /\ pc'[c] = l /\ job'[c].move = m
          /\ \A x \in Calls \ {c} : pc'[x] = pc[x]
      BY <3>1 DEF TypeOK
    <3>4. /\ \A v \in Driven : Booked(v)' = Booked(v) /\ venue'[v] = Booked(v)
          /\ \A k \in Symbols :
               InVenues(k)' = InVenues(k) /\ (Live => balance'[k] >= InVenues(k))
      BY <2>2, <3>2 DEF BookInv, Booked, InVenues
    <3>5. Lead(c)' = 0 /\ \A v \in Driven : Ahead(v, c)' = 0
      BY <3>3 DEF Lead, Ahead
    <3>6. Level(c)' /\ Fresh(c)'
      <4>1. /\ \A v \in Driven : Booked(v) \in Nat
            /\ \A k \in Symbols : InVenues(k) \in Nat
        BY BookedIsNat, InVenuesIsNat DEF TypeOK, Driven
      <4>2. QED
        BY <2>2, <3>3, <3>4, <3>5, <4>1 DEF Level, Fresh
    <3>7. Recorded' = Recorded
      BY <3>2, <3>3 DEF Recorded
    <3>8. QED
      BY <2>2, <3>2, <3>3, <3>6, <3>7 DEF BookInv, AtRest, Running
  <2>4. ASSUME NEW c \in Calls, CallStep(c)
        PROVE  BookInv(cap)'
    BY <2>1, <2>2, <2>4, BookStep
  <2>5. CASE Crash
    BY <2>2, <2>5 DEF Crash
  <2>6. CASE UNCHANGED vars \/ \E d \in Executable : Propose(d)
    <3>1. UNCHANGED <<held, stored, venue, balance, pc, job, insert, late>>
      BY <2>6 DEF vars, dbVars, sentVars, treasuryVars, Propose
    <3>2. /\ Recorded' = Recorded /\ AtRest' = AtRest
          /\ \A v \in Driven : Booked(v)' = Booked(v)
          /\ \A k \in Symbols : InVenues(k)' = InVenues(k)
      BY <3>1 DEF Recorded, AtRest, Booked, InVenues
    <3>3. ASSUME NEW c \in Calls
          PROVE  /\ Lead(c)' = Lead(c) /\ \A v \in Driven : Ahead(v, c)' = Ahead(v, c)
                 /\ Fresh(c)' = Fresh(c) /\ Symbol(c)' = Symbol(c)
      BY <3>1
         DEF Lead, Ahead, VenueMove, Amount, Fresh, FromBucket, ToBucket, Symbol
    <3>4. ASSUME NEW c \in Calls, Level(c)
          PROVE  Level(c)'
      BY <2>2, <3>1, <3>2, <3>3, <3>4 DEF Level
    <3>5. QED
      BY <2>2, <3>1, <3>2, <3>3, <3>4 DEF BookInv
  <2>7. ASSUME NEW c \in Calls, LandsLate(c)
        PROVE  FALSE
    BY <2>2, <2>7 DEF LandsLate, BookInv
  <2>8. QED
    BY <2>3, <2>4, <2>5, <2>6, <2>7 DEF Next, Starts
<1>3. UndisturbedInv(cap) => BooksMatchVenues
  BY DEF UndisturbedInv, BookInv, BooksMatchVenues
<1>4. QED
  BY <1>1, <1>2, <1>3, SerialInvHolds, PTL DEF Spec


-----------------------------------------------------------------------------
(* The contract's promise through the service.  What is proved of the      *)
(* contract on its own is reused: a step of rebalance records one flow or  *)
(* leaves the contract alone, and starts it from its invariant.            *)

ContractProofs == INSTANCE TreasuryContract_proofs WITH
  Addresses <- {Platform}, Keys <- Symbols, Directions <- {"deposit", "withdraw"}

\* The service calls the contract through record_flow only, signed by the platform.
LEMMA StepCallsContract ==
  ASSUME TypeOK, [Next]_vars
  PROVE  [ContractProofs!Next]_treasuryVars
<1> USE DEF treasuryVars
<1>1. ASSUME NEW c \in Calls,
             Flow(c)
      PROVE  ContractProofs!Next
  <2>1. /\ Symbol(c) \in Symbols /\ Amount(c) \in Amounts
        /\ Direction(c) \in {"deposit", "withdraw"}
    BY JobFacts DEF TypeOK, Direction
  <2>2. ContractProofs!RecordFlow(Platform, Symbol(c), Direction(c), Amount(c))
    BY <1>1 DEF Flow, Contract!RecordFlow, Contract!ValidFlow, Contract!Covered,
                Contract!NextBalance, ContractProofs!RecordFlow,
                ContractProofs!ValidFlow, ContractProofs!Covered,
                ContractProofs!NextBalance
  <2>3. QED
    BY <2>1, <2>2 DEF ContractProofs!Next
<1>2. ASSUME NEW c \in Calls, CallStep(c), UNCHANGED setting
      PROVE  Flow(c) \/ UNCHANGED treasuryVars
  BY <1>2 DEF CallStep, InsertProposal, FindDecision, Check, AskDefindex, DefindexFails, AskBlend,
              BlendFails, AskVenue, VenueFails, Record, RecordRefused, ReadFrom,
              ReadTo, ReadPosition, WriteFrom, WriteTo, WritePosition,
              WriteRefused, Decide, RecordFault, DbFault
<1>3. ASSUME NEW c \in Calls, Starts(c)
      PROVE  UNCHANGED treasuryVars
  BY <1>3 DEF Starts, Receive, ReceiveProposal, ReceiveDecision
<1>4. ASSUME NEW c \in Calls, LandsLate(c)
      PROVE  Flow(c) \/ UNCHANGED treasuryVars
  BY <1>4 DEF LandsLate
<1>5. CASE Crash \/ UNCHANGED vars \/ \E d \in Executable : Propose(d)
  BY <1>5 DEF Crash, Propose, vars
<1>6. QED
  BY <1>1, <1>2, <1>3, <1>4, <1>5 DEF Next, Starts

LEMMA ContractTypesAre == Contract!TypeOK <=> ContractProofs!TypeOK
BY DEF Contract!TypeOK, Contract!FlowEvent, ContractProofs!TypeOK,
       ContractProofs!FlowEvent

\* Replaying the contract's events gives each bucket its balance, however calls
\* overlap, whichever confirmations are lost and whatever else fails.
THEOREM ContractReplaysHolds == Spec => []Contract!BalancesMatchFlows
<1>1. ContractProofs!TreasuryAssumption
  BY RebalanceAssumption DEF ContractProofs!TreasuryAssumption
<1>2. Init => ContractProofs!ReplayInv
  <2> SUFFICES ASSUME Init, NEW k \in Symbols, NEW g, ContractProofs!Replays(k, g)
               PROVE  balance[k] = g[Len(flows)]
    BY DEF ContractProofs!ReplayInv
  <2>1. balance[k] = 0 /\ Len(flows) = 0
    BY DEF Init
  <2>2. g[0] = 0
    BY DEF ContractProofs!Replays
  <2>3. QED
    BY <2>1, <2>2
<1>3. TypeOK /\ ContractProofs!ReplayInv /\ [Next]_vars => ContractProofs!ReplayInv'
  <2>1. ContractProofs!TypeOK /\ ContractProofs!ReplayInv
          /\ [ContractProofs!Next]_treasuryVars => ContractProofs!ReplayInv'
    BY <1>1, ContractProofs!StepKeepsReplay
       DEF treasuryVars, ContractProofs!treasuryVars
  <2>2. TypeOK => ContractProofs!TypeOK
    BY ContractTypesAre DEF TypeOK
  <2>3. QED
    BY <2>1, <2>2, StepCallsContract
<1>4. ContractProofs!ReplayInv => Contract!BalancesMatchFlows
  <2>1. ContractProofs!ReplayInv => ContractProofs!BalancesMatchFlows
    BY <1>1, ContractProofs!ReplayGivesBalances
  <2>2. ContractProofs!BalancesMatchFlows <=> Contract!BalancesMatchFlows
    BY DEF ContractProofs!BalancesMatchFlows, Contract!BalancesMatchFlows,
           ContractProofs!Effect, Contract!Effect
  <2>3. QED
    BY <2>1, <2>2
<1>5. QED
  BY <1>2, <1>3, <1>4, TypesHold, PTL DEF Spec
=============================================================================
