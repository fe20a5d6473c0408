----------------------- MODULE TreasuryContract_proofs -----------------------
(***************************************************************************)
(* Proofs about TreasuryContract, for every set of accounts, buckets and   *)
(* argument values and every i128::MAX.  `Spec` there is the contract on   *)
(* its own: any account may sign any call at any time.                     *)
(***************************************************************************)
EXTENDS TreasuryContract, FiniteSetTheorems, WellFoundedInduction, TLAPS

\* A flow that is covered leaves its bucket between 0 and i128::MAX.
LEMMA CoveredStaysInRange ==
  ASSUME NEW k \in Keys, NEW d, NEW n \in Amounts,
         balance \in [Keys -> 0 .. MaxAmount],
         ValidFlow(d, n), Covered(k, d, n)
  PROVE  NextBalance(k, d, n) \in 0 .. MaxAmount
BY TreasuryAssumption DEF ValidFlow, Covered, NextBalance

\* Appending an entry keeps the old ones in place and puts it last.
LEMMA AppendedLast ==
  ASSUME NEW S, NEW s \in Seq(S), NEW e \in S
  PROVE  /\ Append(s, e) \in Seq(S)
         /\ Len(s) \in Nat
         /\ Len(Append(s, e)) = Len(s) + 1
         /\ \A i \in 1 .. Len(s) : Append(s, e)[i] = s[i]
         /\ Append(s, e)[Len(s) + 1] = e
OBVIOUS

\* Every entry point keeps the types, from any state that has them: what calls
\* the contract may start from a state of its own.
LEMMA StepKeepsTypes == TypeOK /\ [Next]_treasuryVars => TypeOK'
<1> SUFFICES ASSUME TypeOK, [Next]_treasuryVars
             PROVE  TypeOK'
  OBVIOUS
<1>1. ASSUME NEW a \in Addresses, Initialize(a)
      PROVE  TypeOK'
  BY <1>1 DEF Initialize, TypeOK
<1>2. ASSUME NEW signer \in Addresses, NEW k \in Keys, NEW d \in Directions,
             NEW n \in Amounts, RecordFlow(signer, k, d, n)
      PROVE  TypeOK'
  <2>1. NextBalance(k, d, n) \in 0 .. MaxAmount
    BY <1>2, CoveredStaysInRange DEF RecordFlow, TypeOK
  <2>2. [key |-> k, direction |-> d, amount |-> n] \in FlowEvent
    BY <1>2, TreasuryAssumption DEF RecordFlow, ValidFlow, FlowEvent
  <2>3. QED
    BY <1>2, <2>1, <2>2, AppendedLast DEF RecordFlow, TypeOK
<1>3. CASE UNCHANGED treasuryVars
  BY <1>3 DEF treasuryVars, TypeOK
<1>4. QED
  BY <1>1, <1>2, <1>3 DEF Next

\* No bucket is ever negative and none overflows.
THEOREM TypesHold == Spec => []TypeOK
<1>1. Init => TypeOK
  BY TreasuryAssumption DEF Init, TypeOK
<1>2. QED
  BY <1>1, StepKeepsTypes, PTL DEF Spec

\* Every movement of a bucket is one event, and every event one movement.
THEOREM EveryMoveIsLoggedHolds == Spec => EveryMoveIsLogged
<1> DEFINE Logged ==
      balance' # balance \/ flows' # flows =>
        LET e == flows'[Len(flows')] IN
        /\ Len(flows') = Len(flows) + 1
        /\ \A i \in 1 .. Len(flows) : flows'[i] = flows[i]
        /\ balance' = [balance EXCEPT ![e.key] = @ + Effect(e)]
<1>1. ASSUME TypeOK, [Next]_treasuryVars
      PROVE  Logged
  <2>1. ASSUME NEW a \in Addresses, Initialize(a)
        PROVE  Logged
    BY <2>1 DEF Initialize
  <2>2. ASSUME NEW signer \in Addresses, NEW k \in Keys, NEW d \in Directions,
               NEW n \in Amounts, RecordFlow(signer, k, d, n)
        PROVE  Logged
    <3> DEFINE f == [key |-> k, direction |-> d, amount |-> n]
    <3>1. f \in FlowEvent
      BY <2>2, TreasuryAssumption DEF RecordFlow, ValidFlow, FlowEvent
    <3>2. flows \in Seq(FlowEvent) /\ flows' = Append(flows, f)
      BY <1>1, <2>2 DEF TypeOK, RecordFlow
    <3>3. balance[k] + Effect(f) = NextBalance(k, d, n)
      BY <1>1, <2>2, TreasuryAssumption
         DEF TypeOK, RecordFlow, ValidFlow, Effect, NextBalance
    <3>4. balance' = [balance EXCEPT ![f.key] = @ + Effect(f)]
      BY <2>2, <3>3 DEF RecordFlow
    <3> HIDE DEF f
    <3>5. flows'[Len(flows')] = f /\ Len(flows') = Len(flows) + 1
      BY <3>1, <3>2, AppendedLast
    <3>6. \A i \in 1 .. Len(flows) : flows'[i] = flows[i]
      BY <3>1, <3>2, AppendedLast
    <3>7. QED
      BY <3>4, <3>5, <3>6
  <2>3. CASE UNCHANGED treasuryVars
    BY <2>3 DEF treasuryVars
  <2>4. QED
    BY <1>1, <2>1, <2>2, <2>3 DEF Next
<1>2. QED
  BY <1>1, TypesHold, PTL DEF Spec, EveryMoveIsLogged

\* The admin who deployed the contract stays its admin.
THEOREM AdminIsFixed == Spec => AdminNeverReplaced
<1>1. [Next]_treasuryVars => (admin # NoAdmin => admin' = admin)
  BY DEF Next, Initialize, Uninitialized, RecordFlow, treasuryVars
<1>2. QED
  BY <1>1, PTL DEF Spec, AdminNeverReplaced


-----------------------------------------------------------------------------
(* Replaying the log.  The net flow of a bucket is a function defined by   *)
(* recursion over the log, so that it exists, and what it says of a longer *)
(* log, is proved by induction over the length: a set of naturals that has *)
(* 0 and, with every number, the next one has them all.                    *)

\* Every non-empty set of naturals has a least element.
LEMMA LeastNatural ==
  ASSUME NEW T \in SUBSET Nat, T # {}
  PROVE  \E x \in T : \A y \in T : x <= y
<1> DEFINE Below(n) == {m \in T : m <= n}
           B == {Below(n) : n \in T}
<1>1. \A n \in T : Below(n) \in FiniteSubsetsOf(T)
  <2> SUFFICES ASSUME NEW n \in T
               PROVE  Below(n) \in FiniteSubsetsOf(T)
    OBVIOUS
  <2>1. Below(n) \in SUBSET Nat /\ \A m \in Below(n) : m <= n
    OBVIOUS
  <2>2. IsFiniteSet(Below(n))
    BY <2>1, FS_BoundedSetOfNaturals
  <2>3. QED
    BY <2>2 DEF FiniteSubsetsOf
<1>2. B \subseteq FiniteSubsetsOf(T) /\ B # {}
  BY <1>1
<1>3. PICK t \in B : \A y \in B : ~(<<y, t>> \in StrictSubsetOrdering(T))
  <2> HIDE DEF B
  <2> QED
    BY <1>2, FS_StrictSubsetOrderingWellFounded, WFMin
<1>4. PICK n \in T : t = Below(n)
  BY <1>3
<1>5. ASSUME NEW y \in T, ~(n <= y)
      PROVE  FALSE
  <2>1. Below(y) \subseteq Below(n)
    <3>1. \A m \in T : m <= y => m <= n
      BY <1>5
    <3>2. QED
      BY <3>1
  <2>2. n \in Below(n) /\ n \notin Below(y)
    BY <1>5
  <2>3. Below(y) \in B /\ Below(y) \subseteq T /\ Below(n) \subseteq T
    OBVIOUS
  <2> HIDE DEF Below, B
  <2>4. <<Below(y), t>> \in StrictSubsetOrdering(T)
    BY <1>4, <2>1, <2>2, <2>3 DEF StrictSubsetOrdering
  <2>5. QED
    BY <1>3, <2>3, <2>4
<1>6. QED
  BY <1>5

LEMMA Induction ==
  ASSUME NEW T \in SUBSET Nat, 0 \in T, \A n \in T : n + 1 \in T
  PROVE  T = Nat
<1> SUFFICES ASSUME Nat \ T # {}
             PROVE  FALSE
  OBVIOUS
<1>1. PICK x \in Nat \ T : \A y \in Nat \ T : x <= y
  BY LeastNatural
<1>2. x # 0 /\ x - 1 \in Nat /\ ~(x <= x - 1)
  OBVIOUS
<1>3. x - 1 \in T
  BY <1>1, <1>2
<1>4. (x - 1) + 1 \in T
  BY <1>3
<1>5. QED
  BY <1>1, <1>4

\* g sums up D: nothing at 0, and D[n] more at n than at n - 1.
Sums(D, g) == g = [n \in Nat |-> IF n = 0 THEN 0 ELSE g[n - 1] + D[n]]

\* h does so as far as n.
SumsTo(n, D, h) == h[0] = 0 /\ \A m \in 1 .. n : h[m] = h[m - 1] + D[m]

\* Two sums of functions that agree as far as n agree as far as n.
LEMMA SumsAgree ==
  ASSUME NEW n \in Nat, NEW D, NEW E, NEW g, NEW h, SumsTo(n, D, g), SumsTo(n, E, h),
         \A m \in 1 .. n : D[m] = E[m]
  PROVE  \A m \in 0 .. n : g[m] = h[m]
<1> DEFINE T == {m \in Nat : m <= n => g[m] = h[m]}
<1>1. 0 \in T
  BY DEF SumsTo
<1>2. ASSUME NEW m \in T
      PROVE  m + 1 \in T
  <2> SUFFICES ASSUME m + 1 <= n
               PROVE  g[m + 1] = h[m + 1]
    OBVIOUS
  <2>1. m \in Nat /\ m + 1 \in 1 .. n /\ (m + 1) - 1 = m /\ g[m] = h[m]
    OBVIOUS
  <2>2. g[m + 1] = g[(m + 1) - 1] + D[m + 1] /\ h[m + 1] = h[(m + 1) - 1] + E[m + 1]
    BY <2>1 DEF SumsTo
  <2>3. QED
    BY <2>1, <2>2
<1>3. T = Nat
  <2> HIDE DEF T
  <2>1. T \in SUBSET Nat
    BY DEF T
  <2>2. QED
    BY <1>1, <1>2, <2>1, Induction
<1>4. QED
  BY <1>3

\* Every function has a sum.
LEMMA SumExists ==
  ASSUME NEW D
  PROVE  \E g : Sums(D, g)
<1> DEFINE T == {n \in Nat : \E h : SumsTo(n, D, h)}
           S(n) == CHOOSE h : SumsTo(n, D, h)
           g == [n \in Nat |-> S(n)[n]]
<1>1. 0 \in T
  <2>1. SumsTo(0, D, [n \in Nat |-> 0])
    BY DEF SumsTo
  <2>2. QED
    BY <2>1
<1>2. ASSUME NEW n \in T
      PROVE  n + 1 \in T
  <2>1. PICK h : SumsTo(n, D, h)
    OBVIOUS
  <2> DEFINE k == [m \in Nat |-> IF m = n + 1 THEN h[n] + D[n + 1] ELSE h[m]]
  <2>2. k[0] = 0
    BY <2>1 DEF SumsTo
  <2>3. ASSUME NEW m \in 1 .. (n + 1)
        PROVE  k[m] = k[m - 1] + D[m]
    <3>1. CASE m = n + 1
      <4>1. k[m] = h[n] + D[m] /\ k[m - 1] = h[n]
        BY <3>1
      <4>2. QED
        BY <4>1
    <3>2. CASE m # n + 1
      <4>1. m \in 1 .. n /\ k[m] = h[m] /\ k[m - 1] = h[m - 1]
        BY <3>2
      <4>2. QED
        BY <2>1, <4>1 DEF SumsTo
    <3>3. QED
      BY <3>1, <3>2
  <2>4. SumsTo(n + 1, D, k)
    <3> HIDE DEF k
    <3> QED
      BY <2>2, <2>3 DEF SumsTo
  <2>5. QED
    BY <2>4
<1>3. T = Nat
  <2> HIDE DEF T
  <2>1. T \in SUBSET Nat
    BY DEF T
  <2>2. QED
    BY <1>1, <1>2, <2>1, Induction
<1>4. \A n \in Nat : SumsTo(n, D, S(n))
  BY <1>3
<1> HIDE DEF S, T
<1>5. g[0] = 0
  BY <1>4 DEF SumsTo
<1>6. ASSUME NEW n \in Nat, n # 0
      PROVE  g[n] = g[n - 1] + D[n]
  <2>1. n - 1 \in Nat /\ n \in 1 .. n
    BY <1>6
  <2>2. S(n)[n] = S(n)[n - 1] + D[n]
    BY <1>4, <2>1 DEF SumsTo
  <2>3. SumsTo(n - 1, D, S(n)) /\ SumsTo(n - 1, D, S(n - 1))
    BY <1>4, <2>1 DEF SumsTo
  <2>4. S(n)[n - 1] = S(n - 1)[n - 1]
    BY <2>1, <2>3, SumsAgree
  <2>5. QED
    BY <2>1, <2>2, <2>4
<1>7. g = [n \in Nat |-> IF n = 0 THEN 0 ELSE g[n - 1] + D[n]]
  <2>1. \A n \in Nat : g[n] = IF n = 0 THEN 0 ELSE g[n - 1] + D[n]
    BY <1>5, <1>6
  <2>2. g = [n \in Nat |-> g[n]]
    OBVIOUS
  <2> HIDE DEF g
  <2>3. QED
    BY <2>1, <2>2
<1>8. QED
  BY <1>7 DEF Sums


\* What entry n of the log adds to bucket k, and the net flow of k that
\* BalancesMatchFlows replays.
Delta(k) ==
  [n \in Nat |-> IF flows[n].key = k THEN Effect(flows[n]) ELSE 0]
Replays(k, g) ==
  g = [n \in Nat |->
         IF n = 0 THEN 0
         ELSE g[n - 1] + IF flows[n].key = k THEN Effect(flows[n]) ELSE 0]

LEMMA ReplaySums ==
  ASSUME NEW k, NEW g
  PROVE  /\ Sums(Delta(k), g) <=> Replays(k, g)
         /\ Sums(Delta(k), g) => \A n \in Nat : SumsTo(n, Delta(k), g)
<1> DEFINE F == [n \in Nat |->
                   IF n = 0 THEN 0
                   ELSE g[n - 1] + IF flows[n].key = k THEN Effect(flows[n]) ELSE 0]
           G == [n \in Nat |-> IF n = 0 THEN 0 ELSE g[n - 1] + Delta(k)[n]]
<1>1. F = G
  BY DEF Delta
<1>2. Sums(Delta(k), g) => \A n \in Nat : SumsTo(n, Delta(k), g)
  BY DEF Sums, SumsTo
<1>3. QED
  BY <1>1, <1>2 DEF Sums, Replays

\* Every replay of the log gives each bucket its balance.
ReplayInv ==
  \A k \in Keys : \A g : Replays(k, g) => balance[k] = g[Len(flows)]

LEMMA StepKeepsReplay ==
  ASSUME TypeOK, ReplayInv, [Next]_treasuryVars
  PROVE  ReplayInv'
<1>1. ASSUME NEW signer \in Addresses, NEW k \in Keys, NEW d \in Directions,
             NEW n \in Amounts, RecordFlow(signer, k, d, n)
      PROVE  ReplayInv'
  <2> DEFINE e == [key |-> k, direction |-> d, amount |-> n]
  <2>1. e \in FlowEvent /\ e.key = k /\ Effect(e) \in Int
    BY <1>1, TreasuryAssumption DEF RecordFlow, ValidFlow, FlowEvent, Effect
  <2>2. flows \in Seq(FlowEvent) /\ flows' = Append(flows, e)
    BY <1>1 DEF TypeOK, RecordFlow
  <2>3. balance' = [balance EXCEPT ![k] = @ + Effect(e)]
    BY <1>1, TreasuryAssumption
       DEF TypeOK, RecordFlow, ValidFlow, Effect, NextBalance
  <2> HIDE DEF e
  <2>4. /\ Len(flows) \in Nat /\ Len(flows') = Len(flows) + 1
        /\ \A i \in 1 .. Len(flows) : flows'[i] = flows[i]
        /\ flows'[Len(flows) + 1] = e
    BY <2>1, <2>2, AppendedLast
  <2> SUFFICES ASSUME NEW j \in Keys, NEW g, Replays(j, g)'
               PROVE  balance'[j] = g[Len(flows')]
    BY DEF ReplayInv
  <2>5. PICK h : Sums(Delta(j), h)
    BY SumExists
  <2>6. balance[j] = h[Len(flows)]
    BY <2>5, ReplaySums DEF ReplayInv
  <2>7. g[Len(flows)] = h[Len(flows)]
    <3>1. SumsTo(Len(flows), Delta(j), h)
      BY <2>4, <2>5, ReplaySums
    <3>2. SumsTo(Len(flows), Delta(j)', g)
      BY <2>4 DEF Replays, Delta, SumsTo
    <3>3. \A m \in 1 .. Len(flows) : Delta(j)'[m] = Delta(j)[m]
      BY <2>4 DEF Delta
    <3>4. QED
      BY <2>4, <3>1, <3>2, <3>3, SumsAgree
  <2>8. g[Len(flows) + 1]
          = g[Len(flows)] + IF e.key = j THEN Effect(e) ELSE 0
    BY <2>4 DEF Replays
  <2>9. balance[j] \in Int /\ balance \in [Keys -> Int]
    BY TreasuryAssumption DEF TypeOK
  <2>10. QED
    BY <2>1, <2>3, <2>4, <2>6, <2>7, <2>8, <2>9
<1>2. CASE UNCHANGED <<balance, flows>>
  BY <1>2 DEF ReplayInv, Replays
<1>3. QED
  BY <1>1, <1>2 DEF Next, Initialize, treasuryVars

LEMMA ReplayGivesBalances == ReplayInv => BalancesMatchFlows
<1> SUFFICES ASSUME ReplayInv, NEW k \in Keys
             PROVE  LET net[n \in Nat] ==
                          IF n = 0 THEN 0
                          ELSE net[n - 1] + IF flows[n].key = k
                                            THEN Effect(flows[n]) ELSE 0
                    IN  balance[k] = net[Len(flows)]
  BY DEF BalancesMatchFlows
<1> DEFINE net[n \in Nat] ==
             IF n = 0 THEN 0
             ELSE net[n - 1] + IF flows[n].key = k THEN Effect(flows[n]) ELSE 0
<1>1. \E g : g = [n \in Nat |->
                    IF n = 0 THEN 0
                    ELSE g[n - 1] + IF flows[n].key = k
                                    THEN Effect(flows[n]) ELSE 0]
  BY SumExists, ReplaySums DEF Replays
<1>2. Replays(k, net)
  BY <1>1 DEF Replays
<1> HIDE DEF net
<1>3. balance[k] = net[Len(flows)]
  BY <1>2 DEF ReplayInv
<1>4. QED
  BY <1>3 DEF net

\* Storage and the event log say the same of every bucket, however long the log
\* has grown and whatever was refused in between.
THEOREM BalancesMatchFlowsHolds == Spec => []BalancesMatchFlows
<1>1. Init => ReplayInv
  <2> SUFFICES ASSUME Init, NEW k \in Keys, NEW g, Replays(k, g)
               PROVE  balance[k] = g[Len(flows)]
    BY DEF ReplayInv
  <2>1. balance[k] = 0 /\ Len(flows) = 0
    BY DEF Init
  <2>2. g[0] = 0
    BY DEF Replays
  <2>3. QED
    BY <2>1, <2>2
<1>2. QED
  BY <1>1, StepKeepsReplay, ReplayGivesBalances, TypesHold, PTL DEF Spec
=============================================================================
