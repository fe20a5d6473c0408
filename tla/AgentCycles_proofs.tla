-------------------------- MODULE AgentCycles_proofs --------------------------
(* Theorems about AgentCycles: its types, what a decision says of the chain, *)
(* and the band of a position, for any cycles, venues' funds and faults.     *)
EXTENDS AgentCycles, FiniteSetTheorems, WellFoundedInduction, TLAPS

USE CyclesAssumption, ConfigAssumption

Planning == {"bind", "account", "prepare", "send"}

\* A deposit that was decided and may still land.
Bound(c, v) ==
  venue[c] = v /\ dir[c] = "deposit" /\ (pc[c] \in Planning \/ tx[c] = "pending")

Flying(v) == {c \in deploy.cycles : Bound(c, v)}

\* What a cycle has done by the await it is at; who is not at work does nothing.
PlaceInv(c) ==
  /\ c \notin deploy.cycles => tx[c] = "none" /\ pc[c] = "idle"
  /\ pc[c] \in {"gate", "read"} \cup Planning => tx[c] = "none"
  /\ pc[c] = "insert" => tx[c] = "landed"
  /\ outcome[c] = "recorded" => tx[c] = "landed" /\ pc[c] = "idle"
  /\ deploy.faults \cap {"lag", "db", "crash"} = {} =>
       /\ tx[c] = "pending" => pc[c] = "wait"
       /\ tx[c] = "landed" => pc[c] \in {"wait", "insert"} \/ outcome[c] = "recorded"

\* Every deposit in flight was decided with room for it and for all the others.
BandInv ==
  "blind" \notin deploy.faults =>
    \A v \in Venues :
      position[v] + Cardinality(Flying(v))
        <= Ceiling + Cardinality(deploy.cycles) - 1 + gain[v]

Places == \A c \in Cycles : PlaceInv(c)

IInv == TypeOK /\ Places /\ BandInv

-----------------------------------------------------------------------------
(* Types.                                                                    *)

\* The handlers of the configuration keep its types (treasuryService.ts, lines
\* 110-128 and 207-223).
LEMMA ConfigTypes ==
  ASSUME ConfigTypeOK, [ConfigNext]_configVars
  PROVE  ConfigTypeOK'
<1>0. \A e \in Edits : edit[e].rules \in RiskRules /\ edit[e].enabled \in BOOLEAN
  BY DEF ConfigTypeOK, Body
<1>c. CarriedRules \in RiskRules
  BY DEF ConfigTypeOK, Row, CarriedRules
<1>1. CASE UNCHANGED configVars
  BY <1>1 DEF ConfigTypeOK, configVars, editVars
<1>2. ASSUME NEW e \in Edits, Toggle(e) PROVE ConfigTypeOK'
  BY <1>2 DEF ConfigTypeOK, Toggle, Body, Editing
<1>3. ASSUME NEW e \in Edits, Save(e) PROVE ConfigTypeOK'
  BY <1>3 DEF ConfigTypeOK, Save, Body, Editing
<1>4. ASSUME NEW e \in Edits, ReadRow(e) PROVE ConfigTypeOK'
  BY <1>4, <1>c DEF ConfigTypeOK, ReadRow, Body, Editing
<1>5. ASSUME NEW e \in Edits, ReadId(e) PROVE ConfigTypeOK'
  BY <1>5 DEF ConfigTypeOK, ReadId, Editing
<1>6. ASSUME NEW e \in Edits, WriteConfig(e) PROVE ConfigTypeOK'
  BY <1>6, <1>0 DEF ConfigTypeOK, WriteConfig, Row, Editing
<1>7. ASSUME NEW e \in Edits, WriteConflict(e) PROVE ConfigTypeOK'
  BY <1>7 DEF ConfigTypeOK, WriteConflict, Editing
<1> QED
  BY <1>1, <1>2, <1>3, <1>4, <1>5, <1>6, <1>7 DEF ConfigNext, EditStep

\* Every step keeps the types.
LEMMA TypesKept ==
  ASSUME TypeOK, [Next]_vars
  PROVE  TypeOK'
<1> USE DEF TypeOK, InFlight, TxStatus, Outcomes
<1>cfg. ConfigTypeOK'
  BY ConfigTypes DEF Next, vars, Edit, Begin, CycleStep, Gate, ReadPosition, Bind,
     ReadAccount, Prepare, Send, SendRefused, Confirm, GiveUp, InsertDecision,
     Land, Drop, Crash, OtherJob, Ledger, Accrue, OtherMove, cycleVars
<1>1. CASE UNCHANGED vars
  BY <1>1, <1>cfg DEF vars, chainVars, cycleVars
<1>2. ASSUME NEW c \in Cycles, NEW v \in Venues, Begin(c, v) PROVE TypeOK'
  BY <1>2, <1>cfg DEF Begin, At, Goto, chainVars
<1>3. ASSUME NEW c \in Cycles, Gate(c) PROVE TypeOK'
  BY <1>3, <1>cfg DEF Gate, At, Goto, End, chainVars
<1>4. ASSUME NEW c \in Cycles, ReadPosition(c) PROVE TypeOK'
  BY <1>4, <1>cfg DEF ReadPosition, At, Goto, chainVars
<1>5. ASSUME NEW c \in Cycles, Bind(c) PROVE TypeOK'
  BY <1>5, <1>cfg DEF Bind, At, Goto, End, chainVars
<1>6. ASSUME NEW c \in Cycles, ReadAccount(c) PROVE TypeOK'
  BY <1>6, <1>cfg DEF ReadAccount, At, Goto, chainVars
<1>7. ASSUME NEW c \in Cycles, Prepare(c) PROVE TypeOK'
  BY <1>7, <1>cfg DEF Prepare, At, Goto, End, chainVars
<1>8. ASSUME NEW c \in Cycles, Send(c) PROVE TypeOK'
  BY <1>8, <1>cfg DEF Send, At, Goto, chainVars
<1>9. ASSUME NEW c \in Cycles, SendRefused(c) PROVE TypeOK'
  BY <1>9, <1>cfg DEF SendRefused, At, Goto, End, chainVars
<1>10. ASSUME NEW c \in Cycles, Confirm(c) PROVE TypeOK'
  BY <1>10, <1>cfg DEF Confirm, At, Goto, AfterConfirm, chainVars
<1>11. ASSUME NEW c \in Cycles, GiveUp(c) PROVE TypeOK'
  BY <1>11, <1>cfg DEF GiveUp, At, Goto, End, chainVars
<1>12. ASSUME NEW c \in Cycles, InsertDecision(c) PROVE TypeOK'
  BY <1>12, <1>cfg DEF InsertDecision, At, Goto, End, chainVars
<1>13. ASSUME NEW c \in Cycles, Land(c) PROVE TypeOK'
  <2>1. /\ position' \in [Venues -> Int] /\ gain' \in [Venues -> Nat]
        /\ outflow' \in [Window -> Nat]
    BY <1>13 DEF Land, Transfer, chainVars
  <2> QED
    BY <1>13, <2>1, <1>cfg DEF Land, Settled, AllStale
<1>14. ASSUME NEW c \in Cycles, Drop(c) PROVE TypeOK'
  BY <1>14, <1>cfg DEF Drop, Settled, chainVars
<1>15. CASE Crash
  BY <1>15, <1>cfg DEF Crash, chainVars
<1>16. CASE OtherJob
  BY <1>16, <1>cfg DEF OtherJob, AllStale, chainVars
<1>17. CASE Ledger
  <2>1. outflow' \in [Window -> Nat]
    <3>1. \A age \in Window : (IF age = 0 THEN 0 ELSE outflow[age - 1]) \in Nat
      BY DEF Window
    <3> QED
      BY <1>17, <3>1 DEF Ledger
  <2> QED
    BY <1>17, <2>1, <1>cfg DEF Ledger, cycleVars
<1>18. CASE Edit
  BY <1>18, <1>cfg DEF Edit, chainVars, cycleVars
<1>19. ASSUME NEW v \in Venues, Accrue(v) PROVE TypeOK'
  BY <1>19, <1>cfg DEF Accrue, cycleVars
<1>20. ASSUME NEW v \in Venues, NEW d \in {"deposit", "withdraw"}, OtherMove(v, d)
       PROVE  TypeOK'
  <2>1. /\ position' \in [Venues -> Int] /\ gain' \in [Venues -> Nat]
        /\ outflow' \in [Window -> Nat]
    BY <1>20 DEF OtherMove, Transfer
  <2> QED
    BY <1>20, <2>1, <1>cfg DEF OtherMove, AllStale
<1> QED
  BY <1>1, <1>2, <1>3, <1>4, <1>5, <1>6, <1>7, <1>8, <1>9, <1>10, <1>11, <1>12,
     <1>13, <1>14, <1>15, <1>16, <1>17, <1>18, <1>19, <1>20 DEF Next, CycleStep
-----------------------------------------------------------------------------
(* What a decision says.                                                     *)

\* Every step keeps, of each cycle, what it has done so far.
LEMMA PlacesKept ==
  ASSUME TypeOK, Places, [Next]_vars
  PROVE  Places'
<1> SUFFICES ASSUME NEW d \in Cycles PROVE PlaceInv(d)'
  BY DEF Places
<1>p. PlaceInv(d)
  BY DEF Places
<1> USE DEF PlaceInv, Planning, TypeOK, InFlight, TxStatus, Outcomes
<1>1. CASE UNCHANGED vars
  BY <1>1, <1>p DEF vars, chainVars, cycleVars
<1>2. ASSUME NEW c \in Cycles, NEW v \in Venues, Begin(c, v) PROVE PlaceInv(d)'
  BY <1>2, <1>p DEF Begin, At, Goto
<1>3. ASSUME NEW c \in Cycles, Gate(c) PROVE PlaceInv(d)'
  BY <1>3, <1>p DEF Gate, At, Goto, End
<1>4. ASSUME NEW c \in Cycles, ReadPosition(c) PROVE PlaceInv(d)'
  BY <1>4, <1>p DEF ReadPosition, At, Goto
<1>5. ASSUME NEW c \in Cycles, Bind(c) PROVE PlaceInv(d)'
  BY <1>5, <1>p DEF Bind, At, Goto, End
<1>6. ASSUME NEW c \in Cycles, ReadAccount(c) PROVE PlaceInv(d)'
  BY <1>6, <1>p DEF ReadAccount, At, Goto
<1>7. ASSUME NEW c \in Cycles, Prepare(c) PROVE PlaceInv(d)'
  BY <1>7, <1>p DEF Prepare, At, Goto, End
<1>8. ASSUME NEW c \in Cycles, Send(c) PROVE PlaceInv(d)'
  BY <1>8, <1>p DEF Send, At, Goto
<1>9. ASSUME NEW c \in Cycles, SendRefused(c) PROVE PlaceInv(d)'
  BY <1>9, <1>p DEF SendRefused, At, Goto, End
<1>10. ASSUME NEW c \in Cycles, Confirm(c) PROVE PlaceInv(d)'
  BY <1>10, <1>p DEF Confirm, Confirmed, At, Goto, AfterConfirm
<1>11. ASSUME NEW c \in Cycles, GiveUp(c) PROVE PlaceInv(d)'
  BY <1>11, <1>p DEF GiveUp, GivesUp, At, Goto, End
<1>12. ASSUME NEW c \in Cycles, InsertDecision(c) PROVE PlaceInv(d)'
  BY <1>12, <1>p DEF InsertDecision, At, Goto, End
<1>13. ASSUME NEW c \in Cycles, Land(c) PROVE PlaceInv(d)'
  BY <1>13, <1>p DEF Land, Settled
<1>14. ASSUME NEW c \in Cycles, Drop(c) PROVE PlaceInv(d)'
  BY <1>14, <1>p DEF Drop, Settled
<1>15. CASE Crash
  BY <1>15, <1>p DEF Crash
<1>16. CASE OtherJob
  BY <1>16, <1>p DEF OtherJob
<1>17. CASE Ledger
  BY <1>17, <1>p DEF Ledger, cycleVars
<1>18. CASE Edit
  BY <1>18, <1>p DEF Edit, cycleVars
<1>19. ASSUME NEW v \in Venues, Accrue(v) PROVE PlaceInv(d)'
  BY <1>19, <1>p DEF Accrue, cycleVars
<1>20. ASSUME NEW v \in Venues, NEW m \in {"deposit", "withdraw"}, OtherMove(v, m)
       PROVE  PlaceInv(d)'
  BY <1>20, <1>p DEF OtherMove
<1> QED
  BY <1>1, <1>2, <1>3, <1>4, <1>5, <1>6, <1>7, <1>8, <1>9, <1>10, <1>11, <1>12,
     <1>13, <1>14, <1>15, <1>16, <1>17, <1>18, <1>19, <1>20 DEF Next, CycleStep

-----------------------------------------------------------------------------
(* The band.                                                                 *)

\* The deposits in flight are finitely many, at most one of each cycle at work.
LEMMA FlyingFinite ==
  ASSUME TypeOK, NEW v \in Venues
  PROVE  /\ IsFiniteSet(deploy.cycles) /\ IsFiniteSet(Flying(v))
         /\ Cardinality(Flying(v)) \in Nat
         /\ Cardinality(deploy.cycles) \in Nat
         /\ Cardinality(Flying(v)) <= Cardinality(deploy.cycles)
<1>1. deploy.cycles \subseteq Cycles /\ Flying(v) \subseteq deploy.cycles
  BY DEF TypeOK, Deployment, Flying
<1>2. IsFiniteSet(deploy.cycles)
  BY <1>1, FS_Subset
<1> QED
  BY <1>1, <1>2, FS_Subset, FS_CardinalityType

\* A step after which no more is in flight, and a position is no larger but for what
\* it gains from elsewhere, keeps the band of a venue.
LEMMA BandStable ==
  ASSUME TypeOK, TypeOK', NEW v \in Venues, deploy' = deploy,
         position'[v] - gain'[v] <= position[v] - gain[v], Flying(v)' \subseteq Flying(v),
         position[v] + Cardinality(Flying(v))
           <= Ceiling + Cardinality(deploy.cycles) - 1 + gain[v]
  PROVE  position'[v] + Cardinality(Flying(v)')
           <= Ceiling + Cardinality(deploy.cycles) - 1 + gain'[v]
<1>1. Cardinality(Flying(v)') <= Cardinality(Flying(v)) /\ Cardinality(Flying(v)') \in Nat
  BY FlyingFinite, FS_Subset, FS_CardinalityType
<1>2. /\ position[v] \in Int /\ position'[v] \in Int
      /\ gain[v] \in Nat /\ gain'[v] \in Nat
  BY DEF TypeOK
<1> QED
  BY <1>1, <1>2, FlyingFinite

\* A step that leaves positions alone, but for gains from elsewhere, and puts no
\* deposit in flight keeps the band.
LEMMA BandUntouched ==
  ASSUME TypeOK, TypeOK', BandInv, deploy' = deploy,
         \A v \in Venues : position'[v] - gain'[v] <= position[v] - gain[v],
         \A v \in Venues, d \in Cycles : Bound(d, v)' => Bound(d, v)
  PROVE  BandInv'
<1> SUFFICES ASSUME "blind" \notin deploy.faults, NEW v \in Venues
             PROVE  position'[v] + Cardinality(Flying(v)')
                      <= Ceiling + Cardinality(deploy.cycles) - 1 + gain'[v]
  BY DEF BandInv
<1>1. Flying(v)' \subseteq Flying(v)
  BY DEF Flying, TypeOK, Deployment
<1> QED
  BY <1>1, BandStable DEF BandInv

\* A deposit is decided only while the position, as read, has room below the
\* ceiling; what is in flight by then are at most all the cycles at work.
LEMMA BandAfterRead ==
  ASSUME TypeOK, TypeOK', Places, BandInv, NEW c \in Cycles, ReadPosition(c)
  PROVE  BandInv'
<1> SUFFICES ASSUME "blind" \notin deploy.faults, NEW v \in Venues
             PROVE  position'[v] + Cardinality(Flying(v)')
                      <= Ceiling + Cardinality(deploy.cycles) - 1 + gain'[v]
  BY DEF BandInv, ReadPosition
<1>1. deploy' = deploy /\ position' = position /\ venue' = venue /\ tx' = tx
  BY DEF ReadPosition
<1>0. gain' = IF position[venue[c]] < Ceiling THEN [gain EXCEPT ![venue[c]] = 0] ELSE gain
  BY DEF ReadPosition, PositionRead, HasRoom
<1>2. dir' = [dir EXCEPT ![c] = IF position[venue[c]] < Ceiling
                                THEN "deposit" ELSE "withdraw"]
  BY DEF ReadPosition, PositionRead, HasRoom
<1>3. pc' = [pc EXCEPT ![c] = "bind"]
  BY DEF ReadPosition, Goto
<1>4. CASE venue[c] = v /\ position[v] < Ceiling
  <2>1. Cardinality(Flying(v)') \in Nat
        /\ Cardinality(Flying(v)') <= Cardinality(deploy.cycles)
        /\ Cardinality(deploy.cycles) \in Nat
    <3>1. Flying(v)' \subseteq deploy.cycles
      BY <1>1 DEF Flying
    <3> QED
      BY <3>1, FlyingFinite, FS_Subset, FS_CardinalityType
  <2>2. position[v] \in Int /\ gain'[v] \in Nat
    BY DEF TypeOK
  <2> QED
    BY <1>1, <1>4, <2>1, <2>2
<1>5. CASE ~(venue[c] = v /\ position[v] < Ceiling)
  <2>1. ASSUME NEW d \in Cycles, Bound(d, v)' PROVE Bound(d, v)
    BY <1>1, <1>2, <1>3, <1>5, <2>1 DEF Bound, TypeOK
  <2>2. Flying(v)' \subseteq Flying(v)
    BY <1>1, <2>1 DEF Flying, TypeOK, Deployment
  <2>3. position'[v] - gain'[v] <= position[v] - gain[v]
    BY <1>0, <1>1, <1>5 DEF TypeOK
  <2> QED
    BY <1>1, <2>2, <2>3, BandStable DEF BandInv
<1> QED
  BY <1>4, <1>5

\* A deposit that lands leaves the flight as the position grows.
LEMMA BandAfterLanding ==
  ASSUME TypeOK, TypeOK', Places, BandInv, NEW c \in Cycles, Land(c)
  PROVE  BandInv'
<1> SUFFICES ASSUME "blind" \notin deploy.faults, NEW v \in Venues
             PROVE  position'[v] + Cardinality(Flying(v)')
                      <= Ceiling + Cardinality(deploy.cycles) - 1 + gain'[v]
  BY DEF BandInv, Land
<1>0. gain' = gain /\ gain[v] \in Nat
  BY DEF Land, chainVars, TypeOK
<1>1. /\ deploy' = deploy /\ pc' = pc /\ venue' = venue /\ dir' = dir
      /\ tx[c] = "pending" /\ tx' \in {[tx EXCEPT ![c] = "landed"], [tx EXCEPT ![c] = "failed"]}
      /\ \/ position' = position
         \/ position' = [position EXCEPT ![venue[c]] = IF dir[c] = "deposit" THEN @ + 1
                                                                           ELSE @ - 1]
  BY DEF Land, Transfer, Settled, chainVars
<1>2. pc[c] \notin Planning
  BY <1>1 DEF Places, PlaceInv
<1>3. \A d \in Cycles : Bound(d, v)' => Bound(d, v) /\ d # c
  BY <1>1, <1>2 DEF Bound, TypeOK
<1>4. Flying(v)' \subseteq Flying(v) \ {c}
  BY <1>1, <1>3 DEF Flying, TypeOK, Deployment
<1>5. position[v] \in Int /\ position'[v] \in Int
  BY DEF TypeOK
<1>6. CASE position'[v] <= position[v]
  BY <1>0, <1>1, <1>4, <1>5, <1>6, BandStable DEF BandInv
<1>7. CASE position'[v] > position[v]
  <2>1. position'[v] = position[v] + 1 /\ venue[c] = v /\ dir[c] = "deposit"
    BY <1>1, <1>5, <1>7 DEF TypeOK
  <2>2. CASE c \in deploy.cycles
    <3>1. c \in Flying(v)
      BY <1>1, <2>1, <2>2 DEF Flying, Bound
    <3>2. Cardinality(Flying(v) \ {c}) = Cardinality(Flying(v)) - 1
          /\ IsFiniteSet(Flying(v) \ {c})
      BY <3>1, FlyingFinite, FS_RemoveElement
    <3>3. Cardinality(Flying(v)') <= Cardinality(Flying(v)) - 1
          /\ Cardinality(Flying(v)') \in Nat
      BY <1>4, <3>2, FS_Subset, FS_CardinalityType
    <3> QED
      BY <1>0, <1>5, <2>1, <3>3, FlyingFinite DEF BandInv
  <2>3. CASE c \notin deploy.cycles
    BY <1>1, <2>3 DEF Places, PlaceInv
  <2> QED
    BY <2>2, <2>3
<1> QED
  BY <1>5, <1>6, <1>7

\* Every step keeps the band of every venue.
LEMMA BandKept ==
  ASSUME TypeOK, TypeOK', Places, BandInv, [Next]_vars
  PROVE  BandInv'
<1> DEFINE Quiet == /\ deploy' = deploy
                    /\ \A v \in Venues : position'[v] - gain'[v] <= position[v] - gain[v]
                    /\ \A v \in Venues, d \in Cycles : Bound(d, v)' => Bound(d, v)
<1>0. SUFFICES ASSUME ~(\E c \in Cycles : ReadPosition(c) \/ Land(c)) PROVE Quiet
  BY BandUntouched, BandAfterRead, BandAfterLanding
<1> USE DEF Bound, Planning, TypeOK
<1>1. CASE UNCHANGED vars
  BY <1>1 DEF vars, chainVars, cycleVars
<1>2. ASSUME NEW c \in Cycles, NEW v \in Venues, Begin(c, v) PROVE Quiet
  BY <1>2 DEF Begin, At, Goto, chainVars
<1>3. ASSUME NEW c \in Cycles, Gate(c) PROVE Quiet
  BY <1>3 DEF Gate, At, Goto, End, chainVars
<1>5. ASSUME NEW c \in Cycles, Bind(c) PROVE Quiet
  BY <1>5 DEF Bind, At, Goto, End, chainVars
<1>6. ASSUME NEW c \in Cycles, ReadAccount(c) PROVE Quiet
  BY <1>6 DEF ReadAccount, At, Goto, chainVars
<1>7. ASSUME NEW c \in Cycles, Prepare(c) PROVE Quiet
  BY <1>7 DEF Prepare, At, Goto, End, chainVars
<1>8. ASSUME NEW c \in Cycles, Send(c) PROVE Quiet
  BY <1>8 DEF Send, At, Goto, chainVars
<1>9. ASSUME NEW c \in Cycles, SendRefused(c) PROVE Quiet
  BY <1>9 DEF SendRefused, At, Goto, End, chainVars
<1>10. ASSUME NEW c \in Cycles, Confirm(c) PROVE Quiet
  BY <1>10 DEF Confirm, At, Goto, AfterConfirm, chainVars
<1>11. ASSUME NEW c \in Cycles, GiveUp(c) PROVE Quiet
  BY <1>11 DEF GiveUp, At, Goto, End, chainVars
<1>12. ASSUME NEW c \in Cycles, InsertDecision(c) PROVE Quiet
  BY <1>12 DEF InsertDecision, At, Goto, End, chainVars
<1>14. ASSUME NEW c \in Cycles, Drop(c) PROVE Quiet
  BY <1>14 DEF Drop, Settled, chainVars
<1>15. CASE Crash
  BY <1>15 DEF Crash, chainVars
<1>16. CASE OtherJob
  BY <1>16 DEF OtherJob, chainVars
<1>17. CASE Ledger
  BY <1>17 DEF Ledger, cycleVars
<1>18. CASE Edit
  BY <1>18 DEF Edit, chainVars, cycleVars
<1>19. ASSUME NEW v \in Venues, Accrue(v) PROVE Quiet
  BY <1>19 DEF Accrue, cycleVars
<1>20. ASSUME NEW v \in Venues, NEW d \in {"deposit", "withdraw"}, OtherMove(v, d)
       PROVE  Quiet
  BY <1>20 DEF OtherMove, Transfer
<1> QED
  BY <1>0, <1>1, <1>2, <1>3, <1>5, <1>6, <1>7, <1>8, <1>9, <1>10, <1>11, <1>12,
     <1>14, <1>15, <1>16, <1>17, <1>18, <1>19, <1>20 DEF Next, CycleStep

-----------------------------------------------------------------------------
(* The theorems.                                                             *)

\* The inductive invariant: types, what each cycle has done, and the room every
\* deposit in flight was decided with.
THEOREM InvariantHolds == Spec => []IInv
<1>1. Init => IInv
  <2> SUFFICES ASSUME Init PROVE IInv
    OBVIOUS
  <2>a. ConfigTypeOK
    <3>a. [kind |-> "save", rules |-> DefaultRules, enabled |-> TRUE] \in Body
      BY ConfigAssumption DEF Body
    <3>b. edit \in [Edits -> {[kind |-> "save", rules |-> DefaultRules, enabled |-> TRUE]}]
      BY DEF Init, ConfigInit
    <3>1. edit \in [Edits -> Body]
      BY <3>a, <3>b, Zenon
    <3>2. signed \in BOOLEAN
      <4>1. CASE config = NoRow
        BY <4>1 DEF Init, ConfigInit
      <4>2. CASE config # NoRow
        BY <4>2 DEF Init, ConfigInit, Row
      <4> QED
        BY <4>1, <4>2
    <3> QED
      BY <3>1, <3>2 DEF Init, ConfigInit, ConfigTypeOK
  <2>b. /\ position \in [Venues -> Int] /\ gain \in [Venues -> Nat]
        /\ outflow \in [Window -> Nat]
    BY DEF Init
  <2>1. TypeOK
    BY <2>a, <2>b DEF Init, TypeOK, InFlight, TxStatus, Outcomes, Venues
  <2>2. Places
    BY DEF Init, Places, PlaceInv, Planning
  <2>3. ASSUME NEW v \in Venues
        PROVE position[v] + Cardinality(Flying(v))
                <= Ceiling + Cardinality(deploy.cycles) - 1 + gain[v]
    <3>1. Flying(v) = {}
      BY <2>1 DEF Init, Flying, Bound, Planning, TypeOK, Deployment
    <3>2. Cardinality(Flying(v)) = 0
      BY <3>1, FS_EmptySet
    <3>3. deploy.cycles # {}
      BY <2>1 DEF TypeOK
    <3>4. Cardinality(deploy.cycles) \in Nat /\ Cardinality(deploy.cycles) # 0
      BY <2>1, <3>3, FlyingFinite, FS_EmptySet
    <3>5. position[v] \in 0 .. Ceiling /\ gain[v] = 0
      BY DEF Init
    <3> QED
      BY <3>2, <3>4, <3>5
  <2> QED
    BY <2>1, <2>2, <2>3 DEF IInv, BandInv
<1>2. IInv /\ [Next]_vars => IInv'
  BY TypesKept, PlacesKept, BandKept DEF IInv
<1> QED
  BY <1>1, <1>2, PTL DEF Spec

\* Type correctness for any number of cycles, edits and deployments.
THEOREM TypesHold == Spec => []TypeOK
<1>1. IInv => TypeOK
  BY DEF IInv
<1> QED
  BY <1>1, InvariantHolds, PTL

\* Cycles carry a position above its ceiling by no more than one step for each of
\* them that may be under way beside the last, and what it gained from elsewhere
\* since there was room, as long as positions can be read (agentService.ts, lines
\* 71-77).
THEOREM BandHoldsAlways == Spec => []BandHolds
<1>1. IInv => BandHolds
  <2> SUFFICES ASSUME IInv, "blind" \notin deploy.faults, NEW v \in Venues
               PROVE  position[v] <= Ceiling + Cardinality(deploy.cycles) - 1 + gain[v]
    BY DEF BandHolds
  <2>1. position[v] \in Int /\ gain[v] \in Nat
    BY DEF IInv, TypeOK
  <2> QED
    BY <2>1, FlyingFinite DEF IInv, BandInv
<1> QED
  BY <1>1, InvariantHolds, PTL

\* A decision recorded as executed names a transaction that landed, whatever failed
\* in between (agentService.ts, lines 85-88).
THEOREM ExecutedMeansLandedHolds == Spec => []ExecutedMeansLanded
<1>1. IInv => ExecutedMeansLanded
  BY DEF IInv, Places, PlaceInv, ExecutedMeansLanded
<1> QED
  BY <1>1, InvariantHolds, PTL

\* Without a lost answer, a database failure or a crash, a move that landed has its
\* decision once the call is over (agentService.ts, lines 91-115).
THEOREM MovesAreRecordedHolds == Spec => []MovesAreRecorded
<1>1. IInv => MovesAreRecorded
  BY DEF IInv, Places, PlaceInv, MovesAreRecorded
<1> QED
  BY <1>1, InvariantHolds, PTL


-----------------------------------------------------------------------------
(* Sums over a window.  MapThenSumSet is a fold: a function over the subsets *)
(* of the set, defined by recursion.  That such a function exists is proved  *)
(* by induction over subsets, from a minimal counterexample, as it is for    *)
(* the sums of Rebalance.                                                    *)

\* A family of subsets that holds a set whenever it holds all its proper
\* subsets is all of them.
LEMMA SubsetInduction ==
  ASSUME NEW S, IsFiniteSet(S), NEW U \in SUBSET SUBSET S,
         \A s \in SUBSET S : (\A t \in SUBSET s : t # s => t \in U) => s \in U
  PROVE  U = SUBSET S
<1> SUFFICES ASSUME U # SUBSET S
             PROVE  FALSE
  OBVIOUS
<1> DEFINE B == {s \in SUBSET S : s \notin U}
<1>1. B \subseteq FiniteSubsetsOf(S) /\ B # {}
  BY FS_Subset DEF FiniteSubsetsOf
<1>2. PICK t \in B : \A y \in B : ~(<<y, t>> \in StrictSubsetOrdering(S))
  <2> HIDE DEF B
  <2> QED
    BY <1>1, FS_StrictSubsetOrderingWellFounded, WFMin
<1>3. ASSUME NEW s \in SUBSET t, s # t
      PROVE  s \in U
  <2>1. <<s, t>> \in StrictSubsetOrdering(S)
    BY <1>3 DEF StrictSubsetOrdering
  <2>2. QED
    BY <1>2, <2>1
<1>4. QED
  BY <1>3

\* The element a fold takes from a set first.
Pick(s) == CHOOSE x \in s : TRUE

\* g is the fold's function for f over the subsets of S, and the equation it
\* satisfies at each set of a family.
IsFold(S, f, g) ==
  g = [s \in SUBSET S |-> IF s = {} THEN 0 ELSE f[Pick(s)] + g[s \ {Pick(s)}]]
Sums(f, g, D) ==
  \A s \in D : g[s] = IF s = {} THEN 0 ELSE f[Pick(s)] + g[s \ {Pick(s)}]

LEMMA PickIn == \A s : s # {} => Pick(s) \in s
BY DEF Pick

\* Two functions that satisfy the equation below a set agree on it.
LEMMA SumsUnique ==
  ASSUME NEW S, IsFiniteSet(S), NEW f, NEW g, NEW h,
         Sums(f, g, SUBSET S), Sums(f, h, SUBSET S)
  PROVE  \A s \in SUBSET S : g[s] = h[s]
<1> DEFINE U == {s \in SUBSET S : g[s] = h[s]}
<1>1. ASSUME NEW s \in SUBSET S, \A t \in SUBSET s : t # s => t \in U
      PROVE  s \in U
  <2>1. s # {} => s \ {Pick(s)} \in U
    BY <1>1, PickIn
  <2>2. QED
    BY <2>1 DEF Sums
<1>2. U \in SUBSET SUBSET S
  OBVIOUS
<1>3. U = SUBSET S
  <2> HIDE DEF U
  <2> QED
    BY <1>1, <1>2, SubsetInduction
<1>4. QED
  BY <1>3

\* The fold's function exists: take, for each set, the value that the functions
\* which satisfy the equation below it agree on.
LEMMA FoldExists ==
  ASSUME NEW S, IsFiniteSet(S), NEW f
  PROVE  \E g : IsFold(S, f, g)
<1> DEFINE Local(s) == CHOOSE g : Sums(f, g, SUBSET s)
           U == {s \in SUBSET S : \E g : Sums(f, g, SUBSET s)}
           G == [s \in SUBSET S |->
                   IF s = {} THEN 0
                   ELSE f[Pick(s)] + Local(s \ {Pick(s)})[s \ {Pick(s)}]]
<1>1. \A s \in SUBSET S : IsFiniteSet(s)
  BY FS_Subset
<1>2. ASSUME NEW s \in SUBSET S, \A t \in SUBSET s : t # s => t \in U
      PROVE  Sums(f, G, SUBSET s)
  <2> SUFFICES ASSUME NEW t \in SUBSET s, t # {}
               PROVE  G[t] = f[Pick(t)] + G[t \ {Pick(t)}]
    <3>1. ASSUME NEW t \in SUBSET s, t = {}
          PROVE  G[t] = 0
      BY <3>1
    <3> HIDE DEF G
    <3> QED
      BY <3>1 DEF Sums
  <2> DEFINE r == t \ {Pick(t)}
  <2>1. r \in U /\ r \in SUBSET S
    BY <1>2, PickIn
  <2>2. Sums(f, Local(r), SUBSET r)
    BY <2>1
  <2>3. Local(r)[r] = G[r]
    <3>1. CASE r = {}
      BY <2>2, <3>1 DEF Sums
    <3>2. CASE r # {}
      <4> DEFINE q == r \ {Pick(r)}
      <4>1. q \in U /\ q \in SUBSET r
        BY <1>2, <2>1, <3>2, PickIn
      <4>2. Sums(f, Local(q), SUBSET q)
        BY <4>1
      <4>3. Sums(f, Local(r), SUBSET q)
        BY <2>2, <4>1 DEF Sums
      <4>4. Local(q)[q] = Local(r)[q]
        <5>1. IsFiniteSet(q)
          BY <1>1, <2>1, <4>1
        <5> HIDE DEF Local, q
        <5>2. ASSUME NEW g, NEW h, Sums(f, g, SUBSET q), Sums(f, h, SUBSET q)
              PROVE  g[q] = h[q]
          BY <5>1, <5>2, SumsUnique
        <5>3. QED
          BY <4>2, <4>3, <5>2
      <4>5. Local(r)[r] = f[Pick(r)] + Local(r)[q]
        BY <2>2, <3>2 DEF Sums
      <4>6. QED
        BY <2>1, <3>2, <4>4, <4>5
    <3>3. QED
      BY <3>1, <3>2
  <2>4. QED
    BY <2>1, <2>3
<1> HIDE DEF G
<1>3. U \in SUBSET SUBSET S
  OBVIOUS
<1>4. ASSUME NEW s \in SUBSET S, \A t \in SUBSET s : t # s => t \in U
      PROVE  s \in U
  BY <1>2, <1>4
<1>5. U = SUBSET S
  <2> HIDE DEF U
  <2> QED
    BY <1>3, <1>4, SubsetInduction
<1>6. Sums(f, G, SUBSET S)
  BY <1>2, <1>5
<1>7. G = [s \in SUBSET S |-> G[s]]
  BY DEF G
<1>8. IsFold(S, f, G)
  BY <1>6, <1>7 DEF IsFold, Sums
<1>9. QED
  BY <1>8

\* The sum of a function over a set, as MapThenSumSet defines it.
Total(f, S) == (CHOOSE g : IsFold(S, f, g))[S]

\* It is the value of a function that satisfies the equation.
LEMMA SumWitness ==
  ASSUME NEW S, IsFiniteSet(S), NEW f
  PROVE  \E g : Sums(f, g, SUBSET S) /\ Total(f, S) = g[S]
<1> DEFINE g == CHOOSE g : IsFold(S, f, g)
<1>1. Total(f, S) = g[S]
  BY DEF Total
<1>2. IsFold(S, f, g)
  BY FoldExists
<1> HIDE DEF g
<1>3. Sums(f, g, SUBSET S)
  BY <1>2 DEF IsFold, Sums
<1> QED
  BY <1>1, <1>3

\* Changing one value changes the sum by as much.
LEMMA SumChange ==
  ASSUME NEW S, IsFiniteSet(S), NEW f, NEW h, NEW y \in S,
         \A x \in S : f[x] \in Int /\ h[x] \in Int,
         \A x \in S : x # y => h[x] = f[x]
  PROVE  /\ Total(f, S) \in Int
         /\ Total(h, S) = Total(f, S) + h[y] - f[y]
<1>1. PICK g : Sums(f, g, SUBSET S) /\ Total(f, S) = g[S]
  BY SumWitness
<1>2. PICK k : Sums(h, k, SUBSET S) /\ Total(h, S) = k[S]
  BY SumWitness
<1> DEFINE Change(s) == IF y \in s THEN h[y] - f[y] ELSE 0
           U == {s \in SUBSET S : g[s] \in Int /\ k[s] = g[s] + Change(s)}
<1>3. ASSUME NEW s \in SUBSET S, \A t \in SUBSET s : t # s => t \in U
      PROVE  s \in U
  <2>1. CASE s = {}
    <3>1. g[s] = 0 /\ k[s] = 0
      BY <1>1, <1>2, <2>1 DEF Sums
    <3>2. QED
      BY <2>1, <3>1
  <2>2. CASE s # {}
    <3> DEFINE x == Pick(s)
               r == s \ {x}
    <3>1. x \in s /\ f[x] \in Int /\ h[x] \in Int
      BY <2>2, PickIn
    <3>2. g[r] \in Int /\ k[r] = g[r] + Change(r)
      BY <1>3, <3>1
    <3>3. g[s] = f[x] + g[r] /\ k[s] = h[x] + k[r]
      BY <1>1, <1>2, <2>2 DEF Sums
    <3> HIDE DEF x
    <3>4. g[s] \in Int /\ k[s] = g[s] + Change(s)
      <4>1. CASE y = x
        BY <3>1, <3>2, <3>3, <4>1
      <4>2. CASE y # x
        BY <3>1, <3>2, <3>3, <4>2
      <4>3. QED
        BY <4>1, <4>2
    <3>5. QED
      BY <3>4
  <2>3. QED
    BY <2>1, <2>2
<1>4. U \in SUBSET SUBSET S
  OBVIOUS
<1>5. U = SUBSET S
  <2> HIDE DEF U
  <2> QED
    BY <1>3, <1>4, SubsetInduction
<1>6. QED
  BY <1>1, <1>2, <1>5

\* Nothing sums to nothing.
LEMMA SumOfZeros ==
  ASSUME NEW S, IsFiniteSet(S), NEW f, \A x \in S : f[x] = 0
  PROVE  Total(f, S) = 0
<1>1. PICK g : Sums(f, g, SUBSET S) /\ Total(f, S) = g[S]
  BY SumWitness
<1> DEFINE U == {s \in SUBSET S : g[s] = 0}
<1>2. ASSUME NEW s \in SUBSET S, \A t \in SUBSET s : t # s => t \in U
      PROVE  s \in U
  <2>1. CASE s = {}
    BY <1>1, <2>1 DEF Sums
  <2>2. CASE s # {}
    <3>1. s \ {Pick(s)} \in U /\ f[Pick(s)] = 0
      BY <1>2, <2>2, PickIn
    <3>2. QED
      BY <1>1, <2>2, <3>1 DEF Sums
  <2>3. QED
    BY <2>1, <2>2
<1>3. U \in SUBSET SUBSET S
  OBVIOUS
<1>4. U = SUBSET S
  <2> HIDE DEF U
  <2> QED
    BY <1>2, <1>3, SubsetInduction
<1>5. QED
  BY <1>1, <1>4

LEMMA WindowFacts == IsFiniteSet(Window) /\ 0 \in Window /\ PeriodLedgers - 1 \in Window
<1>1. IsFiniteSet(Window)
  BY FS_Interval DEF Window
<1>2. 0 \in Window /\ PeriodLedgers - 1 \in Window
  BY DEF Window
<1> QED
  BY <1>1, <1>2

\* A step that is let out raises the sum by one.
LEMMA SumGrows ==
  ASSUME NEW f \in [Window -> Nat]
  PROVE  /\ Total(f, Window) \in Int
         /\ Total([f EXCEPT ![0] = @ + 1], Window) = Total(f, Window) + 1
<1> DEFINE h == [f EXCEPT ![0] = @ + 1]
<1>1. \A x \in Window : f[x] \in Int /\ h[x] \in Int
  BY WindowFacts
<1>2. h[0] = f[0] + 1 /\ f[0] \in Int
  BY WindowFacts
<1>3. \A x \in Window : x # 0 => h[x] = f[x]
  OBVIOUS
<1> HIDE DEF h
<1>4. Total(f, Window) \in Int /\ Total(h, Window) = Total(f, Window) + h[0] - f[0]
  BY WindowFacts, <1>1, <1>2, <1>3, SumChange
<1>5. Total(h, Window) = Total(f, Window) + 1
  BY <1>2, <1>4
<1> QED
  BY <1>4, <1>5 DEF h

\* The first k places moved up by one, and what was in the last of them out.
Shifted(f, k) ==
  [a \in Window |-> IF a > k THEN f[a] ELSE IF a = 0 THEN 0 ELSE f[a - 1]]

\* One place more changes the sum by the two values at its border.
LEMMA MoveOne ==
  ASSUME NEW f \in [Window -> Nat], NEW k \in Window, k # 0,
         Total(Shifted(f, k - 1), Window) = Total(f, Window) - f[k - 1],
         Total(f, Window) \in Int
  PROVE  Total(Shifted(f, k), Window) = Total(f, Window) - f[k]
<1> DEFINE g == Shifted(f, k - 1)
           h == Shifted(f, k)
<1>1. k - 1 \in Window /\ IsFiniteSet(Window)
  BY FS_Interval DEF Window
<1>2. \A x \in Window : g[x] \in Int /\ h[x] \in Int
  BY DEF Shifted, Window
<1>3. g[k] = f[k] /\ h[k] = f[k - 1] /\ f[k] \in Int /\ f[k - 1] \in Int
  BY <1>1 DEF Shifted, Window
<1>4. \A x \in Window : x # k => h[x] = g[x]
  BY DEF Shifted, Window
<1> HIDE DEF g, h
<1>5. Total(g, Window) \in Int /\ Total(h, Window) = Total(g, Window) + h[k] - g[k]
  BY <1>1, <1>2, <1>4, SumChange
<1>6. Total(g, Window) = Total(f, Window) - f[k - 1]
  BY DEF g
<1>7. Total(h, Window) = Total(f, Window) - f[k]
  BY <1>3, <1>5, <1>6
<1> QED
  BY <1>7 DEF h

\* Moving every value up by one place, and the last one out, takes the last one
\* from the sum.
LEMMA ShiftedSum ==
  ASSUME NEW f \in [Window -> Nat]
  PROVE  /\ Total(f, Window) \in Int
         /\ Total([a \in Window |-> IF a = 0 THEN 0 ELSE f[a - 1]], Window) <= Total(f, Window)
<1>w. IsFiniteSet(Window) /\ 0 \in Window /\ PeriodLedgers - 1 \in Window
  BY WindowFacts
<1>n. \A k \in Window, a \in Window : Shifted(f, k)[a] \in Nat /\ f[a] \in Nat
  BY DEF Shifted, Window
<1> DEFINE Claim(k) == Total(Shifted(f, k), Window) = Total(f, Window) - f[k]
           U == {s \in SUBSET Window : \A k \in Window : s = 0 .. k => Claim(k)}
<1>0. Total(f, Window) \in Int /\ Claim(0)
  <2> DEFINE h == Shifted(f, 0)
  <2>1. \A x \in Window : f[x] \in Int /\ h[x] \in Int
    BY <1>n, <1>w
  <2>2. h[0] = 0 /\ \A x \in Window : x # 0 => h[x] = f[x]
    BY <1>w DEF Shifted, Window
  <2> HIDE DEF h
  <2>3. Total(f, Window) \in Int /\ Total(h, Window) = Total(f, Window) + h[0] - f[0]
    BY <1>w, <2>1, <2>2, SumChange
  <2> QED
    BY <1>w, <2>1, <2>2, <2>3 DEF h
<1>1. ASSUME NEW k \in Window, k # 0, Claim(k - 1) PROVE Claim(k)
  BY <1>0, <1>1, MoveOne
<1>2. ASSUME NEW s \in SUBSET Window, \A t \in SUBSET s : t # s => t \in U
      PROVE  s \in U
  <2> SUFFICES ASSUME NEW k \in Window, s = 0 .. k PROVE Claim(k)
    OBVIOUS
  <2>1. CASE k = 0
    BY <1>0, <2>1
  <2>2. CASE k # 0
    <3>1. k - 1 \in Window /\ 0 .. (k - 1) \in SUBSET s /\ 0 .. (k - 1) # s
      BY <2>2 DEF Window
    <3>2. 0 .. (k - 1) \in U
      BY <1>2, <3>1
    <3> HIDE DEF Claim
    <3>3. Claim(k - 1)
      BY <3>1, <3>2
    <3> QED
      BY <1>1, <2>2, <3>3
  <2> QED
    BY <2>1, <2>2
<1>3. U \in SUBSET SUBSET Window
  OBVIOUS
<1>4. U = SUBSET Window
  <2> HIDE DEF U
  <2> QED
    BY <1>w, <1>2, <1>3, SubsetInduction
<1> DEFINE last == PeriodLedgers - 1
<1>5. Claim(last)
  <2>1. 0 .. last \in SUBSET Window
    BY DEF Window
  <2> HIDE DEF Claim, last
  <2> QED
    BY <1>4, <1>w, <2>1 DEF last
<1>6. Shifted(f, last) = [a \in Window |-> IF a = 0 THEN 0 ELSE f[a - 1]]
  BY DEF Shifted, Window
<1>7. f[last] \in Nat
  BY <1>w
<1> QED
  BY <1>0, <1>5, <1>6, <1>7


-----------------------------------------------------------------------------
(* The cap.                                                                  *)

\* What the policy writes down for a call: a deposit's transfer under the rule it
\* names, if that rule is capped, and nothing for a withdrawal.
LEMMA OutflowSums ==
  ASSUME NEW tree, NEW rule, IsFiniteSet(DOMAIN tree)
  PROVE  \E g :
           /\ Account!OutflowOf(tree, rule) = g[DOMAIN tree]
           /\ Sums([i \in DOMAIN tree |-> IF tree[i].rule = rule /\ Account!IsCapped(rule)
                                          THEN tree[i].amount ELSE 0], g, SUBSET DOMAIN tree)
<1> DEFINE D == DOMAIN tree
           term == [i \in D |-> IF tree[i].rule = rule /\ Account!IsCapped(rule)
                                THEN tree[i].amount ELSE 0]
           Fold(g) == g = [s \in SUBSET D |->
                             IF s = {} THEN 0
                             ELSE (IF tree[Pick(s)].rule = rule /\ Account!IsCapped(rule)
                                   THEN tree[Pick(s)].amount ELSE 0)
                                  + g[s \ {Pick(s)}]]
           fold == CHOOSE g : Fold(g)
<1>1. Account!OutflowOf(tree, rule) = fold[D]
  BY DEF Account!OutflowOf, Account!MapThenSumSet, Account!MapThenFoldSet, Pick
<1>2. \E g : Fold(g)
  <2> HIDE DEF term
  <2>1. PICK g : IsFold(D, term, g)
    BY FoldExists
  <2>2. ASSUME NEW s \in SUBSET D, s # {}
        PROVE  term[Pick(s)] = IF tree[Pick(s)].rule = rule /\ Account!IsCapped(rule)
                               THEN tree[Pick(s)].amount ELSE 0
    <3>1. Pick(s) \in D
      BY <2>2, PickIn
    <3> QED
      BY <3>1 DEF term
  <2>3. Fold(g)
    BY <2>1, <2>2 DEF IsFold
  <2> QED
    BY <2>3
<1>3. Fold(fold)
  <2> HIDE DEF Fold
  <2> QED
    BY <1>2
<1> HIDE DEF fold
<1>4. ASSUME NEW s \in SUBSET D
      PROVE  fold[s] = IF s = {} THEN 0 ELSE term[Pick(s)] + fold[s \ {Pick(s)}]
  <2>1. CASE s = {}
    BY <1>3, <2>1
  <2>2. CASE s # {}
    <3>1. Pick(s) \in D
      BY <2>2, PickIn
    <3> QED
      BY <1>3, <2>2, <3>1
  <2> QED
    BY <2>1, <2>2
<1>5. Sums(term, fold, SUBSET D)
  BY <1>4 DEF Sums
<1> QED
  BY <1>1, <1>5

LEMMA OutflowOfCalls ==
  ASSUME NEW rule
  PROVE  /\ Account!OutflowOf(AuthTree("withdraw"), rule) = 0
         /\ Account!OutflowOf(AuthTree("deposit"), rule) =
              IF rule = AssetRuleId /\ Account!IsCapped(rule) THEN 1 ELSE 0
<1>1. Account!OutflowOf(AuthTree("withdraw"), rule) = 0
  <2> DEFINE tree == AuthTree("withdraw")
             term == [i \in DOMAIN tree |-> IF tree[i].rule = rule /\ Account!IsCapped(rule)
                                            THEN tree[i].amount ELSE 0]
  <2>1. DOMAIN tree = {1} /\ tree[1].amount = 0
    BY DEF AuthTree
  <2>2. IsFiniteSet(DOMAIN tree)
    <3>1. IsFiniteSet({1})
      BY FS_Singleton
    <3> HIDE DEF tree
    <3> QED
      BY <2>1, <3>1, Zenon
  <2>3. term[1] = 0
    BY <2>1
  <2> HIDE DEF tree
  <2>4. PICK g : Account!OutflowOf(tree, rule) = g[DOMAIN tree] /\ Sums(term, g, SUBSET DOMAIN tree)
    BY <2>2, OutflowSums
  <2> HIDE DEF term
  <2>5. Pick({1}) = 1 /\ {1} \ {1} = {}
    BY PickIn
  <2>6. g[{}] = 0 /\ g[{1}] = term[1] + g[{}]
    BY <2>1, <2>4, <2>5 DEF Sums
  <2> QED
    BY <2>1, <2>3, <2>4, <2>6 DEF tree
<1>2. Account!OutflowOf(AuthTree("deposit"), rule) =
        IF rule = AssetRuleId /\ Account!IsCapped(rule) THEN 1 ELSE 0
  <2> DEFINE tree == AuthTree("deposit")
             term == [i \in DOMAIN tree |-> IF tree[i].rule = rule /\ Account!IsCapped(rule)
                                            THEN tree[i].amount ELSE 0]
             paid == IF rule = AssetRuleId /\ Account!IsCapped(rule) THEN 1 ELSE 0
  <2>1. /\ DOMAIN tree = {1, 2} /\ tree[1].amount = 0
        /\ tree[2].amount = 1 /\ tree[2].rule = AssetRuleId
    BY DEF AuthTree
  <2>2. IsFiniteSet(DOMAIN tree)
    <3>1. IsFiniteSet({1} \cup {2})
      BY FS_Singleton, FS_AddElement
    <3>2. {1} \cup {2} = {1, 2}
      OBVIOUS
    <3> HIDE DEF tree
    <3> QED
      BY <2>1, <3>1, <3>2, Zenon
  <2>3. term[1] = 0 /\ term[2] = paid
    BY <2>1
  <2> HIDE DEF tree
  <2>4. PICK g : Account!OutflowOf(tree, rule) = g[DOMAIN tree] /\ Sums(term, g, SUBSET DOMAIN tree)
    BY <2>2, OutflowSums
  <2> HIDE DEF term
  <2>5. g[{}] = 0
    BY <2>1, <2>4 DEF Sums
  <2>6. ASSUME NEW i \in {1, 2} PROVE g[{i}] = term[i] + 0
    <3>1. Pick({i}) = i /\ {i} \ {i} = {} /\ {i} \in SUBSET {1, 2} /\ {i} # {}
      BY <2>6, PickIn
    <3>2. g[{i}] = term[Pick({i})] + g[{i} \ {Pick({i})}]
      BY <2>1, <2>4, <3>1 DEF Sums
    <3> QED
      BY <2>5, <3>1, <3>2
  <2>7. PICK i \in {1, 2} : Pick({1, 2}) = i
    BY PickIn
  <2>8. g[{1, 2}] = term[i] + g[{1, 2} \ {i}]
    BY <2>1, <2>4, <2>7 DEF Sums
  <2>9. {1, 2} \ {1} = {2} /\ {1, 2} \ {2} = {1}
    OBVIOUS
  <2>10. paid \in Nat
    OBVIOUS
  <2> HIDE DEF paid
  <2>11. g[{1, 2}] = paid
    <3>1. g[{1}] = term[1] + 0 /\ g[{2}] = term[2] + 0
      BY <2>6
    <3>2. CASE i = 1
      <4>1. g[{1, 2}] = term[1] + g[{2}]
        BY <2>8, <2>9, <3>2
      <4> QED
        BY <2>3, <2>10, <3>1, <4>1
    <3>3. CASE i = 2
      <4>1. g[{1, 2}] = term[2] + g[{1}]
        BY <2>8, <2>9, <3>3
      <4> QED
        BY <2>3, <2>10, <3>1, <4>1
    <3> QED
      BY <2>7, <3>2, <3>3
  <2> QED
    BY <2>1, <2>4, <2>11 DEF tree, paid
<1> QED
  BY <1>1, <1>2

\* The books of the rule the client names for the reserve token are what has left,
\* and no more than the limit is in them.
SpendInv ==
  /\ AssetRuleId \in Account!RuleIds => recent[AssetRuleId] = outflow
  /\ Total(outflow, Window) <= SpendingLimit

LEMMA SpentIsTotal ==
  ASSUME NEW rule
  PROVE  Account!Spent(rule) = Total(recent[rule], Window)
BY DEF Account!Spent, Account!Ages, Account!MapThenSumSet, Account!MapThenFoldSet,
       Window, Total, IsFold, Pick

LEMMA SpendCappedIsTotal == SpendCapped <=> Total(outflow, Window) <= SpendingLimit
BY DEF SpendCapped, MapThenSumSet, MapThenFoldSet, Total, IsFold, Pick

LEMMA SpendStarts == ASSUME Init PROVE SpendInv
<1>1. IsFiniteSet(Window) /\ SpendingLimit \in Nat
  BY FS_Interval DEF Window
<1>2. outflow = [age \in Window |-> 0]
  BY DEF Init
<1>3. Total(outflow, Window) = 0
  BY <1>1, <1>2, SumOfZeros
<1>4. AssetRuleId \in Account!RuleIds => recent[AssetRuleId] = outflow
  BY <1>2 DEF Init, Account!EmptyHistory, Account!Ages, Window
<1> QED
  BY <1>1, <1>3, <1>4 DEF SpendInv

\* The reserve token's rule, when the smart account has checked a deposit, is one
\* of the capped ones if the token is no gateway, and has room for the step.
LEMMA DepositHasRoom ==
  ASSUME NEW Contracts, CappedTargets \in Seq(Contracts),
         GatewayTargets \in Seq(Contracts \ {Asset}),
         Account!CheckAuth(AuthTree("deposit"))
  PROVE  /\ AssetRuleId \in Account!RuleIds /\ Account!IsCapped(AssetRuleId)
         /\ Account!Spent(AssetRuleId) + 1 <= SpendingLimit
<1> DEFINE tree == AuthTree("deposit")
<1>1. 2 \in DOMAIN tree
      /\ tree[2] = [contract |-> Asset, fn |-> "transfer", amount |-> 1, rule |-> AssetRuleId]
  BY DEF AuthTree
<1>2. Account!Matches(tree[2])
  BY <1>1 DEF Account!CheckAuth
<1>3. AssetRuleId \in Account!RuleIds /\ Account!TargetOf(AssetRuleId) = Asset
  BY <1>1, <1>2 DEF Account!Matches
<1>4. Account!IsCapped(AssetRuleId)
  <2> SUFFICES ASSUME ~Account!IsCapped(AssetRuleId) PROVE FALSE
    OBVIOUS
  <2> DEFINE i == AssetRuleId + 1 - Len(CappedTargets)
  <2>1. AssetRuleId \in Nat /\ i \in 1 .. Len(GatewayTargets)
    BY <1>3 DEF Account!RuleIds, Account!IsCapped
  <2>2. (CappedTargets \o GatewayTargets)[AssetRuleId + 1] = GatewayTargets[i]
    BY <2>1
  <2>3. GatewayTargets[i] # Asset
    BY <2>1
  <2> QED
    BY <1>3, <2>2, <2>3 DEF Account!TargetOf
<1>5. Account!Spent(AssetRuleId) + 1 <= SpendingLimit
  BY <1>1, <1>2, <1>4 DEF Account!Matches, Account!Enforced
<1> QED
  BY <1>3, <1>4, <1>5

LEMMA TransferKeepsSpend ==
  ASSUME NEW Contracts, CappedTargets \in Seq(Contracts),
         GatewayTargets \in Seq(Contracts \ {Asset}),
         TypeOK, SpendInv, NEW v \in Venues, NEW d \in {"deposit", "withdraw"},
         Transfer(v, d)
  PROVE  SpendInv'
<1>1. CASE UNCHANGED <<recent, outflow>>
  BY <1>1 DEF SpendInv
<1>2. CASE /\ Account!Apply(AuthTree(d))
           /\ outflow' = IF d = "deposit" THEN [outflow EXCEPT ![0] = @ + 1]
                                               ELSE outflow
  <2>0. outflow \in [Window -> Nat]
    BY DEF TypeOK
  <2>1. /\ Account!CheckAuth(AuthTree(d))
        /\ AssetRuleId \in Account!RuleIds =>
             recent'[AssetRuleId] =
               [recent[AssetRuleId] EXCEPT ![0] = @ + Account!OutflowOf(AuthTree(d), AssetRuleId)]
    BY <1>2 DEF Account!Apply
  <2>2. CASE d = "withdraw"
    <3>1. outflow' = outflow
      BY <1>2, <2>2
    <3>2. ASSUME AssetRuleId \in Account!RuleIds PROVE recent'[AssetRuleId] = outflow
      <4>1. recent'[AssetRuleId] = [outflow EXCEPT ![0] = @ + 0]
        BY <2>1, <2>2, <3>2, OutflowOfCalls DEF SpendInv
      <4> QED
        BY <2>0, <4>1
    <3> QED
      BY <3>1, <3>2 DEF SpendInv
  <2>3. CASE d = "deposit"
    <3>1. /\ AssetRuleId \in Account!RuleIds /\ Account!IsCapped(AssetRuleId)
          /\ Account!Spent(AssetRuleId) + 1 <= SpendingLimit
      BY <2>1, <2>3, DepositHasRoom
    <3>2. Total(outflow, Window) + 1 <= SpendingLimit
      BY <3>1, SpentIsTotal DEF SpendInv
    <3>3. outflow' = [outflow EXCEPT ![0] = @ + 1]
      BY <1>2, <2>3
    <3>4. recent'[AssetRuleId] = outflow'
      BY <2>1, <2>3, <3>1, <3>3, OutflowOfCalls DEF SpendInv
    <3>5. PICK before \in [Window -> Nat] : before = outflow
      BY <2>0
    <3>6. Total([before EXCEPT ![0] = @ + 1], Window) = Total(before, Window) + 1
          /\ Total(before, Window) \in Int
      BY SumGrows
    <3>9. Total(outflow', Window) = Total(outflow, Window) + 1 /\ Total(outflow, Window) \in Int
      BY <3>3, <3>5, <3>6
    <3> QED
      BY <3>2, <3>4, <3>9 DEF SpendInv
  <2> QED
    BY <2>0, <2>2, <2>3
<1> QED
  BY <1>1, <1>2 DEF Transfer

\* A ledger closes: what leaves the window leaves both books.
LEMMA LedgerKeepsSpend ==
  ASSUME TypeOK, SpendInv, Ledger PROVE SpendInv'
<1>1. outflow' = [age \in Window |-> IF age = 0 THEN 0 ELSE outflow[age - 1]]
  BY DEF Ledger
<1>2. ASSUME AssetRuleId \in Account!RuleIds PROVE recent'[AssetRuleId] = outflow'
  <2>1. recent'[AssetRuleId] =
          [age \in Window |-> IF age = 0 THEN 0 ELSE recent[AssetRuleId][age - 1]]
    BY <1>2 DEF Ledger, Account!Age, Account!Ages, Window
  <2> QED
    BY <1>1, <1>2, <2>1 DEF SpendInv
<1>3. outflow \in [Window -> Nat]
  BY DEF TypeOK
<1>4. PICK before \in [Window -> Nat] : before = outflow
  BY <1>3
<1>5. Total(before, Window) \in Int
      /\ Total([a \in Window |-> IF a = 0 THEN 0 ELSE before[a - 1]], Window) <= Total(before, Window)
  BY ShiftedSum
<1> DEFINE after == [a \in Window |-> IF a = 0 THEN 0 ELSE before[a - 1]]
<1>6. outflow' = after
  BY <1>1, <1>4
<1>7. Total(after, Window) \in Int
  <2>1. IsFiniteSet(Window) /\ 0 \in Window
    BY FS_Interval DEF Window
  <2>2. \A a \in Window : after[a] \in Int
    BY DEF Window
  <2> HIDE DEF after
  <2> QED
    BY <2>1, <2>2, SumChange
<1> HIDE DEF after
<1>8. Total(outflow', Window) <= SpendingLimit
  <2>1. Total(before, Window) <= SpendingLimit
    BY <1>4 DEF SpendInv
  <2>2. Total(after, Window) <= Total(before, Window)
    BY <1>5 DEF after
  <2>3. Total(after, Window) <= SpendingLimit
    BY <1>5, <1>7, <2>1, <2>2
  <2> QED
    BY <1>6, <2>3
<1> QED
  BY <1>2, <1>8 DEF SpendInv

\* Whatever the cycles believe their position to be, and however they overlap, no
\* more than the limit leaves the smart account within a window, provided that the
\* reserve token is not also one of the contracts that need no cap
\* (smart-treasury/src/lib.rs, lines 93-119; blend.ts, lines 284-287).
THEOREM SpendCappedHolds ==
  ASSUME NEW Contracts, CappedTargets \in Seq(Contracts),
         GatewayTargets \in Seq(Contracts \ {Asset})
  PROVE  Spec => []SpendCapped
<1>1. Init => SpendInv
  BY SpendStarts
<1>2. TypeOK /\ SpendInv /\ [Next]_vars => SpendInv'
  <2> SUFFICES ASSUME TypeOK, SpendInv, [Next]_vars PROVE SpendInv'
    OBVIOUS
  <2>1. CASE \E v \in Venues, d \in {"deposit", "withdraw"} : Transfer(v, d)
    BY <2>1, TransferKeepsSpend
  <2>2. CASE Ledger
    BY <2>2, LedgerKeepsSpend
  <2>3. CASE UNCHANGED <<recent, outflow>>
    BY <2>3 DEF SpendInv
  <2> QED
    BY <2>1, <2>2, <2>3
       DEF Next, vars, chainVars, Begin, CycleStep, Gate, ReadPosition, Bind, ReadAccount,
           Prepare, Send, SendRefused, Confirm, GiveUp, InsertDecision, Land, Drop, Crash,
           OtherJob, Edit, Accrue, OtherMove, TypeOK
<1>3. SpendInv => SpendCapped
  BY SpendCappedIsTotal DEF SpendInv
<1> QED
  BY <1>1, <1>2, <1>3, TypesHold, PTL DEF Spec


-----------------------------------------------------------------------------
(* The configuration.                                                        *)

\* Of edits that come one at a time, a toggle past its read carries the rules of
\* the row, since nobody else writes it meanwhile.
ToggleInv ==
  serial =>
    /\ \A e, d \in Edits : editPc[e] \in Editing /\ editPc[d] \in Editing => e = d
    /\ \A e \in Edits :
         edit[e].kind = "toggle" /\ editPc[e] \in {"readId", "write"} /\ config # NoRow
           => edit[e].rules = config.rules

LEMMA ConfigKeepsToggle ==
  ASSUME ConfigTypeOK, ToggleInv, [ConfigNext]_configVars
  PROVE  ToggleInv' /\ (serial => \A e \in Edits : KeepsRules(e))
<1> USE DEF ToggleInv, KeepsRules, ConfigTypeOK, Editing
<1>1. CASE UNCHANGED configVars
  BY <1>1 DEF configVars, editVars
<1>2. ASSUME NEW e \in Edits, Toggle(e)
      PROVE  ToggleInv' /\ (serial => \A d \in Edits : KeepsRules(d))
  BY <1>2 DEF Toggle, Alone, Body
<1>3. ASSUME NEW e \in Edits, Save(e)
      PROVE  ToggleInv' /\ (serial => \A d \in Edits : KeepsRules(d))
  BY <1>3 DEF Save, Alone, Body
<1>4. ASSUME NEW e \in Edits, ReadRow(e)
      PROVE  ToggleInv' /\ (serial => \A d \in Edits : KeepsRules(d))
  BY <1>4 DEF ReadRow, CarriedRules, Body
<1>5. ASSUME NEW e \in Edits, ReadId(e)
      PROVE  ToggleInv' /\ (serial => \A d \in Edits : KeepsRules(d))
  BY <1>5 DEF ReadId
<1>6. ASSUME NEW e \in Edits, WriteConfig(e)
      PROVE  ToggleInv' /\ (serial => \A d \in Edits : KeepsRules(d))
  <2>1. /\ editPc[e] = "write" /\ editPc' = [editPc EXCEPT ![e] = "done"]
        /\ config' = [rules |-> edit[e].rules, enabled |-> edit[e].enabled]
        /\ UNCHANGED <<edit, found, serial>>
    BY <1>6 DEF WriteConfig
  <2>2. ToggleInv'
    BY <2>1
  <2>3. ASSUME serial, NEW d \in Edits PROVE KeepsRules(d)
    BY <2>1, <2>3
  <2> QED
    BY <2>2, <2>3
<1>7. ASSUME NEW e \in Edits, WriteConflict(e)
      PROVE  ToggleInv' /\ (serial => \A d \in Edits : KeepsRules(d))
  BY <1>7 DEF WriteConflict
<1> QED
  BY <1>1, <1>2, <1>3, <1>4, <1>5, <1>6, <1>7 DEF ConfigNext, EditStep

\* Flipping the switch never changes the risk rules of a tenant whose edits come
\* one at a time (treasuryService.ts, lines 208-218).
THEOREM SerialTogglesKeepRulesHolds == Spec => SerialTogglesKeepRules
<1>1. Init => ToggleInv
  BY DEF Init, ConfigInit, ToggleInv, Editing
<1>2. [Next]_vars => [ConfigNext]_configVars
  BY DEF Next, vars, Edit, Begin, CycleStep, Gate, ReadPosition, Bind, ReadAccount,
     Prepare, Send, SendRefused, Confirm, GiveUp, InsertDecision, Land, Drop, Crash,
     OtherJob, Ledger, Accrue, OtherMove
<1>3. TypeOK /\ ToggleInv /\ [Next]_vars => ToggleInv'
  BY <1>2, ConfigKeepsToggle DEF TypeOK
<1>4. TypeOK /\ ToggleInv /\ [Next]_vars
        => [serial => \A e \in Edits : KeepsRules(e)]_configVars
  BY <1>2, ConfigKeepsToggle DEF TypeOK
<1> QED
  BY <1>1, <1>3, <1>4, TypesHold, PTL DEF Spec, SerialTogglesKeepRules
=============================================================================
