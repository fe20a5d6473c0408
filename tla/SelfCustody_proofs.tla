------------------------ MODULE SelfCustody_proofs ------------------------
(***************************************************************************)
(* Proofs about SelfCustody, for any number of prepared payouts and of     *)
(* submissions, every deployment and every fault: what the account's       *)
(* sequence number does and does not protect, and what the wallet's        *)
(* payments and the contract's events say of a run.                        *)
(***************************************************************************)
EXTENDS SelfCustody, TLAPS

(***************************************************************************)
(* Why the two envelopes exclude each other: both are numbered from a read *)
(* of the account made before either is sent.  An envelope that can still  *)
(* land, or has, was numbered from a read as late as any the other can     *)
(* have been numbered from, so its number is no lower.  Landing raises the *)
(* account's number to the envelope's own: the other is then behind it.    *)
(***************************************************************************)
Viable(p, k) == status[p][k] = "landed" \/ number[p][k] > seq

NumberInv(p) ==
  \A k \in Kinds :
    /\ status[p][k] # "absent" => number[p][k] <= seq + 1
    /\ status[p][k] = "landed" => number[p][k] <= seq
    /\ status[p][k] # "absent" /\ status[p][Other(k)] # "absent" /\ Viable(p, k)
         => number[p][Other(k)] <= number[p][k]
    /\ ~(status[p][k] = "landed" /\ status[p][Other(k)] = "landed")

\* An envelope exists only once prepareRun has come to it, and is sent only
\* after the wallet has signed; the payment moves something.
PlaceInv(p) ==
  /\ pc[p] \in Preparing \ {"buildRecord"} => status[p]["pay"] = "absent"
  /\ pc[p] \in Preparing => status[p]["rec"] = "absent"
  /\ pc[p] # "signed" =>
       \A k \in Kinds : status[p][k] \in {"absent", "built", "expired"}
  /\ status[p]["pay"] # "absent" => lines[p].wallet > 0

\* Every envelope of p landed, and there was one.
Complete(p) ==
  /\ \E k \in Kinds : status[p][k] = "landed"
  /\ \A k \in Kinds : status[p][k] \in {"landed", "absent"}

\* Where a submission is tells which envelopes it has seen land.
SubmitInv(s) ==
  /\ spc[s] \in Submitting => target[s] \in Payouts
  /\ target[s] \in Payouts => pc[target[s]] = "signed"
  /\ spc[s] \in {"rec", "recWait"} => status[target[s]]["rec"] # "absent"
  /\ spc[s] \in {"rec", "recWait"} /\ ~env.relayer =>
       status[target[s]]["pay"] \in {"landed", "absent"}
  /\ spc[s] = "insert" /\ ~env.relayer => Complete(target[s])

RowInv(p) ==
  row[p] # None => pc[p] = "signed" /\ (~env.relayer => Complete(p))

\* The ledger of payments is the set of the payment envelopes that landed.
Paid == {payments[i].run : i \in DOMAIN payments}
LedgerInv == Paid = {p \in Payouts : status[p]["pay"] = "landed"}

EnvelopeInv == \A p \in Payouts : NumberInv(p) /\ PlaceInv(p)
CallInv == (\A s \in Submits : SubmitInv(s)) /\ (\A p \in Payouts : RowInv(p))

IInv == TypeOK /\ EnvelopeInv /\ CallInv /\ LedgerInv

-----------------------------------------------------------------------------

\* Appending an entry to a ledger.
LEMMA AppendFacts ==
  ASSUME NEW S, NEW s \in Seq(S), NEW e \in S
  PROVE  /\ Append(s, e) \in Seq(S)
         /\ DOMAIN s = 1..Len(s) /\ Len(s) \in Nat
         /\ DOMAIN Append(s, e) = 1..(Len(s) + 1)
         /\ \A i \in 1..Len(s) : Append(s, e)[i] = s[i]
         /\ Append(s, e)[Len(s) + 1] = e
OBVIOUS

\* An entry of a ledger.
LEMMA EntryFacts ==
  ASSUME NEW S, NEW s \in Seq(S)
  PROVE  \A i \in DOMAIN s : s[i] \in S
OBVIOUS

\* Changing one entry of a function of functions.
LEMMA UpdateFacts ==
  ASSUME NEW A, NEW B, NEW S, NEW f \in [A -> [B -> S]],
         NEW a \in A, NEW b \in B, NEW v \in S, NEW g,
         g = [f EXCEPT ![a][b] = v]
  PROVE  /\ g \in [A -> [B -> S]]
         /\ g[a][b] = v
         /\ \A x \in A, y \in B : x # a \/ y # b => g[x][y] = f[x][y]
OBVIOUS

LEMMA InitEstablishes == Init => IInv
<1> SUFFICES ASSUME Init
             PROVE  IInv
  OBVIOUS
<1> USE CustodyAssumption DEF Init
<1>1. TypeOK
  BY DEF TypeOK, Preparing, EnvelopeStatus, Kinds, Staff
<1>2. EnvelopeInv
  BY DEF EnvelopeInv, NumberInv, PlaceInv, Kinds, Other, Viable
<1>3. CallInv
  BY DEF CallInv, SubmitInv, RowInv, Submitting, Waiting
<1>4. LedgerInv
  BY DEF LedgerInv, Paid, Kinds
<1>5. QED
  BY <1>1, <1>2, <1>3, <1>4 DEF IInv

\* What has landed, or is null, of a signed payout stays so.
Settles ==
  \A q \in Payouts : pc[q] = "signed" =>
    /\ pc'[q] = "signed"
    /\ \A k \in Kinds :
         /\ status[q][k] \in {"landed", "absent"} => status'[q][k] = status[q][k]
         /\ status[q][k] # "absent" => status'[q][k] # "absent"

\* A step that leaves a submission where it is keeps what is known of it.
LEMMA SubmitInvStable ==
  ASSUME NEW t \in Submits, SubmitInv(t), target[t] \in Payouts \cup {None},
         Settles, env' = env, spc'[t] = spc[t], target'[t] = target[t],
         spc[t] \in {"idle"} \cup Submitting \cup Over
  PROVE  SubmitInv(t)'
<1>1. CASE target[t] \in Payouts
  <2>1. /\ pc[target[t]] = "signed" /\ pc'[target[t]] = "signed"
        /\ \A k \in Kinds :
             /\ status[target[t]][k] \in {"landed", "absent"} =>
                  status'[target[t]][k] = status[target[t]][k]
             /\ status[target[t]][k] # "absent" => status'[target[t]][k] # "absent"
    BY <1>1 DEF SubmitInv, Settles
  <2>2. Complete(target[t]) => Complete(target[t])'
    BY <2>1 DEF Complete
  <2>3. QED
    BY <1>1, <2>1, <2>2 DEF SubmitInv, Kinds, Complete
<1>2. CASE target[t] \notin Payouts
  BY <1>2 DEF SubmitInv, Submitting, Waiting
<1>3. QED
  BY <1>1, <1>2

\* ... and one that writes no row keeps what is known of the rows.
LEMMA RowInvStable ==
  ASSUME NEW p \in Payouts, RowInv(p), Settles, env' = env, row'[p] = row[p]
  PROVE  RowInv(p)'
<1>1. pc[p] = "signed" /\ Complete(p) => Complete(p)'
  BY DEF Settles, Complete
<1>2. QED
  BY <1>1 DEF RowInv, Settles

\* Both together, for a step of anything but submitRun.
LEMMA CallInvStable ==
  ASSUME TypeOK, CallInv, Settles, UNCHANGED <<env, row, spc, target>>
  PROVE  CallInv'
BY SubmitInvStable, RowInvStable DEF CallInv, TypeOK

\* Steps of prepareRun that build nothing, and the wallet's answer.
LEMMA PreparePreserves ==
  ASSUME IInv, NEW p \in Payouts,
         ReadLines(p) \/ CheckOperator(p) \/ AddOperator(p)
         \/ AddOperatorFails(p) \/ Sign(p)
  PROVE  IInv'
<1> USE DEF ReadLines, CheckOperator, AddOperator, AddOperatorFails, Sign,
            chainVars, contractVars, envelopeVars, submitVars
<1> DEFINE Shape(from, to) ==
      /\ UNCHANGED <<env, staff, edits, seq, other, payments, admin, executed,
                     row, status, number, spc, target, recomputed>>
      /\ operators' \subseteq {Wallet}
      /\ pc[p] \in from
      /\ \E q \in to : pc' = [pc EXCEPT ![p] = q]
      /\ \/ lines' = lines
         \/ pc[p] = "idle" /\ lines' = [lines EXCEPT ![p] = staff]
<1> DEFINE Early == Preparing \ {"buildRecord"}
<1>1. Shape(Early, Early \cup {"threw"}) \/ Shape({"prepared"}, {"signed", "abandoned"})
  <2> operators \subseteq {Wallet}
    BY DEF IInv, TypeOK
  <2>1. CASE ReadLines(p)
    <3>1. \E q \in {"operator", "threw"} : pc' = [pc EXCEPT ![p] = q]
      BY <2>1
    <3>2. QED
      BY <2>1, <3>1 DEF Preparing
  <2>2. CASE CheckOperator(p)
    <3>1. \E q \in {"operatorWait", "buildPayment"} : pc' = [pc EXCEPT ![p] = q]
      BY <2>2
    <3>2. QED
      BY <2>2, <3>1 DEF Preparing
  <2>3. CASE AddOperator(p)
    <3>1. \E q \in {"buildPayment", "threw"} : pc' = [pc EXCEPT ![p] = q]
      BY <2>3
    <3>2. QED
      BY <2>3, <3>1 DEF Preparing, Contract!AddOperator
  <2>4. CASE AddOperatorFails(p)
    BY <2>4 DEF Preparing
  <2>5. CASE Sign(p)
    BY <2>5 DEF Preparing
  <2>6. QED
    BY <2>1, <2>2, <2>3, <2>4, <2>5
<1> HIDE DEF ReadLines, CheckOperator, AddOperator, AddOperatorFails, Sign
<1>2. TypeOK'
  BY <1>1 DEF IInv, TypeOK
<1>3. EnvelopeInv'
  <2> SUFFICES ASSUME NEW q \in Payouts
               PROVE  NumberInv(q)' /\ PlaceInv(q)'
    BY DEF EnvelopeInv
  <2>1. NumberInv(q) /\ PlaceInv(q)
    BY DEF IInv, EnvelopeInv
  <2>2. NumberInv(q)'
    BY <1>1, <2>1 DEF NumberInv, Viable
  <2>3. CASE q # p
    BY <1>1, <2>1, <2>2, <2>3 DEF IInv, TypeOK, PlaceInv
  <2>4. CASE q = p /\ Shape(Early, Early \cup {"threw"})
    <3>1. pc'[p] \in Early \cup {"threw"} /\ pc[p] \in Early
      BY <2>4 DEF IInv, TypeOK
    <3>2. status[p]["pay"] = "absent" /\ status[p]["rec"] = "absent"
      BY <2>1, <2>4, <3>1 DEF PlaceInv
    <3>3. QED
      BY <2>2, <2>4, <3>1, <3>2 DEF PlaceInv, Kinds
  <2>5. CASE q = p /\ Shape({"prepared"}, {"signed", "abandoned"})
    <3>1. /\ pc[p] = "prepared" /\ pc'[p] \in {"signed", "abandoned"}
          /\ lines' = lines
      BY <2>5 DEF IInv, TypeOK
    <3>2. QED
      BY <2>1, <2>2, <2>5, <3>1 DEF PlaceInv, Preparing
  <2>6. QED
    BY <1>1, <2>3, <2>4, <2>5
<1>4. CallInv'
  BY <1>1 DEF IInv, CallInv, SubmitInv, RowInv, Complete, TypeOK, Preparing, Kinds
<1>5. LedgerInv'
  BY <1>1 DEF IInv, LedgerInv, Paid
<1>6. QED
  BY <1>2, <1>3, <1>4, <1>5 DEF IInv

\* BuildPayment and BuildRecord: an envelope is numbered from the account read.
LEMMA BuildPreserves ==
  ASSUME IInv, NEW p \in Payouts, BuildPayment(p) \/ BuildRecord(p)
  PROVE  IInv'
<1> USE DEF chainVars, contractVars, envelopeVars, submitVars
<1> DEFINE Shape(k, from, to) ==
      /\ UNCHANGED <<env, staff, edits, seq, other, payments, admin, operators,
                     executed, row, lines, spc, target, recomputed>>
      /\ pc[p] = from
      /\ pc' = [pc EXCEPT ![p] = to]
      /\ \/ UNCHANGED <<status, number>>
         \/ /\ to # "threw"
            /\ k = "pay" => lines[p].wallet > 0
            /\ status' = [status EXCEPT ![p][k] = "built"]
            /\ \E read \in AccountRead :
                 number' = [number EXCEPT ![p][k] = read + 1]
<1>1. \/ Shape("pay", "buildPayment", "buildRecord")
      \/ \E to \in {"prepared", "threw"} : Shape("rec", "buildRecord", to)
  <2>1. CASE BuildPayment(p)
    BY <2>1 DEF BuildPayment, Build, HasPayouts, WalletPart, NextNumber
  <2>2. CASE BuildRecord(p)
    BY <2>2 DEF BuildRecord, Build, NextNumber
  <2>3. QED
    BY <2>1, <2>2
<1>2. \A read \in AccountRead : read \in Nat /\ read <= seq
  BY DEF AccountRead, IInv, TypeOK
<1> HIDE DEF Shape
<1>3. ASSUME NEW k \in Kinds, NEW from, NEW to, Shape(k, from, to),
             <<k, from, to>> \in {<<"pay", "buildPayment", "buildRecord">>,
                                  <<"rec", "buildRecord", "prepared">>,
                                  <<"rec", "buildRecord", "threw">>}
      PROVE  IInv'
  <2>1. /\ UNCHANGED <<env, staff, edits, seq, other, payments, admin, operators,
                       executed, row, lines, spc, target, recomputed>>
        /\ pc[p] \in {"buildPayment", "buildRecord"}
        /\ pc' = [pc EXCEPT ![p] = to]
        /\ to \in {"buildRecord", "prepared", "threw"}
        /\ k = "pay" => pc[p] = "buildPayment" /\ to = "buildRecord"
        /\ k = "rec" => pc[p] = "buildRecord" /\ to # "buildRecord"
    BY <1>3 DEF Shape
  <2>2. \A j \in Kinds : j = k \/ j = Other(k)
    BY DEF Kinds, Other
  <2>3. CASE UNCHANGED <<status, number>>
    <3>1. TypeOK' /\ LedgerInv'
      BY <2>1, <2>3 DEF IInv, TypeOK, Preparing, LedgerInv, Paid
    <3>2. EnvelopeInv'
      BY <2>1, <2>3 DEF IInv, TypeOK, EnvelopeInv, NumberInv, PlaceInv, Viable,
                        Preparing, Kinds
    <3>3. CallInv'
      BY <2>1, <2>3 DEF IInv, CallInv, SubmitInv, RowInv, Complete, TypeOK
    <3>4. QED
      BY <3>1, <3>2, <3>3 DEF IInv
  <2>4. ASSUME NEW read \in AccountRead,
               k = "pay" => lines[p].wallet > 0,
               status' = [status EXCEPT ![p][k] = "built"],
               number' = [number EXCEPT ![p][k] = read + 1]
        PROVE  IInv'
    <3>1. /\ status' \in [Payouts -> [Kinds -> EnvelopeStatus]]
          /\ status'[p][k] = "built"
          /\ \A q \in Payouts, j \in Kinds :
               q # p \/ j # k => status'[q][j] = status[q][j]
      <4>1. "built" \in EnvelopeStatus
        BY DEF EnvelopeStatus
      <4>2. QED
        BY <2>4, <4>1, UpdateFacts DEF IInv, TypeOK
    <3>2. /\ number' \in [Payouts -> [Kinds -> Nat]]
          /\ number'[p][k] = read + 1
          /\ \A q \in Payouts, j \in Kinds :
               q # p \/ j # k => number'[q][j] = number[q][j]
      <4>1. read + 1 \in Nat
        BY <1>2, <2>4
      <4>2. QED
        BY <2>4, <4>1, UpdateFacts DEF IInv, TypeOK
    <3>3. TypeOK'
      BY <2>1, <3>1, <3>2 DEF IInv, TypeOK, Preparing
    <3>4. /\ EnvelopeInv
          /\ status[p][k] = "absent"
          /\ pc[p] # "signed" /\ pc'[p] = to
      BY <2>1 DEF IInv, TypeOK, EnvelopeInv, PlaceInv, Preparing, Kinds
    <3>5. EnvelopeInv'
      <4> SUFFICES ASSUME NEW q \in Payouts
                   PROVE  NumberInv(q)' /\ PlaceInv(q)'
        BY DEF EnvelopeInv
      <4>1. NumberInv(q) /\ PlaceInv(q)
        BY <3>4 DEF EnvelopeInv
      <4>2. CASE q # p
        <5>1. /\ \A j \in Kinds : /\ status'[q][j] = status[q][j]
                                  /\ number'[q][j] = number[q][j]
              /\ pc'[q] = pc[q] /\ lines' = lines /\ seq' = seq
          BY <2>1, <3>1, <3>2, <4>2 DEF IInv, TypeOK
        <5>2. QED
          BY <4>1, <5>1 DEF NumberInv, PlaceInv, Viable, Kinds, Other
      <4>3. CASE q = p
        <5>1. PlaceInv(p)'
          BY <2>1, <2>4, <3>1, <3>4, <4>1, <4>3 DEF PlaceInv, Preparing, Kinds
        <5>2. NumberInv(p)'
          <6>1. /\ read \in Nat /\ read <= seq /\ seq \in Nat /\ seq' = seq
                /\ \A j \in Kinds : number[p][j] \in Nat /\ status[p][j] # "landed"
            BY <1>2, <2>1, <2>4, <3>4, <4>1, <4>3 DEF IInv, TypeOK, PlaceInv
          <6>2. QED
            BY <3>1, <3>2, <4>1, <4>3, <6>1 DEF NumberInv, Viable, Kinds, Other
        <5>3. QED
          BY <4>3, <5>1, <5>2
      <4>4. QED
        BY <4>2, <4>3
    <3>6. CallInv'
      <4>1. Settles
        BY <2>1, <3>1, <3>4 DEF IInv, TypeOK, Settles
      <4>2. QED
        BY <2>1, <4>1, CallInvStable DEF IInv
    <3>7. LedgerInv'
      <4>1. \A q \in Payouts :
              status'[q]["pay"] = "landed" <=> status[q]["pay"] = "landed"
        BY <3>1, <3>4 DEF Kinds
      <4>2. QED
        BY <2>1, <4>1 DEF IInv, LedgerInv, Paid
    <3>8. QED
      BY <3>3, <3>5, <3>6, <3>7 DEF IInv
  <2>5. QED
    BY <1>3, <2>3, <2>4 DEF Shape
<1>4. QED
  BY <1>1, <1>3 DEF Kinds

\* Steps of submitRun that touch no envelope: the call moves on, ends, or dies.
LEMMA SubmitPreserves ==
  ASSUME IInv, NEW s \in Submits, NEW p \in Payouts, NEW k \in Kinds,
         Submit(s, p) \/ SendRefused(s, p, k) \/ Confirm(s, p, k)
         \/ GiveUp(s, p, k) \/ InsertRefused(s, p)
  PROVE  IInv'
<1> USE DEF Submit, SendRefused, Confirm, GiveUp, InsertRefused, Goto, chainVars,
            contractVars, envelopeVars, prepareVars
<1>1. UNCHANGED <<env, staff, edits, seq, other, payments, admin, operators,
                  executed, row, pc, lines, status, number>>
  OBVIOUS
<1>2. EnvelopeInv' /\ LedgerInv'
  BY <1>1 DEF IInv, EnvelopeInv, NumberInv, PlaceInv, Viable, LedgerInv, Paid
<1>3. Settles
  BY <1>1 DEF Settles
<1>4. ASSUME NEW place \in Submitting \cup Over,
             spc' = [spc EXCEPT ![s] = place],
             target' = [target EXCEPT ![s] = p],
             recomputed' \in [Submits -> Staffs],
             SubmitInv(s)'
      PROVE  IInv'
  <2>1. TypeOK'
    BY <1>1, <1>4 DEF IInv, TypeOK
  <2>2. \A q \in Payouts : RowInv(q)'
    BY <1>1, <1>3, RowInvStable DEF IInv, CallInv
  <2>3. ASSUME NEW t \in Submits
        PROVE  SubmitInv(t)'
    <3>1. CASE t # s
      <4>1. spc'[t] = spc[t] /\ target'[t] = target[t]
        BY <1>4, <3>1 DEF IInv, TypeOK
      <4>2. QED
        BY <1>1, <1>3, <4>1, SubmitInvStable DEF IInv, TypeOK, CallInv
    <3>2. CASE t = s
      BY <1>4, <3>2
    <3>3. QED
      BY <3>1, <3>2
  <2>4. QED
    BY <1>2, <2>1, <2>2, <2>3 DEF IInv, CallInv
<1>5. /\ spc \in [Submits -> {"idle"} \cup Submitting \cup Over]
      /\ target \in [Submits -> Payouts \cup {None}]
      /\ recomputed \in [Submits -> Staffs] /\ staff \in Staffs
      /\ SubmitInv(s)
  BY DEF IInv, TypeOK, CallInv
<1>6. CASE Submit(s, p)
  <2> DEFINE place == IF \E j \in Kinds : status[p][j] # "absent"
                      THEN FirstEnvelope(p) ELSE "threw"
  <2>1. place \in {"pay", "rec", "insert", "threw"}
    BY DEF FirstEnvelope, AfterPayment
  <2>2. /\ pc'[p] = "signed" /\ status' = status /\ env' = env
        /\ spc'[s] = place /\ target'[s] = p
        /\ spc' = [spc EXCEPT ![s] = place]
        /\ target' = [target EXCEPT ![s] = p]
    BY <1>1, <1>5, <1>6
  <2>3. /\ place = "rec" => status[p]["rec"] # "absent" /\ status[p]["pay"] = "absent"
        /\ place # "insert"
    BY DEF FirstEnvelope, AfterPayment, Kinds
  <2> HIDE DEF place
  <2>4. SubmitInv(s)'
    BY <2>1, <2>2, <2>3 DEF SubmitInv
  <2>5. recomputed' \in [Submits -> Staffs]
    BY <1>5, <1>6 DEF LinesFor
  <2>6. QED
    BY <1>4, <2>1, <2>2, <2>4, <2>5 DEF Submitting, Waiting, Over
<1>7. CASE Confirm(s, p, k)
  <2>1. /\ spc' = [spc EXCEPT ![s] = After(p, k)] /\ target' = target
        /\ recomputed' = recomputed /\ target[s] = p
        /\ spc[s] = WaitFor(k) /\ status[p][k] = "landed"
        /\ After(p, k) \in {"rec", "insert"}
    BY <1>7 DEF Confirmed, After, AfterPayment
  <2>2. /\ pc'[p] = "signed" /\ status' = status /\ env' = env
        /\ spc'[s] = After(p, k) /\ target'[s] = p
        /\ target' = [target EXCEPT ![s] = p]
    BY <1>1, <1>5, <2>1 DEF SubmitInv
  <2>3. /\ After(p, k) = "rec" => k = "pay" /\ status[p]["rec"] # "absent"
        /\ After(p, k) = "insert" /\ ~env.relayer => Complete(p)
    BY <1>5, <2>1 DEF SubmitInv, After, AfterPayment, WaitFor, Complete, Kinds
  <2>4. Complete(p) => Complete(p)'
    BY <2>2 DEF Complete
  <2>5. SubmitInv(s)'
    BY <2>1, <2>2, <2>3, <2>4 DEF SubmitInv, Complete
  <2>6. QED
    BY <1>4, <1>5, <2>1, <2>2, <2>5 DEF Submitting, Waiting, Over
<1>8. CASE SendRefused(s, p, k) \/ GiveUp(s, p, k) \/ InsertRefused(s, p)
  <2>1. /\ spc' = [spc EXCEPT ![s] = "threw"] /\ target' = target
        /\ recomputed' = recomputed /\ target[s] = p
    BY <1>8
  <2>2. /\ pc'[p] = pc[p] /\ (spc[s] # "idle" \/ pc[p] = "signed")
        /\ spc'[s] = "threw" /\ target'[s] = p
        /\ target' = [target EXCEPT ![s] = p]
    BY <1>1, <1>5, <2>1 DEF SubmitInv
  <2>3. SubmitInv(s)'
    BY <1>1, <1>5, <2>1, <2>2 DEF SubmitInv, Submitting, Waiting
  <2>4. QED
    BY <1>4, <1>5, <2>1, <2>2, <2>3 DEF Over
<1>9. QED
  BY <1>6, <1>7, <1>8

\* Steps that hand an envelope to the network or to the relayer.
LEMMA SendPreserves ==
  ASSUME IInv, NEW s \in Submits, NEW p \in Payouts, NEW k \in Kinds,
         Send(s, p, k) \/ Relay(s, p, k)
  PROVE  IInv'
<1> USE DEF chainVars, contractVars, prepareVars, Goto
<1>1. /\ UNCHANGED <<env, staff, edits, seq, other, payments, admin, operators,
                     executed, row, pc, lines, number, target, recomputed>>
      /\ target[s] = p /\ spc[s] = k
      /\ \/ status' = status
         \/ /\ status[p][k] \in {"built", "pending"}
            /\ status' = [status EXCEPT ![p][k] = "pending"]
      /\ \/ spc' = [spc EXCEPT ![s] = WaitFor(k)]
         \/ env.relayer /\ \E next \in {After(p, k), "threw"} :
                              spc' = [spc EXCEPT ![s] = next]
  BY DEF Send, Relay
<1>2. pc[p] = "signed"
  BY <1>1 DEF IInv, CallInv, SubmitInv
<1>3. /\ status' \in [Payouts -> [Kinds -> EnvelopeStatus]]
      /\ \A q \in Payouts, j \in Kinds :
           \/ status'[q][j] = status[q][j]
           \/ /\ q = p
              /\ status[q][j] \in {"built", "pending"}
              /\ status'[q][j] = "pending"
  <2>1. CASE status' = status
    BY <2>1 DEF IInv, TypeOK
  <2>2. CASE /\ status[p][k] \in {"built", "pending"}
             /\ status' = [status EXCEPT ![p][k] = "pending"]
    <3>1. "pending" \in EnvelopeStatus
      BY DEF EnvelopeStatus
    <3>2. QED
      BY <2>2, <3>1, UpdateFacts DEF IInv, TypeOK
  <2>3. QED
    BY <1>1, <2>1, <2>2
<1>4. \E place \in {WaitFor(k), After(p, k), "threw"} :
        /\ spc' = [spc EXCEPT ![s] = place]
        /\ place # WaitFor(k) => env.relayer
  BY <1>1
<1>5. {WaitFor(k), After(p, k), "threw"} \subseteq Submitting \cup Over
  BY DEF WaitFor, After, AfterPayment, Submitting, Waiting, Over
<1>6. TypeOK'
  BY <1>1, <1>3, <1>4, <1>5 DEF IInv, TypeOK
<1>7. EnvelopeInv'
  <2> SUFFICES ASSUME NEW q \in Payouts
               PROVE  NumberInv(q)' /\ PlaceInv(q)'
    BY DEF EnvelopeInv
  <2>1. NumberInv(q) /\ PlaceInv(q)
    BY DEF IInv, EnvelopeInv
  <2>2. NumberInv(q)'
    BY <1>1, <1>3, <2>1 DEF NumberInv, Viable, Kinds, Other
  <2>3. PlaceInv(q)'
    BY <1>1, <1>2, <1>3, <2>1 DEF PlaceInv, Preparing, Kinds
  <2>4. QED
    BY <2>2, <2>3
<1>8. Settles
  BY <1>1, <1>3 DEF Settles
<1>9. CallInv'
  <2>1. \A q \in Payouts : RowInv(q)'
    BY <1>1, <1>8, RowInvStable DEF IInv, CallInv
  <2>2. ASSUME NEW t \in Submits
        PROVE  SubmitInv(t)'
    <3>1. CASE t # s
      <4>1. spc'[t] = spc[t] /\ target'[t] = target[t]
        BY <1>1, <1>4, <3>1 DEF IInv, TypeOK
      <4>2. QED
        BY <1>1, <1>8, <4>1, SubmitInvStable DEF IInv, TypeOK, CallInv
    <3>2. CASE t = s
      <4>1. SubmitInv(s) /\ spc \in [Submits -> {"idle"} \cup Submitting \cup Over]
        BY DEF IInv, TypeOK, CallInv
      <4>2. /\ target'[s] = p /\ pc'[p] = "signed" /\ env' = env
            /\ spc'[s] \in {WaitFor(k), After(p, k), "threw"}
            /\ spc'[s] # WaitFor(k) => env.relayer
        BY <1>1, <1>2, <1>4, <4>1
      <4>3. /\ k = "rec" => status'[p]["rec"] # "absent"
            /\ k = "rec" /\ ~env.relayer => status'[p]["pay"] \in {"landed", "absent"}
            /\ After(p, k) = "rec" => status'[p]["rec"] # "absent"
        BY <1>1, <1>3, <4>1 DEF SubmitInv, After, AfterPayment, Kinds
      <4>4. /\ spc'[s] = "rec" => After(p, k) = "rec" /\ env.relayer
            /\ spc'[s] = "recWait" => k = "rec"
            /\ spc'[s] = "insert" => env.relayer
        BY <4>2 DEF WaitFor, After, AfterPayment, Kinds
      <4>5. QED
        BY <3>2, <4>2, <4>3, <4>4 DEF SubmitInv
    <3>3. QED
      BY <3>1, <3>2
  <2>3. QED
    BY <2>1, <2>2 DEF CallInv
<1>10. LedgerInv'
  <2>1. \A q \in Payouts :
          status'[q]["pay"] = "landed" <=> status[q]["pay"] = "landed"
    BY <1>3 DEF Kinds
  <2>2. QED
    BY <1>1, <2>1 DEF IInv, LedgerInv, Paid
<1>11. QED
  BY <1>6, <1>7, <1>9, <1>10 DEF IInv

\* The row is written by a call that has seen every envelope land.
LEMMA InsertPreserves ==
  ASSUME IInv, NEW s \in Submits, NEW p \in Payouts, InsertRun(s, p)
  PROVE  IInv'
<1> USE DEF InsertRun, chainVars, contractVars, envelopeVars, prepareVars, Goto
<1>1. recomputed[s].total \in Nat
  BY CustodyAssumption DEF IInv, TypeOK, Staff
<1>2. TypeOK'
  BY <1>1 DEF IInv, TypeOK, Over
<1>3. EnvelopeInv' /\ LedgerInv'
  BY DEF IInv, EnvelopeInv, NumberInv, PlaceInv, Viable, LedgerInv, Paid
<1>4. CallInv'
  BY DEF IInv, CallInv, SubmitInv, RowInv, Complete, TypeOK, Submitting, Waiting
<1>5. QED
  BY <1>2, <1>3, <1>4 DEF IInv

LEMMA CrashPreserves ==
  ASSUME IInv, Crash
  PROVE  IInv'
<1> USE DEF Crash, chainVars, contractVars, envelopeVars
<1>1. TypeOK'
  BY DEF IInv, TypeOK, Preparing, Over
<1>2. EnvelopeInv'
  <2> SUFFICES ASSUME NEW q \in Payouts
               PROVE  NumberInv(q)' /\ PlaceInv(q)'
    BY DEF EnvelopeInv
  <2>1. NumberInv(q) /\ PlaceInv(q)
    BY DEF IInv, EnvelopeInv
  <2>2. pc'[q] = pc[q] \/ (pc[q] \in Preparing /\ pc'[q] = "threw")
    OBVIOUS
  <2>3. NumberInv(q)'
    BY <2>1 DEF NumberInv, Viable
  <2>4. PlaceInv(q)'
    BY <2>1, <2>2 DEF PlaceInv, Preparing
  <2>5. QED
    BY <2>3, <2>4
<1>3. CallInv'
  BY DEF IInv, CallInv, SubmitInv, RowInv, Complete, TypeOK, Submitting, Waiting,
         Preparing
<1>4. LedgerInv'
  BY DEF IInv, LedgerInv, Paid
<1>5. QED
  BY <1>1, <1>2, <1>3, <1>4 DEF IInv

\* An envelope leaves the queue, or is too old: it lands, fails or expires.
LEMMA ChainPreserves ==
  ASSUME IInv, NEW p \in Payouts, NEW k \in Kinds, Chain(p, k)
  PROVE  IInv'
<1> USE DEF chainVars, contractVars, prepareVars, submitVars
<1>1. /\ UNCHANGED <<env, staff, edits, other, row, pc, lines, number, spc, target,
                     recomputed, admin, operators>>
      /\ executed' \subseteq executed \cup {p}
  BY DEF Chain, Land, FailOnLedger, Expire, Effect, Contract!ExecuteRun,
         Contract!MarkExecuted, Kinds
<1>2. \E outcome \in {"landed", "failed", "expired"} :
        /\ status' = [status EXCEPT ![p][k] = outcome]
        /\ outcome # "expired" => /\ status[p][k] = "pending"
                                  /\ InTurn(p, k) /\ seq' = seq + 1
        /\ outcome = "expired" => /\ status[p][k] \in {"built", "pending"}
                                  /\ seq' = seq
        /\ outcome = "landed" /\ k = "pay" =>
             payments' = Append(payments,
                           [run |-> p, total |-> lines[p].wallet, count |-> 1])
        /\ outcome # "landed" \/ k # "pay" => payments' = payments
  BY DEF Chain, Land, FailOnLedger, Expire, Effect, WalletPart, Kinds
<1>3. PICK outcome \in {"landed", "failed", "expired"} :
        /\ status' = [status EXCEPT ![p][k] = outcome]
        /\ outcome # "expired" => /\ status[p][k] = "pending"
                                  /\ InTurn(p, k) /\ seq' = seq + 1
        /\ outcome = "expired" => /\ status[p][k] \in {"built", "pending"}
                                  /\ seq' = seq
        /\ outcome = "landed" /\ k = "pay" =>
             payments' = Append(payments,
                           [run |-> p, total |-> lines[p].wallet, count |-> 1])
        /\ outcome # "landed" \/ k # "pay" => payments' = payments
  BY <1>2
<1>4. /\ status' \in [Payouts -> [Kinds -> EnvelopeStatus]]
      /\ status'[p][k] = outcome
      /\ \A q \in Payouts, j \in Kinds :
           q # p \/ j # k => status'[q][j] = status[q][j]
  <2>1. outcome \in EnvelopeStatus
    BY DEF EnvelopeStatus
  <2>2. QED
    BY <1>3, <2>1, UpdateFacts DEF IInv, TypeOK
<1>5. /\ seq \in Nat /\ seq' \in Nat /\ seq <= seq'
      /\ number \in [Payouts -> [Kinds -> Nat]]
  BY <1>3 DEF IInv, TypeOK
<1>6. status[p][k] \in {"built", "pending"}
  BY <1>3
<1>7. EnvelopeInv'
  <2> SUFFICES ASSUME NEW q \in Payouts
               PROVE  NumberInv(q)' /\ PlaceInv(q)'
    BY DEF EnvelopeInv
  <2>1. NumberInv(q) /\ PlaceInv(q)
    BY DEF IInv, EnvelopeInv
  <2>2. NumberInv(q)'
    <3>1. CASE q # p
      <4>1. \A j \in Kinds : status'[q][j] = status[q][j] /\ number'[q][j] = number[q][j]
        BY <1>1, <1>4, <3>1
      <4>2. QED
        BY <1>5, <2>1, <4>1 DEF NumberInv, Viable, Kinds, Other
    <3>2. CASE q = p /\ outcome = "expired"
      BY <1>1, <1>3, <1>4, <1>5, <1>6, <2>1, <3>2 DEF NumberInv, Viable, Kinds, Other
    <3>3. CASE q = p /\ outcome # "expired"
      <4>1. number[p][k] = seq + 1 /\ seq' = seq + 1 /\ Viable(p, k)
        BY <1>3, <1>5, <3>3 DEF InTurn, Viable
      <4>2. QED
        BY <1>1, <1>4, <1>5, <1>6, <2>1, <3>3, <4>1
           DEF NumberInv, Viable, Kinds, Other
    <3>4. QED
      BY <3>1, <3>2, <3>3
  <2>3. PlaceInv(q)'
    BY <1>1, <1>3, <1>4, <1>6, <2>1 DEF PlaceInv, Preparing, Kinds
  <2>4. QED
    BY <2>2, <2>3
<1>8. TypeOK'
  <2>1. payments' \in Seq([run : Payouts, total : Nat, count : {1}])
    <3>1. lines[p].wallet \in Nat
      BY CustodyAssumption DEF IInv, TypeOK, Staff
    <3>2. CASE outcome = "landed" /\ k = "pay"
      <4> DEFINE e == [run |-> p, total |-> lines[p].wallet, count |-> 1]
                 Entry == [run : Payouts, total : Nat, count : {1}]
      <4>1. e \in Entry /\ payments \in Seq(Entry)
        BY <3>1 DEF IInv, TypeOK
      <4>2. payments' = Append(payments, e)
        BY <1>3, <3>2
      <4> HIDE DEF e, Entry
      <4>3. payments' \in Seq(Entry)
        BY <4>1, <4>2, AppendFacts
      <4>4. QED
        BY <4>3 DEF Entry
    <3>3. CASE outcome # "landed" \/ k # "pay"
      BY <1>3, <3>3 DEF IInv, TypeOK
    <3>4. QED
      BY <3>2, <3>3
  <2>2. QED
    BY <1>1, <1>4, <1>5, <2>1 DEF IInv, TypeOK
<1>9. CallInv'
  <2>1. Settles
    BY <1>1, <1>4, <1>6, <1>3 DEF Settles
  <2>2. QED
    BY <1>1, <2>1, CallInvStable DEF IInv
<1>10. LedgerInv'
  <2>1. CASE outcome = "landed" /\ k = "pay"
    <3> DEFINE e == [run |-> p, total |-> lines[p].wallet, count |-> 1]
    <3>1. /\ payments \in Seq([run : Payouts, total : Nat, count : {1}])
          /\ e \in [run : Payouts, total : Nat, count : {1}]
      BY CustodyAssumption DEF IInv, TypeOK, Staff
    <3>2. payments' = Append(payments, e) /\ e.run = p
      BY <1>3, <2>1
    <3> HIDE DEF e
    <3>3. Paid' = Paid \cup {p}
      <4>1. /\ DOMAIN payments = 1..Len(payments) /\ Len(payments) \in Nat
            /\ DOMAIN payments' = 1..(Len(payments) + 1)
            /\ \A i \in 1..Len(payments) : payments'[i] = payments[i]
            /\ payments'[Len(payments) + 1].run = p
        BY <3>1, <3>2, AppendFacts
      <4>2. DOMAIN payments' = DOMAIN payments \cup {Len(payments) + 1}
        BY <4>1
      <4> QED
        BY <4>1, <4>2 DEF Paid
    <3>4. \A q \in Payouts : status'[q]["pay"] = "landed"
                            <=> status[q]["pay"] = "landed" \/ q = p
      BY <1>4, <2>1 DEF Kinds
    <3>5. QED
      BY <3>3, <3>4 DEF IInv, LedgerInv
  <2>2. CASE outcome # "landed" \/ k # "pay"
    <3>1. \A q \in Payouts :
            status'[q]["pay"] = "landed" <=> status[q]["pay"] = "landed"
      BY <1>4, <1>6, <2>2 DEF Kinds
    <3>2. QED
      BY <1>3, <2>2, <3>1 DEF IInv, LedgerInv, Paid
  <2>3. QED
    BY <2>1, <2>2
<1>11. QED
  BY <1>7, <1>8, <1>9, <1>10 DEF IInv

\* The wallet's other business and the tenant's edits.
LEMMA SurroundingsPreserve ==
  ASSUME IInv, OtherTransaction \/ EditStaff \/ UNCHANGED vars
  PROVE  IInv'
<1> USE DEF chainVars, contractVars, prepareVars, envelopeVars, submitVars
<1>1. /\ UNCHANGED <<env, payments, admin, operators, executed, row, pc, lines,
                     status, number, spc, target, recomputed>>
      /\ seq \in Nat /\ seq' \in Nat /\ seq <= seq'
      /\ edits' \in Nat /\ other' \in Nat /\ staff' \in Staffs
  BY DEF OtherTransaction, EditStaff, vars, IInv, TypeOK
<1>2. TypeOK' /\ LedgerInv'
  BY <1>1 DEF IInv, TypeOK, LedgerInv, Paid
<1>3. EnvelopeInv'
  <2> SUFFICES ASSUME NEW q \in Payouts
               PROVE  NumberInv(q)' /\ PlaceInv(q)'
    BY DEF EnvelopeInv
  <2>1. NumberInv(q) /\ PlaceInv(q) /\ number \in [Payouts -> [Kinds -> Nat]]
    BY DEF IInv, TypeOK, EnvelopeInv
  <2>2. QED
    BY <1>1, <2>1 DEF NumberInv, PlaceInv, Viable, Kinds, Other
<1>4. CallInv'
  BY <1>1 DEF IInv, CallInv, SubmitInv, RowInv, Complete
<1>5. QED
  BY <1>2, <1>3, <1>4 DEF IInv

\* Every reachable state satisfies the inductive invariant.
THEOREM InvariantHolds == Spec => []IInv
<1>1. IInv /\ [Next]_vars => IInv'
  BY PreparePreserves, BuildPreserves, SubmitPreserves, SendPreserves,
     InsertPreserves, CrashPreserves, ChainPreserves, SurroundingsPreserve
     DEF Next, Prepare, SubmitStep, Kinds
<1>2. QED
  BY <1>1, InitEstablishes, PTL DEF Spec

\* Every variable keeps its type.
THEOREM TypesHold == Spec => []TypeOK
<1>1. IInv => TypeOK
  BY DEF IInv
<1>2. QED
  BY <1>1, InvariantHolds, PTL

\* The two envelopes of a payout never both land.
THEOREM NeverBothLandHolds == Spec => []NeverBothLand
<1>1. IInv => NeverBothLand
  BY DEF IInv, EnvelopeInv, NumberInv, NeverBothLand, Kinds, Other
<1>2. QED
  BY <1>1, InvariantHolds, PTL

\* Without a relayer a completed row means every envelope of the run landed.
THEOREM CompletedMeansLandedHolds == Spec => []CompletedMeansLanded
<1>1. IInv => CompletedMeansLanded
  BY DEF IInv, CallInv, RowInv, Complete, CompletedMeansLanded
<1>2. QED
  BY <1>1, InvariantHolds, PTL

\* Only a payment that lands touches the ledger of payments.
LEMMA PaymentsChangeByLanding ==
  ASSUME [Next]_vars
  PROVE  \/ payments' = payments
         \/ \E p \in Payouts :
              /\ status[p]["pay"] = "pending"
              /\ payments' = Append(payments,
                               [run |-> p, total |-> lines[p].wallet, count |-> 1])
<1> USE DEF chainVars
<1>1. ASSUME NEW p \in Payouts, NEW k \in Kinds, Chain(p, k)
      PROVE  \/ payments' = payments
             \/ /\ status[p]["pay"] = "pending"
                /\ payments' = Append(payments,
                                 [run |-> p, total |-> lines[p].wallet, count |-> 1])
  BY <1>1 DEF Chain, Land, FailOnLedger, Expire, Effect, WalletPart, Kinds
<1>2. ASSUME NEW p \in Payouts, Prepare(p)
      PROVE  payments' = payments
  BY <1>2 DEF Prepare, ReadLines, CheckOperator, AddOperator, AddOperatorFails,
              BuildPayment, BuildRecord, Sign
<1>3. ASSUME NEW s \in Submits, NEW p \in Payouts, Submit(s, p) \/ SubmitStep(s, p)
      PROVE  payments' = payments
  BY <1>3 DEF Submit, SubmitStep, Send, SendRefused, Relay, Confirm, GiveUp,
              InsertRun, InsertRefused
<1>4. CASE Crash \/ OtherTransaction \/ EditStaff \/ UNCHANGED vars
  BY <1>4 DEF Crash, OtherTransaction, EditStaff, vars
<1>5. QED
  BY <1>1, <1>2, <1>3, <1>4 DEF Next

\* The wallet's payments are a ledger of distinct run ids, each entry positive.
THEOREM PaymentsImplementLedger == Spec => PaidLikeALedger
<1>1. Init => PaymentLedger!Init
  BY DEF Init, PaymentLedger!Init
<1>2. IInv /\ [Next]_vars => [PaymentLedger!Next]_payments
  <2> SUFFICES ASSUME IInv, [Next]_vars, payments' # payments
               PROVE  PaymentLedger!Next
    OBVIOUS
  <2>1. PICK p \in Payouts :
          /\ status[p]["pay"] = "pending"
          /\ payments' = Append(payments,
                           [run |-> p, total |-> lines[p].wallet, count |-> 1])
    BY PaymentsChangeByLanding
  <2>2. lines[p] \in Staffs /\ lines[p].wallet \in Nat /\ lines[p].wallet > 0
    BY <2>1, CustodyAssumption DEF IInv, TypeOK, EnvelopeInv, PlaceInv, Staff
  <2>3. p \notin {payments[i].run : i \in DOMAIN payments}
    BY <2>1 DEF IInv, LedgerInv, Paid
  <2>4. PaymentLedger!Settle(p, lines[p].wallet, 1)
    BY <2>1, <2>2, <2>3 DEF PaymentLedger!Settle, PaymentLedger!Settled
  <2>5. QED
    BY <2>2, <2>4 DEF PaymentLedger!Next
<1>3. QED
  BY <1>1, <1>2, InvariantHolds, PTL DEF Spec, PaidLikeALedger, PaymentLedger!Spec


-----------------------------------------------------------------------------
(* One story.  While no edit has happened every payout was built on, and   *)
(* every submission recomputed, the lines that are still the schedule's:   *)
(* whatever wrote a row, an event or a payment wrote it of those lines.    *)

AgreeInv ==
  edits = 0 =>
    /\ \A p \in Payouts : lines[p] = staff /\ row[p] \in {None, staff.total}
    /\ \A s \in Submits : recomputed[s] = staff
    /\ events \in Seq(Contract!RunEvent)
    /\ \A i \in DOMAIN events : events[i].total = staff.total
    /\ \A i \in DOMAIN payments : payments[i].total = staff.wallet

\* A step of a call that moves no money and logs no run.
LEMMA CallKeepsAgree ==
  ASSUME IInv, AgreeInv, UNCHANGED <<staff, edits, payments, events>>,
         \A p \in Payouts : lines'[p] \in {lines[p], staff},
         \A s \in Submits : recomputed'[s] \in {recomputed[s], staff},
         \A p \in Payouts : \/ row'[p] = row[p]
                            \/ \E s \in Submits : row'[p] = recomputed[s].total
  PROVE  AgreeInv'
BY DEF AgreeInv

\* A transaction of the wallet that lands writes the lines it was built on.
LEMMA LandKeepsAgree ==
  ASSUME IInv, AgreeInv, NEW p \in Payouts, NEW k \in Kinds, Chain(p, k)
  PROVE  AgreeInv'
<1> SUFFICES ASSUME edits = 0
             PROVE  AgreeInv'
  BY DEF AgreeInv, Chain, Land, FailOnLedger, Expire
<1>1. UNCHANGED <<staff, edits, row, lines, recomputed>>
  BY DEF Chain, Land, FailOnLedger, Expire, prepareVars, submitVars
<1>2. /\ lines[p] = staff /\ staff \in Staffs /\ staff.total \in Nat
      /\ staff.wallet \in Nat
      /\ events \in Seq(Contract!RunEvent)
      /\ payments \in Seq([run : Payouts, total : Nat, count : {1}])
      /\ \A i \in DOMAIN events : events[i].total = staff.total
      /\ \A i \in DOMAIN payments : payments[i].total = staff.wallet
  BY CustodyAssumption DEF AgreeInv, IInv, TypeOK, Staff
<1>3. CASE UNCHANGED <<payments, events>>
  BY <1>1, <1>3 DEF AgreeInv
<1>4. CASE Land(p, k) /\ k = "pay"
  <2> DEFINE e == [run |-> p, total |-> staff.wallet, count |-> 1]
             Entry == [run : Payouts, total : Nat, count : {1}]
  <2>1. events' = events /\ payments' = Append(payments, e)
    BY <1>2, <1>4 DEF Land, Effect, WalletPart, contractVars
  <2>2. e \in Entry /\ e.total = staff.wallet /\ payments \in Seq(Entry)
    BY <1>2
  <2> HIDE DEF e, Entry
  <2>3. \A i \in DOMAIN payments' : payments'[i].total = staff.wallet
    <3>1. /\ DOMAIN payments = 1..Len(payments) /\ Len(payments) \in Nat
          /\ DOMAIN payments' = 1..(Len(payments) + 1)
          /\ \A i \in 1..Len(payments) : payments'[i] = payments[i]
          /\ payments'[Len(payments) + 1] = e
      BY <2>1, <2>2, AppendFacts
    <3>2. QED
      BY <1>2, <2>2, <3>1
  <2>4. QED
    BY <1>1, <2>1, <2>3 DEF AgreeInv
<1>5. CASE Land(p, k) /\ k = "rec"
  <2> DEFINE e == [run |-> p, total |-> staff.total, count |-> 1,
                   trigger |-> Contract!TriggerOf(Wallet)]
  <2>1. payments' = payments /\ events' = Append(events, e)
    BY <1>2, <1>5 DEF Land, Effect, Contract!ExecuteRun
  <2>2. e \in Contract!RunEvent /\ e.total = staff.total
    BY <1>2 DEF Contract!RunEvent, Contract!Trigger, Contract!TriggerOf
  <2> HIDE DEF e
  <2>3. /\ events' \in Seq(Contract!RunEvent)
        /\ \A i \in DOMAIN events' : events'[i].total = staff.total
    <3>1. /\ DOMAIN events = 1..Len(events) /\ Len(events) \in Nat
          /\ DOMAIN events' = 1..(Len(events) + 1)
          /\ \A i \in 1..Len(events) : events'[i] = events[i]
          /\ events'[Len(events) + 1] = e
          /\ events' \in Seq(Contract!RunEvent)
      BY <1>2, <2>1, <2>2, AppendFacts
    <3>2. QED
      BY <1>2, <2>2, <3>1
  <2>4. QED
    BY <1>1, <2>1, <2>3 DEF AgreeInv
<1>6. QED
  BY <1>3, <1>4, <1>5 DEF Chain, FailOnLedger, Expire, chainVars, contractVars, Kinds

\* While the tenant leaves its staff alone, the row, the contract and the
\* payment of a run agree, whatever fails and however often it is submitted.
THEOREM BooksAgreeHolds == Spec => []BooksAgree
<1>1. Init => AgreeInv
  BY CustodyAssumption DEF Init, AgreeInv
<1>2. ASSUME IInv, AgreeInv, [Next]_vars
      PROVE  AgreeInv'
  <2> USE DEF chainVars, contractVars, prepareVars, envelopeVars, submitVars
  <2>1. ASSUME NEW p \in Payouts, Prepare(p)
        PROVE  AgreeInv'
    <3>1. /\ UNCHANGED <<staff, edits, payments, events, row, recomputed>>
          /\ \A q \in Payouts : lines'[q] \in {lines[q], staff}
      BY <1>2, <2>1 DEF Prepare, ReadLines, CheckOperator, AddOperator,
         AddOperatorFails, BuildPayment, BuildRecord, Sign, Contract!AddOperator,
         IInv, TypeOK
    <3>2. QED
      BY <1>2, <3>1, CallKeepsAgree
  <2>2. ASSUME NEW s \in Submits, NEW p \in Payouts, Submit(s, p)
        PROVE  AgreeInv'
    <3>1. /\ UNCHANGED <<staff, edits, payments, events, row, lines>>
          /\ \A t \in Submits : recomputed'[t] \in {recomputed[t], staff}
      BY <1>2, <2>2 DEF Submit, LinesFor, IInv, TypeOK
    <3>2. QED
      BY <1>2, <3>1, CallKeepsAgree
  <2>3. ASSUME NEW s \in Submits, NEW p \in Payouts, SubmitStep(s, p)
        PROVE  AgreeInv'
    <3>1. /\ UNCHANGED <<staff, edits, payments, events, lines, recomputed>>
          /\ \A q \in Payouts : \/ row'[q] = row[q]
                                \/ \E t \in Submits : row'[q] = recomputed[t].total
      BY <1>2, <2>3 DEF SubmitStep, Send, SendRefused, Relay, Confirm, GiveUp,
         InsertRun, InsertRefused, IInv, TypeOK
    <3>2. QED
      BY <1>2, <3>1, CallKeepsAgree
  <2>4. ASSUME NEW p \in Payouts, NEW k \in Kinds, Chain(p, k)
        PROVE  AgreeInv'
    BY <1>2, <2>4, LandKeepsAgree
  <2>5. CASE EditStaff
    BY <1>2, <2>5 DEF EditStaff, AgreeInv, IInv, TypeOK
  <2>6. CASE Crash \/ OtherTransaction \/ UNCHANGED vars
    <3>1. UNCHANGED <<staff, edits, payments, events, row, lines, recomputed>>
      BY <2>6 DEF Crash, OtherTransaction, vars
    <3>2. QED
      BY <1>2, <3>1, CallKeepsAgree
  <2>7. QED
    BY <1>2, <2>1, <2>2, <2>3, <2>4, <2>5, <2>6 DEF Next
<1>3. IInv /\ AgreeInv => BooksAgree
  <2> SUFFICES ASSUME IInv, AgreeInv, edits = 0
               PROVE  /\ \A i \in DOMAIN events :
                           row[events[i].run] \in {None, events[i].total}
                      /\ \A i \in DOMAIN payments :
                           row[payments[i].run] # None =>
                             row[payments[i].run] >= payments[i].total
    BY DEF BooksAgree
  <2>1. /\ \A i \in DOMAIN events : events[i].run \in Payouts
        /\ \A i \in DOMAIN payments : payments[i].run \in Payouts
    <3>1. \A i \in DOMAIN events : events[i] \in Contract!RunEvent
      <4>1. events \in Seq(Contract!RunEvent)
        BY DEF AgreeInv
      <4>2. QED
        BY <4>1, EntryFacts
    <3>2. \A i \in DOMAIN payments :
            payments[i] \in [run : Payouts, total : Nat, count : {1}]
      <4>1. payments \in Seq([run : Payouts, total : Nat, count : {1}])
        BY DEF IInv, TypeOK
      <4>2. QED
        BY <4>1, EntryFacts
    <3>3. QED
      BY <3>1, <3>2 DEF Contract!RunEvent
  <2>2. staff.wallet <= staff.total /\ staff.wallet \in Nat /\ staff.total \in Nat
    BY CustodyAssumption DEF IInv, TypeOK, Staff
  <2>3. QED
    BY <2>1, <2>2 DEF AgreeInv
<1>4. QED
  BY <1>1, <1>2, <1>3, InvariantHolds, PTL DEF Spec


-----------------------------------------------------------------------------
(* The two ledgers of a payout: the wallet's payments and the contract's   *)
(* events.  What is proved of the contract on its own is reused: a step    *)
(* here is one of its entry points or leaves it alone.                     *)

ContractProofs == INSTANCE PayrollContract_proofs WITH
  Addresses <- {Service, Wallet}, RunIds <- Payouts,
  Totals <- {s.total : s \in Staffs}, Counts <- {1}

ContractInv ==
  Contract!TypeOK /\ Contract!SettledOnce /\ Contract!IndexMatchesEvents

LEMMA ContractInvIs == ContractInv <=> ContractProofs!Inv
BY DEF ContractInv, Contract!TypeOK, Contract!SettledOnce, Contract!RunEvent,
       Contract!Trigger, Contract!IndexMatchesEvents, ContractProofs!Inv,
       ContractProofs!TypeOK, ContractProofs!SettledOnce, ContractProofs!RunEvent,
       ContractProofs!Trigger, ContractProofs!IndexMatchesEvents

LEMMA ContractAssumed == ContractProofs!ContractAssumption
BY CustodyAssumption DEF ContractProofs!ContractAssumption, Staff

\* The service adds the wallet as an operator, the wallet records a run, and
\* nothing else reaches the contract.
LEMMA StepCallsContract ==
  ASSUME IInv, [Next]_vars
  PROVE  [ContractProofs!Next]_contractVars
<1> USE DEF contractVars, chainVars
<1>1. ASSUME NEW p \in Payouts, Land(p, "rec")
      PROVE  ContractProofs!Next
  <2>1. lines[p].total \in {s.total : s \in Staffs}
    BY DEF IInv, TypeOK
  <2>2. ContractProofs!ExecuteRun(Wallet, Wallet, p, lines[p].total, 1)
    BY <1>1 DEF Land, Effect, Contract!ExecuteRun, Contract!MayTrigger,
                Contract!ValidRun, Contract!NotExecuted, Contract!MarkExecuted,
                Contract!TriggerOf, ContractProofs!ExecuteRun,
                ContractProofs!MayTrigger, ContractProofs!ValidRun,
                ContractProofs!NotExecuted, ContractProofs!MarkExecuted,
                ContractProofs!TriggerOf
  <2>3. QED
    BY <2>1, <2>2 DEF ContractProofs!Next
<1>2. ASSUME NEW p \in Payouts, AddOperator(p)
      PROVE  ContractProofs!Next
  BY <1>2 DEF AddOperator, Contract!AddOperator, Contract!AdminSigns,
              ContractProofs!AddOperator, ContractProofs!AdminSigns,
              ContractProofs!Next
<1>3. ASSUME NEW p \in Payouts, NEW k \in Kinds, Chain(p, k), ~Land(p, "rec")
      PROVE  UNCHANGED contractVars
  BY <1>3 DEF Chain, Land, FailOnLedger, Expire, Effect, Kinds
<1>4. ASSUME NEW p \in Payouts, Prepare(p), ~AddOperator(p)
      PROVE  UNCHANGED contractVars
  BY <1>4 DEF Prepare, ReadLines, CheckOperator, AddOperatorFails, BuildPayment,
              BuildRecord, Sign
<1>5. ASSUME NEW s \in Submits, NEW p \in Payouts, Submit(s, p) \/ SubmitStep(s, p)
      PROVE  UNCHANGED contractVars
  BY <1>5 DEF Submit, SubmitStep, Send, SendRefused, Relay, Confirm, GiveUp,
              InsertRun, InsertRefused
<1>6. CASE Crash \/ OtherTransaction \/ EditStaff \/ UNCHANGED vars
  BY <1>6 DEF Crash, OtherTransaction, EditStaff, vars
<1>7. QED
  BY <1>1, <1>2, <1>3, <1>4, <1>5, <1>6 DEF Next

LEMMA ContractInvHolds == Spec => []ContractInv
<1>1. Init => ContractInv
  BY DEF Init, ContractInv, Contract!TypeOK, Contract!SettledOnce,
         Contract!IndexMatchesEvents
<1>2. IInv /\ ContractInv /\ [Next]_vars => ContractInv'
  <2>1. ContractProofs!Inv /\ [ContractProofs!Next]_contractVars
          => ContractProofs!Inv'
    BY ContractAssumed, ContractProofs!StepKeepsInv
       DEF contractVars, ContractProofs!contractVars
  <2>2. ContractInv' <=> ContractProofs!Inv'
    BY ContractInvIs, PTL
  <2>3. QED
    BY <2>1, <2>2, ContractInvIs, StepCallsContract
<1>3. QED
  BY <1>1, <1>2, InvariantHolds, PTL DEF Spec

\* The contract the wallet drives is a ledger of distinct runs with positive
\* totals, as the contract on its own is.
THEOREM RecordsImplementLedger == Spec => Contract!ImplementsLedger
<1>1. Init => Contract!Ledger!Init
  BY DEF Init, Contract!Ledger!Init
<1>2. IInv /\ ContractInv /\ [Next]_vars
        => [Contract!Ledger!Next]_(ContractProofs!Entries)
  <2>1. ContractProofs!Inv /\ [ContractProofs!Next]_contractVars
          => [ContractProofs!Ledger!Next]_(ContractProofs!Entries)
    BY ContractAssumed, ContractProofs!StepSettles
       DEF contractVars, ContractProofs!contractVars
  <2>2. ContractProofs!Ledger!Next <=> Contract!Ledger!Next
    BY DEF ContractProofs!Ledger!Next, ContractProofs!Ledger!Settle,
           ContractProofs!Ledger!Settled, Contract!Ledger!Next,
           Contract!Ledger!Settle, Contract!Ledger!Settled
  <2>3. QED
    BY <2>1, <2>2, ContractInvIs, StepCallsContract
<1>3. QED
  BY <1>1, <1>2, InvariantHolds, ContractInvHolds, PTL
     DEF Spec, Contract!ImplementsLedger, Contract!Ledger!Spec, ContractProofs!Entries

-----------------------------------------------------------------------------

\* The contract has recorded the runs whose record envelope landed.
RecordInv == executed = {p \in Payouts : status[p]["rec"] = "landed"}

LEMMA StepKeepsRecordInv ==
  ASSUME IInv, RecordInv, [Next]_vars
  PROVE  RecordInv'
<1> USE DEF chainVars, contractVars
<1>0. status \in [Payouts -> [Kinds -> EnvelopeStatus]] /\ Kinds = {"pay", "rec"}
  BY DEF IInv, TypeOK, Kinds
<1>1. ASSUME executed' = executed,
             \A p \in Payouts :
               status'[p]["rec"] = "landed" <=> status[p]["rec"] = "landed"
      PROVE  RecordInv'
  BY <1>1 DEF RecordInv
<1>2. ASSUME NEW p \in Payouts, NEW k \in Kinds, Chain(p, k)
      PROVE  RecordInv'
  <2>1. CASE Land(p, k) /\ k = "rec"
    <3>1. executed' = executed \cup {p}
      BY <2>1 DEF Land, Effect, Contract!ExecuteRun, Contract!MarkExecuted
    <3>2. \A q \in Payouts : status'[q]["rec"] = "landed"
                            <=> status[q]["rec"] = "landed" \/ q = p
      BY <1>0, <2>1 DEF Land
    <3>3. QED
      BY <3>1, <3>2 DEF RecordInv
  <2>2. CASE Land(p, k) /\ k = "pay"
    <3>1. executed' = executed
      BY <2>2 DEF Land, Effect
    <3>2. \A q \in Payouts : status'[q]["rec"] = status[q]["rec"]
      BY <1>0, <2>2 DEF Land
    <3>3. QED
      BY <1>1, <3>1, <3>2
  <2>3. CASE FailOnLedger(p, k) \/ Expire(p, k)
    <3>1. executed' = executed
      BY <2>3 DEF FailOnLedger, Expire
    <3>2. \A q \in Payouts :
            status'[q]["rec"] = "landed" <=> status[q]["rec"] = "landed"
      BY <1>0, <2>3 DEF FailOnLedger, Expire
    <3>3. QED
      BY <1>1, <3>1, <3>2
  <2>4. QED
    BY <1>0, <1>2, <2>1, <2>2, <2>3 DEF Chain
<1>3. ASSUME NEW p \in Payouts, Prepare(p)
      PROVE  RecordInv'
  <2>1. executed' = executed
    BY <1>3 DEF Prepare, ReadLines, CheckOperator, AddOperator, AddOperatorFails,
                BuildPayment, BuildRecord, Sign, Contract!AddOperator
  <2>2. \/ status' = status
        \/ status' = [status EXCEPT ![p]["pay"] = "built"]
        \/ pc[p] = "buildRecord" /\ status' = [status EXCEPT ![p]["rec"] = "built"]
    BY <1>3 DEF Prepare, ReadLines, CheckOperator, AddOperator, AddOperatorFails,
                BuildPayment, BuildRecord, Sign, Build, envelopeVars
  <2>3. pc[p] = "buildRecord" => status[p]["rec"] = "absent"
    BY DEF IInv, EnvelopeInv, PlaceInv, Preparing
  <2>4. \A q \in Payouts :
          status'[q]["rec"] = "landed" <=> status[q]["rec"] = "landed"
    BY <1>0, <2>2, <2>3
  <2>5. QED
    BY <1>1, <2>1, <2>4
<1>4. ASSUME NEW s \in Submits, NEW p \in Payouts, Submit(s, p) \/ SubmitStep(s, p)
      PROVE  RecordInv'
  <2>1. executed' = executed
    BY <1>4 DEF Submit, SubmitStep, Send, SendRefused, Relay, Confirm, GiveUp,
                InsertRun, InsertRefused
  <2>2. \/ status' = status
        \/ \E k \in Kinds :
             /\ status[p][k] \in {"built", "pending"}
             /\ status' = [status EXCEPT ![p][k] = "pending"]
    BY <1>4 DEF Submit, SubmitStep, Send, SendRefused, Relay, Confirm, GiveUp,
                InsertRun, InsertRefused, envelopeVars
  <2>3. \A q \in Payouts :
          status'[q]["rec"] = "landed" <=> status[q]["rec"] = "landed"
    BY <1>0, <2>2
  <2>4. QED
    BY <1>1, <2>1, <2>3
<1>5. CASE Crash \/ OtherTransaction \/ EditStaff \/ UNCHANGED vars
  <2>1. executed' = executed /\ status' = status
    BY <1>5 DEF Crash, OtherTransaction, EditStaff, vars, envelopeVars
  <2>2. QED
    BY <1>1, <2>1
<1>6. QED
  BY <1>2, <1>3, <1>4, <1>5 DEF Next

\* No run is both paid by the wallet and recorded by the contract, although
\* submitRun sends two envelopes to have it both; an id is on either ledger at
\* most once; and a completed row is of a run that is on one of them, unless a
\* relayer was asked (submitRun, lines 395-422).
OneEntryPerRun ==
  LET recorded == {events[i].run : i \in DOMAIN events} IN
  /\ Paid \cap recorded = {}
  /\ \A i, j \in DOMAIN events : events[i].run = events[j].run => i = j
  /\ \A p \in Payouts : row[p] # None /\ ~env.relayer => p \in Paid \cup recorded

THEOREM OneEntryPerRunHolds == Spec => []OneEntryPerRun
<1>1. Init => RecordInv
  BY DEF Init, RecordInv, Kinds
<1>2. IInv /\ ContractInv /\ RecordInv => OneEntryPerRun
  BY DEF IInv, LedgerInv, EnvelopeInv, NumberInv, CallInv, RowInv, Complete,
         ContractInv, Contract!SettledOnce, Contract!IndexMatchesEvents,
         RecordInv, OneEntryPerRun, Kinds, Other
<1>3. QED
  BY <1>1, <1>2, StepKeepsRecordInv, InvariantHolds, ContractInvHolds, PTL DEF Spec
=============================================================================
