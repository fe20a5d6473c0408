---------------------------- MODULE MCRebalance ----------------------------
(* Instances of Rebalance for TLC.  Calls are interchangeable.             *)
EXTENDS Rebalance, TLC

CONSTANTS pool, vault, d1

\* In and out of the venues, as the planner proposes it, and between venues.
InAndOut == ({"liquidity"} \X Venues) \cup (Venues \X {"liquidity"})
Between == {route \in Strategies \X Strategies : route[1] # route[2]}

Asking(routes, refs, amounts) ==
  {m \in Move : /\ <<m.from, m.to>> \in routes
                /\ m.ref \in refs
                /\ m.amount \in amounts}

MCPayload == [d \in {d1} |-> [from |-> "liquidity", to |-> "blend_pool",
                               ref |-> pool, amount |-> 1]]

\* Both references are longer than 32 characters and name no pool the gateway
\* knows by "CCEB": the contract keeps one balance for the two.
MCSymbolOf == [r \in {pool, vault} |-> "defindex"]
ShortRefs == [r \in {pool, vault} |-> r]

\* Serial calls in and out of two venues and a decision; serial calls between
\* venues too; a gateway that simulates; serial calls of which anything may fail;
\* overlapping calls of which anything may fail.
MCSettings ==
  "serial" :> [overlap |-> FALSE, faults |-> {}, live |-> TRUE, decisions |-> {d1},
               requests |-> Asking(InAndOut, {pool, vault}, {1, 2, 3})]
  @@ "between" :> [overlap |-> FALSE, faults |-> {}, live |-> TRUE, decisions |-> {},
                   requests |-> Asking(Between, {pool, vault}, {1, 2})]
  @@ "simulated" :> [overlap |-> FALSE, faults |-> {}, live |-> FALSE, decisions |-> {d1},
                     requests |-> Asking(InAndOut, {pool}, {0, 1})]
  @@ "faults" :> [overlap |-> FALSE, faults |-> FaultKinds, live |-> TRUE,
                  decisions |-> {d1}, requests |-> Asking(InAndOut, {pool}, {0, 2})]
  @@ "overlap" :> [overlap |-> TRUE, faults |-> FaultKinds, live |-> TRUE,
                   decisions |-> {d1}, requests |-> Asking(InAndOut, {pool}, {2})]

\* Calls that overlap with nothing going wrong, serial calls between venues, and
\* serial calls of which anything may fail.
OverlapOnly ==
  "overlap" :> [overlap |-> TRUE, faults |-> {}, live |-> TRUE, decisions |-> {d1},
                requests |-> Asking(InAndOut, {pool}, {1, 2})]
BetweenOnly == "between" :> MCSettings["between"]
FaultsOnly == "faults" :> MCSettings["faults"]

CallSymmetry == Permutations(Calls)
=============================================================================
