---------------------------- MODULE MCAgentCycles ----------------------------
(* Instances of AgentCycles for TLC.                                        *)
EXTENDS AgentCycles

\* The deployed account: two capped tokens, the reserve token second, and the
\* pool as a gateway (TECHNICAL.md, section 6).
MCCapped == <<"usdc", "asset">>
MCGateways == <<"pool">>

MCRules == {"default", "strict"}

Deploy(live, smart, cycles, edits, faults) ==
  [mainnet |-> FALSE, live |-> live, smart |-> smart, context |-> TRUE,
   cycles |-> cycles, edits |-> edits, faults |-> faults]

\* Two jobs beside each other; a job and another's cycle on one venue; the same through the
\* smart account with positions that cannot be read; a job called again while its
\* last transaction may still land, on a position that others move too, without
\* the smart account and with it; a tenant that edits its configuration; and
\* three deployments in which nothing may move.
MCDeployments ==
  LET both == {"blendJob", "user"}
      again == {"blendJob", "blendAgain"} IN
  {Deploy(Venues, FALSE, {"blendJob", "defindexJob"}, FALSE, {"lag", "reject", "crash", "db"}),
   Deploy({"blend"}, FALSE, both, FALSE, {}),
   Deploy({"blend"}, FALSE, both, FALSE, {"lag", "reject"}),
   Deploy({"blend"}, TRUE, both, FALSE, {"blind", "lag"}),
   Deploy({"blend"}, FALSE, again, FALSE, {"lag", "crash", "drift"}),
   Deploy({"blend"}, TRUE, {"blendJob"}, FALSE, {"drift"}),
   Deploy({"blend"}, FALSE, {"blendJob"}, TRUE, {}),
   Deploy({}, FALSE, {"blendJob"}, FALSE, {}),
   [Deploy(Venues, FALSE, {"user"}, FALSE, {}) EXCEPT !.mainnet = TRUE],
   [Deploy(Venues, FALSE, {"user"}, FALSE, {}) EXCEPT !.context = FALSE]}

MCJobs == {"blendJob", "blendAgain", "defindexJob"}
MCJobVenue == [blendJob |-> "blend", blendAgain |-> "blend", defindexJob |-> "defindex"]
MCOthers == {"user"}

=============================================================================
