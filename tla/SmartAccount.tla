---------------------------- MODULE SmartAccount ----------------------------
(***************************************************************************)
(* The smart treasury account (contracts/smart-treasury) and its spending- *)
(* limit policy (contracts/spending-limit-policy).  The constructor lays   *)
(* down one rule per target contract, and nothing can change them later.   *)
(* Both contracts hand the checks to OpenZeppelin's library, modelled here *)
(* from how the two contracts use it: a call is authorized if every node   *)
(* of its authorization tree names a rule for that node's contract and the *)
(* rule's policy, if it has one, agrees.                                   *)
(***************************************************************************)
EXTENDS Integers, Sequences, FiniteSets, FiniteSetsExt

CONSTANTS
  CappedTargets,    \* contracts whose transfers are capped, in order
  GatewayTargets,   \* contracts that only need the signer, in order
  SpendingLimit,    \* the cap of each capped rule
  PeriodLedgers     \* the rolling window, in ticks of the model's clock

VARIABLE
  recent   \* what each rule let out, by age: 0 is the current tick

Ages == 0 .. PeriodLedgers - 1

\* add_context_rule numbers the rules from 0: the capped targets come first,
\* with the policy, and then the gateway targets, without.
RuleIds == 0 .. Len(CappedTargets) + Len(GatewayTargets) - 1

IsCappedMutant(rule) == rule + 1 < Len(CappedTargets)
IsCapped(rule) == rule < Len(CappedTargets)
TargetOf(rule) == (CappedTargets \o GatewayTargets)[rule + 1]

EmptyHistory == [rule \in RuleIds |-> [age \in Ages |-> 0]]

\* What a rule let out within the window (spending_limit's history).
Spent(rule) == MapThenSumSet(LAMBDA age : recent[rule][age], Ages)

\* spending_limit::enforce: transfers only, and never past the limit.
Enforced(rule, node) ==
  /\ node.fn = "transfer"
  /\ Spent(rule) + node.amount <= SpendingLimit

\* do_check_auth, for the node and the rule the signer named for it.
Matches(node) ==
  /\ node.rule \in RuleIds
  /\ TargetOf(node.rule) = node.contract
  /\ IsCapped(node.rule) => Enforced(node.rule, node)

CheckAuth(tree) == \A i \in DOMAIN tree : Matches(tree[i])

\* What the policy writes down when an authorized call is applied.
OutflowOf(tree, rule) ==
  MapThenSumSet(LAMBDA i : IF tree[i].rule = rule /\ IsCapped(rule)
                           THEN tree[i].amount ELSE 0, DOMAIN tree)

Apply(tree) ==
  /\ CheckAuth(tree)
  /\ recent' = [rule \in RuleIds |->
                  [recent[rule] EXCEPT ![0] = @ + OutflowOf(tree, rule)]]

\* A tick goes by: what is older than the window is forgotten.
Age ==
  recent' = [rule \in RuleIds |->
               [age \in Ages |-> IF age = 0 THEN 0 ELSE recent[rule][age - 1]]]
=============================================================================
