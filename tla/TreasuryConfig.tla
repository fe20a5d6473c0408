--------------------------- MODULE TreasuryConfig ---------------------------
(***************************************************************************)
(* A tenant's row of public.treasuries, its risk rules and the switch of   *)
(* the autonomous agent, and the two handlers that write it:               *)
(*   PUT /treasury/config   saveConfig, with the rules and the switch the  *)
(*                          dashboard shows;                               *)
(*   POST /treasury/agent   setAgentEnabled, with the owner's signature:   *)
(*                          reads the row, and writes all of it back.      *)
(* Each read and each write is an await of its own.                        *)
(***************************************************************************)
EXTENDS Integers, FiniteSets

CONSTANTS
  Edits,          \* calls of the two handlers
  RiskRules,      \* what saveConfig may be sent
  DefaultRules,   \* what setAgentEnabled writes where there is no row
  NoRow

ASSUME ConfigAssumption ==
  /\ DefaultRules \in RiskRules
  /\ NoRow \notin [rules : RiskRules, enabled : BOOLEAN]

VARIABLES
  config,      \* the row of the tenant, or NoRow
  editPc, edit, found, \* each call: where it is, its body, whether it found a row
  serial,      \* whether this tenant's edits come one at a time
  signed       \* the switch as the owner's last applied signature left it

editVars == <<editPc, edit, found>>
configVars == <<config, editVars, serial, signed>>

Row == [rules : RiskRules, enabled : BOOLEAN]
Body == [kind : {"toggle", "save"}, rules : RiskRules, enabled : BOOLEAN]
Editing == {"readRow", "readId", "write"}

ConfigInit ==
  /\ config \in {NoRow} \cup Row
  /\ editPc = [e \in Edits |-> "idle"]
  /\ edit \in [Edits -> {[kind |-> "save", rules |-> DefaultRules, enabled |-> TRUE]}]
  /\ found = [e \in Edits |-> FALSE]
  /\ serial \in BOOLEAN
  /\ signed = (config = NoRow \/ config.enabled)

\* The rules setAgentEnabled carries from its read to its write.
CarriedRulesMutant == DefaultRules
CarriedRules == IF config = NoRow THEN DefaultRules ELSE config.rules

Alone == \A e \in Edits : editPc[e] \notin Editing

\* The owner signs "enable" or "disable" with the wallet of the account; a bad,
\* foreign or stale signature is refused before anything is read.
Toggle(e) ==
  /\ editPc[e] = "idle" /\ (serial => Alone)
  /\ \E enabled \in BOOLEAN :
       edit' = [edit EXCEPT ![e] = [kind |-> "toggle", rules |-> DefaultRules,
                                    enabled |-> enabled]]
  /\ editPc' = [editPc EXCEPT ![e] = "readRow"]
  /\ UNCHANGED <<config, found, serial, signed>>

\* The risk panel sends the rules and whatever its switch shows.
Save(e) ==
  /\ editPc[e] = "idle" /\ (serial => Alone)
  /\ \E rules \in RiskRules, enabled \in BOOLEAN :
       edit' = [edit EXCEPT ![e] = [kind |-> "save", rules |-> rules,
                                    enabled |-> enabled]]
  /\ editPc' = [editPc EXCEPT ![e] = "readId"]
  /\ UNCHANGED <<config, found, serial, signed>>

ReadRow(e) ==
  /\ editPc[e] = "readRow"
  /\ edit' = [edit EXCEPT ![e].rules = CarriedRules]
  /\ editPc' = [editPc EXCEPT ![e] = "readId"]
  /\ UNCHANGED <<config, found, serial, signed>>

ReadId(e) ==
  /\ editPc[e] = "readId"
  /\ found' = [found EXCEPT ![e] = config # NoRow]
  /\ editPc' = [editPc EXCEPT ![e] = "write"]
  /\ UNCHANGED <<config, edit, serial, signed>>

\* The upsert replaces the row whose id was found, or inserts one.
WriteConfig(e) ==
  /\ editPc[e] = "write"
  /\ found[e] \/ config = NoRow
  /\ config' = [rules |-> edit[e].rules, enabled |-> edit[e].enabled]
  /\ signed' = IF edit[e].kind = "toggle" THEN edit[e].enabled ELSE signed
  /\ editPc' = [editPc EXCEPT ![e] = "done"]
  /\ UNCHANGED <<edit, found, serial>>

\* tenant_id is unique: of two first writes the second is refused.
WriteConflict(e) ==
  /\ editPc[e] = "write"
  /\ ~found[e] /\ config # NoRow
  /\ editPc' = [editPc EXCEPT ![e] = "done"]
  /\ UNCHANGED <<config, edit, found, serial, signed>>

EditStep(e) ==
  \/ Toggle(e) \/ Save(e) \/ ReadRow(e) \/ ReadId(e)
  \/ WriteConfig(e) \/ WriteConflict(e)

ConfigNext == \E e \in Edits : EditStep(e)

ConfigTypeOK ==
  /\ config \in {NoRow} \cup Row
  /\ editPc \in [Edits -> {"idle", "done"} \cup Editing]
  /\ edit \in [Edits -> Body]
  /\ found \in [Edits -> BOOLEAN]
  /\ serial \in BOOLEAN /\ signed \in BOOLEAN

-----------------------------------------------------------------------------
\* The step in which a toggle is over leaves the rules of the row alone.
KeepsRules(e) ==
  edit[e].kind = "toggle" /\ editPc[e] = "write" /\ editPc'[e] = "done"
    /\ config # NoRow => config'.rules = config.rules

\* Flipping the switch never changes the risk rules of a tenant whose edits come
\* one at a time: setAgentEnabled writes back what it read two awaits before
\* (treasuryService.ts, lines 208-218).  Edits that overlap lose rules
\* (RulesLost.cfg).
SerialTogglesKeepRules == [][serial => \A e \in Edits : KeepsRules(e)]_configVars

\* The same without the condition, which the code breaks.
TogglesKeepRules == [][\A e \in Edits : KeepsRules(e)]_configVars

\* "Activate / deactivate the autonomous agent - gated by a SEP-53 wallet
\* signature" (treasury.ts, lines 53-54): the switch of a row is where the owner's
\* last signature left it.
SwitchIsSigned == config # NoRow => config.enabled = signed
=============================================================================
