--------------------------- MODULE MCPayrollRuns ---------------------------
(* Instances of PayrollRuns for TLC.  Calls are interchangeable: nothing   *)
(* but equality is ever asked of a run id.                                 *)
EXTENDS PayrollRuns, TLC

CallSymmetry == Permutations(Calls)

\* A form that switches the schedule off and moves its date, makes it one-off and
\* pays one employee only, whatever the schedule has become since.
Listed == CHOOSE e \in Employees : TRUE
PlainForm == [due |-> 0, active |-> TRUE, oneOff |-> FALSE, employees |-> Employees]
MCForms ==
  {[PlainForm EXCEPT !.active = FALSE, !.due = 1, !.oneOff = TRUE,
                     !.employees = {Listed}]}

\* The other employees keep their wallets: a form decides whether one is paid.
OthersKeepWallets == \A e \in Employees \ {Listed} : staff[e] = "wallet"

\* A live testnet with everything going wrong, the simulation (no secret), and
\* mainnet, where assertMainnetHasNoHotKey leaves no secret either.
MCEnvironments ==
  {[network |-> "testnet", live |-> TRUE, issuer |-> TRUE, faults |-> FaultKinds],
   [network |-> "testnet", live |-> FALSE, issuer |-> TRUE,
    faults |-> {"db", "crash"}],
   [network |-> "mainnet", live |-> FALSE, issuer |-> TRUE,
    faults |-> {"db", "crash"}]}

\* A live testnet where nothing fails but no issuer is configured.
NoIssuerEnvironment ==
  {[network |-> "testnet", live |-> TRUE, issuer |-> FALSE, faults |-> {}]}
=============================================================================
