------------------------ MODULE MCPayrollContract ------------------------
(* Instance of PayrollContract for TLC: the platform's service account, a  *)
(* company wallet and a third account, any of which may sign any call.     *)
EXTENDS PayrollContract

CONSTANTS agent, company, stranger

MCAddresses == {agent, company, stranger}

\* The values that separate the argument checks: rejected and accepted.
MCTotals == {-1, 0, 5}
MCCounts == {0, 1}
=============================================================================
