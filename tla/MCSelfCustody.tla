--------------------------- MODULE MCSelfCustody ---------------------------
(* Instances of SelfCustody for TLC.  Submissions are interchangeable; so  *)
(* are payouts, which are told apart only by what happens to them.         *)
EXTENDS SelfCustody, TLC

CallSymmetry == Permutations(Payouts) \cup Permutations(Submits)

\* A schedule with nobody to pay, one with only bank lines, and one with a bank
\* line beside its wallet lines.
MCStaffs ==
  {[total |-> 0, wallet |-> 0], [total |-> 2, wallet |-> 0],
   [total |-> 3, wallet |-> 1]}

Deployment(contract, key, issuer, relayer, consent, faults) ==
  [contract |-> contract, key |-> key, issuer |-> issuer, relayer |-> relayer,
   consent |-> consent, faults |-> faults]

\* The testnet deployment with everything that may go wrong; the mainnet one,
\* which has neither key nor contract, submitting directly and through the
\* relayer; a contract without an issuer; a contract without a key; and the
\* testnet with the documents the repository itself builds.
MCEnvironments ==
  {Deployment(TRUE, TRUE, TRUE, FALSE, TRUE, FaultKinds),
   Deployment(FALSE, FALSE, TRUE, FALSE, TRUE, {"reject", "db"}),
   Deployment(FALSE, FALSE, TRUE, TRUE, TRUE, {"reject"}),
   Deployment(TRUE, TRUE, TRUE, TRUE, TRUE, {}),
   Deployment(TRUE, TRUE, FALSE, FALSE, TRUE, {"lag"}),
   Deployment(TRUE, FALSE, TRUE, FALSE, TRUE, {}),
   Deployment(TRUE, TRUE, TRUE, FALSE, FALSE, {})}

\* The testnet deployment on a day on which nothing fails.
MCQuiet == {Deployment(TRUE, TRUE, TRUE, FALSE, TRUE, {})}
=============================================================================
