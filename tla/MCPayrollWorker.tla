-------------------------- MODULE MCPayrollWorker --------------------------
(* Instances of PayrollWorker for TLC.  The worker's calls are             *)
(* interchangeable, and so are the users'.                                 *)
EXTENDS PayrollWorker, TLC

CallSymmetry == Permutations(UserCalls) \cup Permutations(Calls \ UserCalls)

\* A live testnet on which only F may go wrong.
Testnet(F) == [network |-> "testnet", live |-> TRUE, issuer |-> TRUE, faults |-> F]

\* Retries whose outcome is known, retries whose outcome is not, and crashes.
WorkerEnvironments ==
  {Testnet({"payout_rejected"}),
   Testnet({"timeout", "record_rejected"}),
   Testnet({"crash"})}

\* A tenant that has a context and pays wallets throughout: the runs that end
\* early for want of either are for MCPayrollRuns.
PayingTenant == published /\ \A e \in Employees : staff[e] = "wallet"

\* Forms that leave the cadence and the staff alone: with any of the dates the
\* worker gets to, the switch on or off.
DateForms ==
  [due : 0 .. MaxTime + 1, active : BOOLEAN, oneOff : {FALSE}, employees : {Employees}]
NoForms == {}

\* A crash leaves a schedule due at once, so an hour less shows every retry.
CrashBound == "crash" \in Faults => now <= 1 /\ PayingTenant

\* The properties of the worker say nothing of a schedule whose date was moved: with
\* one schedule nothing is lost by not going on from there.
WorkerBound == CrashBound /\ redated = {}

\* What the overlap of a user's run and the worker's is checked under.
UserEnvironments == {Testnet({"timeout"})}

\* One lost confirmation, and one plain retry.
NothingFails == {Testnet({})}
RecordRejected == {Testnet({"record_rejected"})}
PayoutRejected == {Testnet({"payout_rejected"})}
=============================================================================
