------------------------ MODULE MCTreasuryContract ------------------------
(* Instance of TreasuryContract for TLC: the platform's service account    *)
(* and another one, two buckets, and i128 shrunk to 0 .. 3.                *)
EXTENDS TreasuryContract

CONSTANTS platform, stranger, MaxFlows

MCAddresses == {platform, stranger}

\* Rejected and accepted arguments.
MCAmounts == -1 .. 2
MCDirections == {"deposit", "withdraw", "transfer"}

\* Bound on the length of the event log.
FewFlows == Len(flows) <= MaxFlows
=============================================================================
