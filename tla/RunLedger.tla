----------------------------- MODULE RunLedger -----------------------------
(***************************************************************************)
(* What the payroll contract promises its readers: a ledger of settled     *)
(* payroll runs that only grows, one entry at a time, in which no run id   *)
(* is settled twice and every entry moves a positive total for at least    *)
(* one employee.  Who may settle a run, and the index the contract keeps   *)
(* to recognise an id, are left to PayrollContract.                        *)
(***************************************************************************)
EXTENDS Integers, Sequences

CONSTANTS RunIds, Totals, Counts

VARIABLE ledger    \* the settled entries, oldest first

Settled == {ledger[i].run : i \in DOMAIN ledger}

Init == ledger = <<>>

Settle(r, total, count) ==
  /\ r \notin Settled
  /\ total > 0
  /\ count > 0
  /\ ledger' = Append(ledger, [run |-> r, total |-> total, count |-> count])

Next == \E r \in RunIds, t \in Totals, n \in Counts : Settle(r, t, n)

Spec == Init /\ [][Next]_ledger
=============================================================================
