------------------------- MODULE MemoryBudgetLedger -------------------------
(***************************************************************************)
(* MemoryBudget implements BudgetLedger: the refinement mapping keeps the  *)
(* existing budgets, their limits and what each reservation holds, and     *)
(* forgets the counters, the owners and the allocation calls in progress.  *)
(***************************************************************************)
EXTENDS MemoryBudget

Ledger == INSTANCE BudgetLedger

\* The counters implement the ledger: every grant the incremental checks of
\* preflight_reservation allow is one the reservations themselves leave room
\* for, and every other step gives back or hands over exactly what is held.
LedgerSpec == Ledger!Spec

=============================================================================
