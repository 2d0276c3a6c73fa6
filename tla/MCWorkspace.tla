----------------------------- MODULE MCWorkspace -----------------------------
(***************************************************************************)
(* The smaller machines of the system in one run: those of MCRecords and    *)
(* those of MCValuation, with one of the two idle.                          *)
(***************************************************************************)
EXTENDS MCRecords, MCValuation, TLC

MCInit == (RecordsInit /\ ValuationIdle) \/ (ValuationInit /\ RecordsIdle)

MCNext == (RecordsNext /\ UNCHANGED valuation) \/ (ValuationNext /\ UNCHANGED records)

MCSpec == MCInit /\ [][MCNext]_<<records, valuation>>

\* The instance gives Valuer and Fault the values of Client, and Column and Org those of Unit.
Symmetry == Permutations(Client) \cup Permutations(Unit)
=============================================================================
