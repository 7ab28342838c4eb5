------------------------- MODULE MCCapabilityTable --------------------------
(* Small instances of CapabilityTable for TLC. *)
EXTENDS CapabilityTable, TLC

AllOrNothing     == {Right, {}}
TransferOrRevoke == {Right, {TRANSFER}, {REVOKE}}

TableSymmetry == Permutations(Table) \cup Permutations(Object)
=============================================================================
