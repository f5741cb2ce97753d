---------------------------- MODULE MCDocumentSync ----------------------------
(***************************************************************************)
(* Small instances of DocumentSync for TLC.  Devices and edits are         *)
(* interchangeable.                                                        *)
(***************************************************************************)
EXTENDS DocumentSync, TLC

Symmetry == Permutations(Device) \cup Permutations(Edit)
=============================================================================
