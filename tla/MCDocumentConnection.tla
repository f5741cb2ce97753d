------------------------- MODULE MCDocumentConnection -------------------------
(***************************************************************************)
(* A small instance of DocumentConnection for TLC.                         *)
(***************************************************************************)
EXTENDS DocumentConnection, TLC
=============================================================================
