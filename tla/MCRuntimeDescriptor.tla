------------------------ MODULE MCRuntimeDescriptor ------------------------
(***************************************************************************)
(* A small instance of RuntimeDescriptor for TLC.  Runtimes differ in      *)
(* nothing but their names, so one of them always starts first: a liveness *)
(* run may not use symmetry.                                               *)
(***************************************************************************)
EXTENDS RuntimeDescriptor, TLC

Eldest == CHOOSE r \in Runtimes : TRUE
InOrder == proc[Eldest] = "ready" => \A r \in Runtimes : proc[r] = "ready"

=============================================================================
