------------------------- MODULE MCDesktopLifecycle -------------------------
(***************************************************************************)
(* A small instance of DesktopLifecycle for TLC.  Runtimes differ in       *)
(* nothing but their names, so one of them always comes first: a liveness  *)
(* run may not use symmetry.                                               *)
(***************************************************************************)
EXTENDS DesktopLifecycle, TLC

Eldest == CHOOSE r \in Runtimes : TRUE
InOrder == State(Eldest) = "unused" => \A r \in Runtimes : State(r) = "unused"

=============================================================================
