--------------------------- MODULE MCQueuedRequests ---------------------------
(***************************************************************************)
(* Small instances of QueuedRequests for TLC: messages and deliveries are  *)
(* interchangeable.                                                        *)
(***************************************************************************)
EXTENDS QueuedRequests, TLC

Symmetry == Permutations(Message) \cup Permutations(Steer)
=============================================================================
