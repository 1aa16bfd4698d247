------------------------- MODULE MCDestinationGuard -------------------------
(* DestinationGuard for TLC.                                                  *)
EXTENDS DestinationGuard, TLC

Symmetric == Permutations(Worker) \cup Permutations(Token)

=============================================================================
