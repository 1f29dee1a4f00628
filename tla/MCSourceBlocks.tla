--------------------------- MODULE MCSourceBlocks ---------------------------
(* Instances of SourceBlocks: three buffers of two bytes. *)
EXTENDS SourceBlocks

FairSpec == Spec /\ Fairness
=============================================================================
