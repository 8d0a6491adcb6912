------------------------ MODULE MCImageGeneration ------------------------
(* TLC instances of the image-generation approval flow. *)
EXTENDS ImageGeneration, TLC

FlowSymmetry == Permutations(Workers) \cup Permutations(Requests)

Everything == AllOperations

============================================================================
