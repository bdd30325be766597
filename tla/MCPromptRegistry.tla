-------------------------- MODULE MCPromptRegistry --------------------------
(* Instances of PromptRegistry for TLC; callers and texts are interchangeable. *)
EXTENDS PromptRegistry, TLC

Interchangeable == Permutations(Callers) \cup Permutations(Texts)
=============================================================================
