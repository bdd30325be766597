----------------------------- MODULE MCLlmStep ------------------------------
(* Instances of LlmStep for TLC: the ways a step is called. *)
EXTENDS LlmStep, TLC

\* Not cached, strict with truncated answers.
Strict == [cache |-> FALSE, validate |-> TRUE, onTruncation |-> "fail"]

Uncached == {Strict}

CallerSymmetry == Permutations(Callers)
=============================================================================
