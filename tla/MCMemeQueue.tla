---------------------------- MODULE MCMemeQueue ----------------------------
(* MemeQueue with two refill tasks and three memes. *)
EXTENDS MemeQueue, TLC

Symmetry == Permutations(Tasks) \cup Permutations(Memes)
=============================================================================
