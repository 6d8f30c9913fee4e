--------------------------- MODULE MCPublication ---------------------------
(***************************************************************************)
(* Instances of Publication for TLC.                                       *)
(***************************************************************************)
EXTENDS Publication, TLC

CONSTANTS s1

OneStory == [d \in Drafts |-> s1]

ExecutionSymmetry == Permutations(Publishers)
=============================================================================
