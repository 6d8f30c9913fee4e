----------------------------- MODULE MCNewsJobs ------------------------------
(***************************************************************************)
(* Instances of NewsJobs for TLC.                                          *)
(***************************************************************************)
EXTENDS NewsJobs, TLC

CONSTANT c1

OneChannel == [j \in Jobs |-> c1]

(* With one channel the requests are alike too. *)
RequestSymmetry == Permutations(Jobs) \cup Permutations(Workers)
=============================================================================
