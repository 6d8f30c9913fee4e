-------------------------- MODULE MCTelegramReview ---------------------------
(***************************************************************************)
(* An instance of TelegramReview for TLC: every update is a press.         *)
(***************************************************************************)
EXTENDS TelegramReview

Presses == [u \in Updates |-> "control"]
=============================================================================
