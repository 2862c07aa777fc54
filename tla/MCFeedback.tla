------------------------------ MODULE MCFeedback ------------------------------
(* The scheduler called Feedback. *)
EXTENDS Feedback, TLC
=============================================================================
