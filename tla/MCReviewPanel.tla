---------------------------- MODULE MCReviewPanel ----------------------------
(* Instances of ReviewPanel for TLC. *)
EXTENDS ReviewPanel, TLC

CONSTANTS o1, o2

=============================================================================
