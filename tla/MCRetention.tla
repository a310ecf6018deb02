----------------------------- MODULE MCRetention -----------------------------
(* Instances of Retention for TLC. *)
EXTENDS Retention

CONSTANTS r1, h1, h2

=============================================================================
