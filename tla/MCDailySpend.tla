---------------------------- MODULE MCDailySpend ----------------------------
(* Instances of DailySpend for TLC. *)
EXTENDS DailySpend

CONSTANTS s1, s2, s3

=============================================================================
