----------------------------- MODULE MCAwsReview -----------------------------
(* Instances of AwsReview for TLC. *)
EXTENDS AwsReviewProps, TLC

CONSTANTS r1, r2, h1, h2

\* Reviews are interchangeable, and so are handlers.
Symmetry == Permutations(Reviews) \cup Permutations(Handlers)

=============================================================================
