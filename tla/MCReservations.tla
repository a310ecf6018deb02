--------------------------- MODULE MCReservations ---------------------------
(* Instances of the AWS pipeline and of the daily spend for TLC: who gives  *)
(* a reservation back, and on which day's row.  The two share no variable,  *)
(* and a behaviour moves one of them.                                       *)
EXTENDS AwsReviewProps, DailySpend, TLC

CONSTANTS r1, h1, h2, s1, s2, s3, c1

\* Handlers are interchangeable, and so are the reviews that reserve.
Alike == Permutations(Handlers) \cup Permutations(Spenders)

VARIABLE subject

ReservationsInit == subject \in {"settling", "days"} /\ Init /\ SpendInit

ReservationsNext ==
  /\ UNCHANGED subject
  /\ \/ subject = "settling" /\ Next /\ UNCHANGED spendVars
     \/ subject = "days" /\ SpendNext /\ UNCHANGED vars

ReservationsSpec == ReservationsInit /\ [][ReservationsNext]_<<subject, vars, spendVars>>

=============================================================================
