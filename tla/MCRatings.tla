------------------------------- MODULE MCRatings -------------------------------
(* An instance of Ratings for TLC: two messages with tweets of one user,  *)
(* and one with a link to something else.                                 *)
EXTENDS Ratings, TLC

CONSTANTS m1, m2, m3, u1, u2

OtherLink == m1 :> u1 @@ m2 :> u1 @@ m3 :> u2
===============================================================================
