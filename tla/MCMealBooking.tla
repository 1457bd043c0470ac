---------------------------- MODULE MCMealBooking ----------------------------
(***************************************************************************)
(* Instances of MealBooking for TLC.                                       *)
(***************************************************************************)
EXTENDS MealBooking, TLC

\* Requests are interchangeable and so are students: no definition tells one
\* from another.
Interchangeable == Permutations(Requests) \cup Permutations(Students)
=============================================================================
