----------------------------- MODULE MCPayments -----------------------------
(***************************************************************************)
(* Instances of Payments for TLC.                                          *)
(***************************************************************************)
EXTENDS Payments, TLC

\* One charge of 2, or two of 1 and 2.
TwoPlans == {<<2>>, <<1, 2>>}

\* Requests are interchangeable.
Interchangeable == Permutations(Desk)
=============================================================================
