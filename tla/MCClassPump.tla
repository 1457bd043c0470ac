---------------------------- MODULE MCClassPump -----------------------------
(***************************************************************************)
(* Instances of ClassPump for TLC.                                         *)
(***************************************************************************)
EXTENDS ClassPump, TLC

\* A blueprint may hold any courses.
AnyList == SUBSET Courses

\* Requests, accounts, courses and instance ids are interchangeable.
Interchangeable ==
    Permutations(Requests) \cup Permutations(Users) \cup Permutations(Courses)
    \cup Permutations(Instances)
=============================================================================
