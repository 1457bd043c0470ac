--------------------------- MODULE MCAppointments ---------------------------
(***************************************************************************)
(* Instances of Appointments for TLC.                                      *)
(***************************************************************************)
EXTENDS Appointments, TLC

\* Published: the first hour, with the one that touches it.
FirstHour == {<<1, 2>>}

\* Offered instead: either of the two.
TwoHours == {<<1, 2>>, <<2, 3>>}

\* Requests, slots, bookings and requesters are interchangeable.
Interchangeable ==
    Permutations(Requests) \cup Permutations(Slots) \cup Permutations(Bookings)
    \cup Permutations(People) \cup Permutations(Teachers)

\* Bound: the account's role changes only before the hour.  No write of a role
\* reads the clock.
RolesBeforeHour == now = 0 \/ \A t \in Teachers : role[t] = "teacher" /\ ~Demoting(t)
=============================================================================
