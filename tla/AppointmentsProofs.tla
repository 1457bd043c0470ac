------------------------- MODULE AppointmentsProofs --------------------------
(***************************************************************************)
(* What Appointments' run checks on a small instance, for any number of    *)
(* teachers, slots, bookings, requests and windows.                        *)
(*                                                                         *)
(* The argument is about what a suspended request still knows.  A booking  *)
(* keeps its slot until it loses it for good, a slot its teacher and hours *)
(* until it is deleted; so a decision's read, a delete's sweep and a       *)
(* demotion's list name the rows they named (DecisionsOK, DeletesOwn,      *)
(* DemotedOwn), and the snapshot an approval commits on still shows that   *)
(* the window was free (SnapshotsOK).                                      *)
(***************************************************************************)
EXTENDS Appointments, FiniteSetTheorems, TLAPS

LiveStatus == {"pending", "approved"}

\* A booking that names a slot names one that is there; one that is not there
\* names none.
SlotsHold ==
    \A a \in Bookings :
        /\ appt[a].slot # None => There(appt[a].slot)
        /\ appt[a].status \in {"unborn", "gone"} => appt[a].slot = None

\* The bookings an open demotion has cancelled are on its teacher's calendar.
DemotedOwn ==
    \A t \in Teachers : Demoting(t) => \A a \in demoted[t] :
        /\ appt[a].status # "unborn"
        /\ appt[a].slot # None => slot[appt[a].slot].teacher = t

\* The bookings a delete has swept are on the slots it deletes.
DeletesOwn ==
    \A r \in Requests : req[r].pc = "delete" => \A a \in req[r].gone :
        appt[a].status # "unborn" /\ appt[a].slot \in req[r].ids \cup {None}

\* A decision is on a live booking, which still has the slot it was read with
\* or none; only an approval approves, and what its requester named.
DecisionOK(q) ==
    /\ q.expected.status \in LiveStatus
    /\ q.expected.slot \in Slots /\ slot[q.expected.slot].status # "unborn"
    /\ appt[q.of].status # "unborn"
    /\ appt[q.of].slot \in {q.expected.slot, None}
    /\ q.pc = "cas" => q.new.status \in {"pending", "rejected", "cancelled"}
    /\ q.pc = "approve" =>
          /\ q.new.status = "approved" /\ q.new.proposed = q.expected.proposed
          /\ q.new.requester = q.expected.requester
          /\ q.expected.proposed # None =>
                q.named = q.expected.proposed /\ q.new.decided_by = q.expected.requester

DecisionsOK == \A r \in Requests : req[r].pc \in {"cas", "approve"} => DecisionOK(req[r])

\* The window of a row as a request read it.
WindowOf(row) == IF row.proposed # None THEN row.proposed ELSE slot[row.slot].win

\* Rows of one teacher or one requester, on slots that are there.
Related(k, l) ==
    /\ There(k.slot) /\ There(l.slot)
    /\ k.requester = l.requester \/ slot[k.slot].teacher = slot[l.slot].teacher

\* What an approval's snapshot showed of others' bookings does not overlap.
SnapshotOK(q) ==
    \A b \in Bookings \ {q.of} : q.read[b].status = "approved" =>
        /\ q.read[b].slot # None => slot[q.read[b].slot].status # "unborn"
        /\ Related(q.read[b], q.expected)
              => ~Overlaps(WindowOf(q.read[b]), WindowOf(q.expected))

SnapshotsOK == \A r \in Requests : req[r].pc = "approve" => SnapshotOK(req[r])

Inv ==
    /\ TypeOK /\ SlotsHold /\ DemotedOwn /\ DeletesOwn /\ DecisionsOK /\ SnapshotsOK
    /\ SeatsExact /\ StudentsHaveNoCalendar /\ NoDoubleBooking

-----------------------------------------------------------------------------
(* Types. *)

\* Where a request is suspended tells what it has read.
LEMMA Shapes ==
    ASSUME TypeOK, NEW r \in Requests
    PROVE  /\ req[r].pc \in {"idle", "publish", "delete", "claim", "cas", "approve"}
           /\ req[r].pc = "publish" =>
                 req[r] \in [pc : {"publish"}, teacher : Teachers, windows : SUBSET Windows]
           /\ req[r].pc = "delete" =>
                 req[r] \in [pc : {"delete"}, ids : SUBSET Slots, gone : SUBSET Bookings]
           /\ req[r].pc = "claim" =>
                 req[r] \in [pc : {"claim"}, person : People, slot : Slots]
           /\ req[r].pc = "cas" =>
                 req[r] \in [pc : {"cas"}, of : Bookings, expected : BookingRow,
                             new : BookingRow]
           /\ req[r].pc = "approve" =>
                 req[r] \in [pc : {"approve"}, of : Bookings,
                             named : Windows \cup {None}, expected : BookingRow,
                             new : BookingRow, read : [Bookings -> BookingRow]]
  BY DEF TypeOK, Suspension, Idle

LEMMA SlotShapes ==
    ASSUME TypeOK, NEW s \in Slots
    PROVE  /\ slot[s].status \in {"unborn", "there", "gone"}
           /\ slot[s].status = "there" =>
                 /\ slot[s] \in [status : {"there"}, teacher : Teachers, win : Windows,
                                 series : SUBSET Windows, occupied : Nat]
                 /\ slot[s].teacher \in Teachers /\ slot[s].win \in Windows
                 /\ slot[s].occupied \in Nat
           /\ There(s) <=> slot[s].status = "there"
  BY AppointmentAssumption DEF TypeOK, SlotRow, NoSlot, There

LEMMA SuspendTyped ==
    ASSUME TypeOK, NEW r \in Requests, NEW q \in Suspension, Suspend(r, q)
    PROVE  req' \in [Requests -> Suspension]
  BY DEF TypeOK, Suspend

LEMMA IdleTyped == Idle \in Suspension
  BY DEF Suspension

\* Rows that a step may write.
LEMMA BookingTyped ==
    ASSUME TypeOK, NEW a \in Bookings
    PROVE  /\ appt[a] \in BookingRow
           /\ [appt[a] EXCEPT !.slot = None] \in BookingRow
           /\ \A k \in BookingRow, s \in Slots \cup {None} : [k EXCEPT !.slot = s] \in BookingRow
           /\ \A k \in BookingRow : [k EXCEPT !.status = "cancelled"] \in BookingRow
           /\ \A status \in {"gone", "unread", "unborn"} : NoBooking(status) \in BookingRow
<1>1. appt[a] \in BookingRow
  BY DEF TypeOK
<1>2. \A k \in BookingRow, s \in Slots \cup {None} : [k EXCEPT !.slot = s] \in BookingRow
  BY DEF BookingRow
<1>3. \A k \in BookingRow : [k EXCEPT !.status = "cancelled"] \in BookingRow
  BY DEF BookingRow
<1>4. \A status \in {"gone", "unread", "unborn"} : NoBooking(status) \in BookingRow
  BY DEF BookingRow, NoBooking
<1> QED BY <1>1, <1>2, <1>3, <1>4

\* What Unslotted and WithoutSlots leave, and that they are rows.
LEMMA DeletesTyped ==
    ASSUME TypeOK, NEW ids \in SUBSET Slots
    PROVE  /\ Unslotted(ids) \in [Bookings -> BookingRow]
           /\ WithoutSlots(ids) \in [Slots -> SlotRow]
  BY BookingTyped DEF Unslotted, WithoutSlots, SlotRow, TypeOK

\* A window that repeats every week is a set of windows.
LEMMA WeeklyTyped ==
    ASSUME NEW w \in Windows, NEW n \in Nat
    PROVE  WeeklyWindows(w, n) \in SUBSET Windows
<1>1. w[1] \in Int /\ w[2] \in Int
  BY DEF Windows
<1>2. \A k \in 0 .. n - 1 : <<w[1] + k * Week, w[2] + k * Week>> \in Windows
  <2> SUFFICES ASSUME NEW k \in 0 .. n - 1
               PROVE  <<w[1] + k * Week, w[2] + k * Week>> \in Windows
    OBVIOUS
  <2>1. k * Week \in Int
    BY AppointmentAssumption
  <2> QED BY <1>1, <2>1 DEF Windows
<1> QED BY <1>2 DEF WeeklyWindows

LEMMA TypeInit == Init => TypeOK
<1> SUFFICES ASSUME Init PROVE TypeOK
  OBVIOUS
<1>1. NoBooking("unborn") \in BookingRow
  BY DEF NoBooking, BookingRow
<1>2. NoSlot("unborn") \in SlotRow
  BY DEF SlotRow
<1>3. now \in 0 .. MaxTime
  BY AppointmentAssumption DEF Init
<1>4. role \in [Teachers -> Roles]
  BY DEF Init, Roles
<1> QED BY <1>1, <1>2, <1>3, <1>4, IdleTyped DEF Init, TypeOK

\* The slots a batch is published on.
LEMMA InsertTyped ==
    ASSUME TypeOK, NEW r \in Requests, InsertClaimed(r)
    PROVE  /\ slot' \in [Slots -> SlotRow]
           /\ \A s \in Slots : slot'[s] # slot[s] =>
                 /\ slot[s].status = "unborn" /\ slot'[s].status = "there"
                 /\ slot'[s].occupied = 0 /\ role[slot'[s].teacher] = "teacher"
<1>1. req[r] \in [pc : {"publish"}, teacher : Teachers, windows : SUBSET Windows]
  BY Shapes DEF InsertClaimed
<1> DEFINE ws == req[r].windows
           t == req[r].teacher
           Row(w) == [status |-> "there", teacher |-> t, win |-> w, series |-> ws,
                      occupied |-> 0]
<1>2. ws \in SUBSET Windows /\ t \in Teachers
  BY <1>1
<1>3. CASE slot' = slot
  BY <1>3 DEF TypeOK
<1>4. ASSUME NEW id \in [ws -> {s \in Slots : slot[s].status = "unborn"}], role[t] = "teacher",
             slot' = [s \in Slots |-> IF \E w \in ws : id[w] = s
                                      THEN Row(CHOOSE w \in ws : id[w] = s) ELSE slot[s]]
      PROVE  /\ slot' \in [Slots -> SlotRow]
             /\ \A s \in Slots : slot'[s] # slot[s] =>
                   /\ slot[s].status = "unborn" /\ slot'[s].status = "there"
                   /\ slot'[s].occupied = 0 /\ role[slot'[s].teacher] = "teacher"
  <2>1. ASSUME NEW w \in ws
        PROVE  /\ Row(w) \in SlotRow /\ Row(w).status = "there" /\ Row(w).occupied = 0
               /\ Row(w).teacher = t
    BY <1>2 DEF SlotRow
  <2>2. ASSUME NEW s \in Slots
        PROVE  \/ slot'[s] = slot[s]
               \/ slot[s].status = "unborn" /\ \E w \in ws : slot'[s] = Row(w)
    <3> HIDE DEF Row, ws
    <3>1. CASE \E w \in ws : id[w] = s
      <4>1. (CHOOSE w \in ws : id[w] = s) \in ws
        BY <3>1
      <4>2. slot'[s] = Row(CHOOSE w \in ws : id[w] = s)
        BY <1>4, <3>1
      <4> QED BY <1>4, <3>1, <4>1, <4>2
    <3>2. CASE ~\E w \in ws : id[w] = s
      BY <1>4, <3>2
    <3> QED BY <3>1, <3>2
  <2> HIDE DEF Row, ws
  <2>3. \A s \in Slots : slot'[s] \in SlotRow
    BY <2>1, <2>2 DEF TypeOK
  <2>4. slot' \in [Slots -> SlotRow]
    BY <1>4, <2>3
  <2> QED BY <1>4, <2>1, <2>2, <2>4
<1>5. t \in teaching => role[t] = "teacher"
  BY <1>2, AppointmentAssumption DEF teaching
<1> QED BY <1>3, <1>4, <1>5 DEF InsertClaimed, StillTeaches

\* The row a decision writes, and the seat it may give back.
LEMMA DecidedTyped ==
    ASSUME TypeOK, DecisionsOK, NEW r \in Requests, req[r].pc \in {"cas", "approve"},
           Decided(req[r])
    PROVE  slot' \in [Slots -> SlotRow] /\ appt' \in [Bookings -> BookingRow]
<1> DEFINE q == req[r]
<1>1. q.of \in Bookings /\ q.new \in BookingRow /\ q.expected.slot \in Slots
  BY Shapes DEF DecisionsOK, DecisionOK
<1>2. appt[q.of].slot \in Slots \cup {None}
  BY <1>1 DEF TypeOK, BookingRow
<1>3. [q.new EXCEPT !.slot = appt[q.of].slot] \in BookingRow
  BY <1>1, <1>2, BookingTyped
<1>4. appt' \in [Bookings -> BookingRow]
  BY <1>1, <1>3 DEF Decided, TypeOK
<1>5. slot' \in [Slots -> SlotRow]
  <2> DEFINE s == q.expected.slot
             n == IF slot[s].occupied > 0 THEN slot[s].occupied - 1 ELSE 0
  <2>1. CASE slot' = slot
    BY <2>1 DEF TypeOK
  <2>2. CASE slot' = [slot EXCEPT ![s].occupied = n]
    <3>1. slot[s].occupied \in Nat /\ slot[s] \in SlotRow
      BY <1>1 DEF TypeOK, SlotRow, NoSlot
    <3>2. n \in Nat /\ (slot[s].occupied = 0 => n = 0)
      BY <3>1
    <3>3. [slot[s] EXCEPT !.occupied = n] \in SlotRow
      <4> HIDE DEF n, s
      <4>1. CASE slot[s].status = "there"
        BY <3>1, <3>2, <4>1 DEF SlotRow, NoSlot
      <4>2. CASE slot[s].status # "there"
        <5>1. slot[s] = NoSlot("unborn") \/ slot[s] = NoSlot("gone")
          BY <3>1, <4>2 DEF SlotRow
        <5>2. [slot[s] EXCEPT !.occupied = n] = slot[s]
          BY <3>2, <5>1 DEF NoSlot
        <5> QED BY <3>1, <5>2
      <4> QED BY <4>1, <4>2
    <3> HIDE DEF n, s
    <3> QED BY <2>2, <3>3 DEF TypeOK
  <2> QED BY <2>1, <2>2 DEF Decided
<1> QED BY <1>4, <1>5

LEMMA TypeStep == TypeOK /\ DecisionsOK /\ [Next]_vars => TypeOK'
<1> SUFFICES ASSUME TypeOK, DecisionsOK, [Next]_vars PROVE TypeOK'
  OBVIOUS
<1>1. ASSUME NEW r \in Requests, NEW t \in Teachers, NEW w \in Hours, NEW n \in Repeats,
             PublishSlots(r, t, w, n)
      PROVE  TypeOK'
  <2>1. WeeklyWindows(w, n) \in SUBSET Windows
    BY WeeklyTyped, AppointmentAssumption DEF Windows
  <2>2. [pc |-> "publish", teacher |-> t, windows |-> WeeklyWindows(w, n)] \in Suspension
    BY <2>1 DEF Suspension
  <2>3. req' \in [Requests -> Suspension]
    BY <1>1, <2>2, SuspendTyped DEF PublishSlots
  <2> QED BY <1>1, <2>3 DEF PublishSlots, TypeOK
<1>2. ASSUME NEW r \in Requests, NEW u, NEW ids \in SUBSET Slots, DeleteFree(r, u, ids)
      PROVE  TypeOK'
  <2>1. \A gone \in SUBSET Bookings :
           [pc |-> "delete", ids |-> ids, gone |-> gone] \in Suspension
    BY DEF Suspension
  <2>2. req' \in [Requests -> Suspension]
    BY <1>2, <2>1, SuspendTyped DEF DeleteFree
  <2> QED BY <1>2, <2>2 DEF DeleteFree, TypeOK
<1>3. ASSUME NEW r \in Requests, NEW u, NEW s \in Slots,
             DeleteSlot(r, u, s) \/ DeleteSeries(r, u, s)
      PROVE  TypeOK'
  <2>1. /\ {s} \in SUBSET Slots
        /\ {o \in Slots : /\ There(o) /\ slot[o].teacher = slot[s].teacher
                          /\ slot[o].series = slot[s].series} \in SUBSET Slots
    OBVIOUS
  <2> QED BY <1>2, <1>3, <2>1 DEF DeleteSlot, DeleteSeries
<1>4. ASSUME NEW r \in Requests, InsertClaimed(r)
      PROVE  TypeOK'
  BY <1>4, InsertTyped, IdleTyped, SuspendTyped DEF InsertClaimed, TypeOK
<1>5. ASSUME NEW r \in Requests, DeleteCommit(r)
      PROVE  TypeOK'
  <2>1. req[r].ids \in SUBSET Slots
    BY <1>5, Shapes DEF DeleteCommit
  <2>2. slot' \in [Slots -> SlotRow]
    BY <1>5, <2>1, DeletesTyped DEF DeleteCommit, TypeOK
  <2>3. appt' \in [Bookings -> BookingRow]
    BY <1>5, <2>1, DeletesTyped, BookingTyped DEF DeleteCommit, TypeOK
  <2> QED BY <1>5, <2>2, <2>3, IdleTyped, SuspendTyped DEF DeleteCommit, TypeOK
<1>6. ASSUME NEW r \in Requests, NEW p \in People, NEW s \in Slots, Book(r, p, s)
      PROVE  TypeOK'
  <2>1. [pc |-> "claim", person |-> p, slot |-> s] \in Suspension
    BY DEF Suspension
  <2> QED BY <1>6, <2>1, SuspendTyped DEF Book, TypeOK
<1>7. ASSUME NEW r \in Requests, ClaimSlotAndCreate(r)
      PROVE  TypeOK'
  <2>1. req[r] \in [pc : {"claim"}, person : People, slot : Slots]
    BY <1>7, Shapes DEF ClaimSlotAndCreate
  <2>2. req' \in [Requests -> Suspension]
    BY <1>7, IdleTyped, SuspendTyped DEF ClaimSlotAndCreate
  <2>3. CASE UNCHANGED <<slot, appt>>
    BY <1>7, <2>2, <2>3 DEF ClaimSlotAndCreate, TypeOK
  <2>4. ASSUME There(req[r].slot), NEW a \in Bookings,
               slot' = [slot EXCEPT ![req[r].slot].occupied = slot[req[r].slot].occupied + 1],
               appt' = [appt EXCEPT ![a] =
                        [status |-> "pending", slot |-> req[r].slot,
                         requester |-> req[r].person, proposed |-> None,
                         decided_by |-> None]]
        PROVE  slot' \in [Slots -> SlotRow] /\ appt' \in [Bookings -> BookingRow]
    <3>1. [slot[req[r].slot] EXCEPT !.occupied = slot[req[r].slot].occupied + 1] \in SlotRow
      BY <2>1, <2>4, SlotShapes DEF SlotRow
    <3>2. [status |-> "pending", slot |-> req[r].slot, requester |-> req[r].person,
           proposed |-> None, decided_by |-> None] \in BookingRow
      BY <2>1 DEF BookingRow
    <3>3. slot' \in [Slots -> SlotRow]
      BY <2>4, <3>1 DEF TypeOK
    <3>4. appt' \in [Bookings -> BookingRow]
      BY <2>4, <3>2 DEF TypeOK
    <3> QED BY <3>3, <3>4
  <2> QED BY <1>7, <2>2, <2>3, <2>4 DEF ClaimSlotAndCreate, TypeOK
<1>8. ASSUME NEW r \in Requests, NEW a \in Bookings, NEW new \in BookingRow, Decide(r, a, new)
      PROVE  TypeOK'
  <2>1. [pc |-> "cas", of |-> a, expected |-> appt[a], new |-> new] \in Suspension
    BY DEF Suspension, TypeOK
  <2> QED BY <1>8, <2>1, SuspendTyped DEF Decide, TypeOK
<1>9. ASSUME NEW r \in Requests, NEW a \in Bookings,
             \/ \E u \in Teachers \cup Managers :
                   Reject(r, u, a) \/ \E w \in Offers : Propose(r, u, a, w)
             \/ Cancel(r, a)
      PROVE  TypeOK'
  <2>1. appt[a] \in BookingRow
    BY DEF TypeOK
  <2>2. /\ \A u \in Teachers \cup Managers :
              [appt[a] EXCEPT !.status = "rejected", !.decided_by = u] \in BookingRow
        /\ [appt[a] EXCEPT !.status = "cancelled"] \in BookingRow
    BY <2>1 DEF BookingRow
  <2>3. \A w \in Windows :
           [appt[a] EXCEPT !.status = "pending", !.decided_by = None, !.proposed = w]
              \in BookingRow
    BY <2>1 DEF BookingRow
  <2>4. Offers \subseteq Windows
    BY AppointmentAssumption DEF Windows
  <2> QED BY <1>8, <1>9, <2>2, <2>3, <2>4 DEF Reject, Propose, Cancel
<1>10. ASSUME NEW r \in Requests, SaveIfUnchanged(r) \/ ApproveCommit(r)
       PROVE  TypeOK'
  <2>1. req[r].pc \in {"cas", "approve"}
    BY <1>10 DEF SaveIfUnchanged, ApproveCommit
  <2>2. slot' \in [Slots -> SlotRow] /\ appt' \in [Bookings -> BookingRow]
    <3>1. Decided(req[r]) \/ UNCHANGED <<slot, appt>>
      BY <1>10 DEF SaveIfUnchanged, ApproveCommit
    <3> QED BY <2>1, <3>1, DecidedTyped DEF TypeOK
  <2> QED BY <1>10, <2>2, IdleTyped, SuspendTyped DEF SaveIfUnchanged, ApproveCommit, TypeOK
<1>11. ASSUME NEW r \in Requests, NEW a \in Bookings,
              NEW u \in Teachers \cup Managers \cup People \cup {None},
              NEW named \in Windows \cup {None}, ApproveRead(r, u, a, named)
       PROVE  TypeOK'
  <2> DEFINE snap == [b \in Bookings |-> IF appt[b].status = "approved"
                                         THEN appt[b] ELSE NoBooking("unread")]
             new == [appt[a] EXCEPT !.status = "approved", !.decided_by = u]
  <2>1. snap \in [Bookings -> BookingRow]
    BY BookingTyped
  <2>2. appt[a] \in BookingRow
    BY DEF TypeOK
  <2>3. new \in BookingRow
    BY <2>2 DEF BookingRow
  <2> HIDE DEF snap, new
  <2>4. [pc |-> "approve", of |-> a, named |-> named, expected |-> appt[a], new |-> new,
         read |-> snap] \in Suspension
    BY <2>1, <2>2, <2>3 DEF Suspension
  <2>5. Suspend(r, [pc |-> "approve", of |-> a, named |-> named, expected |-> appt[a],
                    new |-> new, read |-> snap])
    BY <1>11 DEF ApproveRead, snap, new
  <2>6. req' \in [Requests -> Suspension]
    BY <2>4, <2>5, SuspendTyped
  <2> QED BY <1>11, <2>6 DEF ApproveRead, TypeOK
<1>12. ASSUME NEW r \in Requests, NEW a \in Bookings,
              \/ \E u \in Teachers \cup Managers : Approve(r, u, a)
              \/ \E w \in Offers : AcceptProposal(r, a, w)
       PROVE  TypeOK'
  <2>1. appt[a].requester \in People \cup {None}
    BY DEF TypeOK, BookingRow
  <2>2. Offers \subseteq Windows
    BY AppointmentAssumption DEF Windows
  <2> QED BY <1>11, <1>12, <2>1, <2>2 DEF Approve, AcceptProposal
<1>13. ASSUME NEW t \in Teachers, DemoteCancels(t)
       PROVE  TypeOK'
  <2>1. {a \in Bookings : Live(a) /\ appt[a].slot \in Calendar(t)} \in SUBSET Bookings
    OBVIOUS
  <2>2. demoted' \in [Teachers -> (SUBSET Bookings) \cup {None}]
    BY <1>13, <2>1 DEF DemoteCancels, TypeOK
  <2> QED BY <1>13, <2>2 DEF DemoteCancels, TypeOK
<1>14. ASSUME NEW t \in Teachers, DemoteCommits(t)
       PROVE  TypeOK'
  <2>1. Calendar(t) \in SUBSET Slots
    BY DEF Calendar
  <2>2. slot' \in [Slots -> SlotRow]
    BY <1>14, <2>1, DeletesTyped DEF DemoteCommits
  <2>3. appt' \in [Bookings -> BookingRow]
    BY <1>14, <2>1, DeletesTyped, BookingTyped DEF DemoteCommits
  <2>4. demoted' \in [Teachers -> (SUBSET Bookings) \cup {None}]
    BY <1>14 DEF DemoteCommits, TypeOK
  <2>5. role' \in [Teachers -> Roles]
    BY <1>14 DEF DemoteCommits, TypeOK, Roles
  <2> QED BY <1>14, <2>2, <2>3, <2>4, <2>5 DEF DemoteCommits, TypeOK
<1>18. ASSUME NEW t \in Teachers, NEW new \in {"parent", "teacher"}, SetRole(t, new)
       PROVE  TypeOK'
  <2>1. role' \in [Teachers -> Roles]
    BY <1>18 DEF SetRole, TypeOK, Roles
  <2> QED BY <1>18, <2>1 DEF SetRole, TypeOK
<1>15. CASE Tick
  BY <1>15, AppointmentAssumption DEF Tick, TypeOK
<1>16. ASSUME NEW r \in Requests, Drop(r)
       PROVE  TypeOK'
  BY <1>16, IdleTyped, SuspendTyped DEF Drop, TypeOK
<1>17. CASE UNCHANGED vars
  BY <1>17 DEF vars, TypeOK
<1> QED BY <1>1, <1>3, <1>4, <1>5, <1>6, <1>7, <1>9, <1>10, <1>12, <1>13, <1>14, <1>15,
           <1>16, <1>17, <1>18 DEF Next, CalendarStep, BookingStep

-----------------------------------------------------------------------------
(* What a step may do to one slot and to one booking. *)

\* A slot is published once, by a teacher who is one, keeps its teacher and its hours, and is deleted once.
SlotStep(s) ==
    \/ /\ slot'[s].status = slot[s].status
       /\ slot'[s].teacher = slot[s].teacher /\ slot'[s].win = slot[s].win
    \/ /\ slot[s].status = "unborn" /\ slot'[s].status = "there"
       /\ role'[slot'[s].teacher] = "teacher" /\ appt' = appt
    \/ slot[s].status = "there" /\ slot'[s].status = "gone"

\* An approval of a booking goes through on what it read.
Approved(r, a) ==
    /\ req[r].pc = "approve" /\ req[r].of = a /\ slot' = slot
    /\ appt[a] = req[r].expected /\ Serializable(req[r])
    /\ appt' = [appt EXCEPT ![a] = [req[r].new EXCEPT !.slot = appt[a].slot]]

\* A booking is made once, on a slot that is there, and keeps that slot until it
\* loses it; only an approval makes it approved.
ApptStep(a) ==
    \/ appt'[a] = appt[a]
    \/ /\ appt[a].status = "unborn" /\ appt'[a].status = "pending"
       /\ There(appt'[a].slot) /\ slot'[appt'[a].slot].status = "there"
    \/ /\ appt[a].status # "unborn" /\ appt'[a].status # "unborn"
       /\ appt'[a].slot \in {appt[a].slot, None}
       /\ appt'[a].status = "gone" => appt'[a].slot = None
       /\ appt'[a].status = "approved" =>
             /\ appt[a].status = "approved"
             /\ appt'[a].proposed = appt[a].proposed
             /\ appt'[a].requester = appt[a].requester
    \/ \E r \in Requests : Approved(r, a)

\* What a delete of slots does to a booking: it loses its slot, or is left alone.
LEMMA UnslottedShape ==
    ASSUME TypeOK, SlotsHold, NEW ids \in SUBSET Slots, NEW a \in Bookings
    PROVE  \/ Unslotted(ids)[a] = appt[a] /\ appt[a].slot \notin ids
           \/ /\ Unslotted(ids)[a].slot = None
              /\ Unslotted(ids)[a].status = appt[a].status
              /\ Unslotted(ids)[a].proposed = appt[a].proposed
              /\ Unslotted(ids)[a].requester = appt[a].requester
              /\ appt[a].status # "unborn" /\ appt[a].slot \in ids
<1>0. appt[a] \in BookingRow
  BY DEF TypeOK
<1>1. CASE appt[a].slot \in ids
  <2>1. Unslotted(ids)[a] = [appt[a] EXCEPT !.slot = None]
    BY <1>1 DEF Unslotted
  <2>2. appt[a].status # "unborn"
    BY <1>1, AppointmentAssumption DEF SlotsHold
  <2> QED BY <1>0, <1>1, <2>1, <2>2 DEF BookingRow
<1>2. CASE appt[a].slot \notin ids
  BY <1>2 DEF Unslotted
<1> QED BY <1>1, <1>2

\* The steps that write a slot or a booking.
LEMMA Writers ==
    ASSUME [Next]_vars
    PROVE  \/ \E r \in Requests : \/ InsertClaimed(r) \/ DeleteCommit(r)
                                  \/ ClaimSlotAndCreate(r) \/ SaveIfUnchanged(r)
                                  \/ ApproveCommit(r)
           \/ \E t \in Teachers : DemoteCommits(t)
           \/ slot' = slot /\ appt' = appt
<1>1. ASSUME NEW r \in Requests, CalendarStep(r)
      PROVE  InsertClaimed(r) \/ DeleteCommit(r) \/ (slot' = slot /\ appt' = appt)
  BY <1>1 DEF CalendarStep, PublishSlots, DeleteSlot, DeleteSeries, DeleteFree
<1>2. ASSUME NEW r \in Requests, BookingStep(r)
      PROVE  \/ ClaimSlotAndCreate(r) \/ SaveIfUnchanged(r) \/ ApproveCommit(r)
             \/ slot' = slot /\ appt' = appt
  <2>1. ASSUME NEW u, NEW a, NEW w, NEW p, NEW o,
               \/ Book(r, p, o) \/ Approve(r, u, a) \/ AcceptProposal(r, a, w)
               \/ Reject(r, u, a) \/ Propose(r, u, a, w) \/ Cancel(r, a)
        PROVE  slot' = slot /\ appt' = appt
    BY <2>1 DEF Book, Approve, AcceptProposal, ApproveRead, Reject, Propose, Cancel, Decide
  <2> QED BY <1>2, <2>1 DEF BookingStep
<1>3. CASE UNCHANGED vars \/ Tick \/ (\E r \in Requests : Drop(r))
           \/ \E t \in Teachers : DemoteCancels(t) \/ \E new : SetRole(t, new)
  BY <1>3 DEF vars, Tick, DemoteCancels, SetRole, Drop
<1> QED BY <1>1, <1>2, <1>3 DEF Next

LEMMA SlotSteps ==
    ASSUME TypeOK, SlotsHold, DecisionsOK, [Next]_vars, NEW s \in Slots
    PROVE  SlotStep(s)
<1>1. ASSUME NEW r \in Requests, InsertClaimed(r)
      PROVE  SlotStep(s)
  <2>1. role' = role /\ appt' = appt
    BY <1>1 DEF InsertClaimed
  <2> QED BY <1>1, <2>1, InsertTyped DEF SlotStep
<1>2. ASSUME NEW ids \in SUBSET Slots, \A o \in ids : There(o), slot' = WithoutSlots(ids)
      PROVE  SlotStep(s)
  BY <1>2, SlotShapes DEF SlotStep, WithoutSlots, NoSlot
<1>3. ASSUME NEW o \in Slots, NEW n, slot' = [slot EXCEPT ![o].occupied = n]
      PROVE  SlotStep(s)
  <2>1. slot[o] \in SlotRow
    BY DEF TypeOK
  <2>2. /\ slot'[o].status = slot[o].status /\ slot'[o].teacher = slot[o].teacher
        /\ slot'[o].win = slot[o].win
    BY <1>3, <2>1 DEF SlotRow, NoSlot, TypeOK
  <2>3. s # o => slot'[s] = slot[s]
    BY <1>3 DEF TypeOK
  <2> QED BY <2>2, <2>3 DEF SlotStep
<1>4. ASSUME NEW r \in Requests, DeleteCommit(r)
      PROVE  SlotStep(s)
  <2>1. req[r].ids \in SUBSET Slots
    BY <1>4, Shapes DEF DeleteCommit
  <2> QED BY <1>2, <1>4, <2>1 DEF DeleteCommit, SlotStep
<1>5. ASSUME NEW r \in Requests, ClaimSlotAndCreate(r)
      PROVE  SlotStep(s)
  <2>1. req[r].slot \in Slots
    BY <1>5, Shapes DEF ClaimSlotAndCreate
  <2> QED BY <1>3, <1>5, <2>1 DEF ClaimSlotAndCreate, SlotStep
<1>6. ASSUME NEW r \in Requests, SaveIfUnchanged(r) \/ ApproveCommit(r)
      PROVE  SlotStep(s)
  <2>1. req[r].expected.slot \in Slots
    BY <1>6 DEF SaveIfUnchanged, ApproveCommit, DecisionsOK, DecisionOK
  <2> QED BY <1>3, <1>6, <2>1 DEF SaveIfUnchanged, ApproveCommit, Decided, SlotStep
<1>7. ASSUME NEW t \in Teachers, DemoteCommits(t)
      PROVE  SlotStep(s)
  <2>1. Calendar(t) \in SUBSET Slots /\ \A o \in Calendar(t) : There(o)
    BY DEF Calendar
  <2> QED BY <1>2, <1>7, <2>1 DEF DemoteCommits
<1>8. CASE slot' = slot
  BY <1>8 DEF SlotStep
<1> QED BY <1>1, <1>4, <1>5, <1>6, <1>7, <1>8, Writers

LEMMA BookingSteps ==
    ASSUME TypeOK, SlotsHold, DemotedOwn, DeletesOwn, DecisionsOK, [Next]_vars,
           NEW a \in Bookings
    PROVE  ApptStep(a)
<1>0. appt[a] \in BookingRow
  BY DEF TypeOK
<1>1. ASSUME NEW r \in Requests, DeleteCommit(r)
      PROVE  ApptStep(a)
  <2>1. req[r].ids \in SUBSET Slots
    BY <1>1, Shapes DEF DeleteCommit
  <2>2. CASE appt' = appt
    BY <2>2 DEF ApptStep
  <2>3. CASE /\ \A s \in req[r].ids : There(s)
             /\ appt' = [b \in Bookings |-> IF b \in req[r].gone THEN NoBooking("gone")
                                            ELSE Unslotted(req[r].ids)[b]]
    <3>1. CASE a \in req[r].gone
      <4>1. appt[a].status # "unborn"
        BY <1>1, <3>1 DEF DeleteCommit, DeletesOwn
      <4>2. appt'[a].status = "gone" /\ appt'[a].slot = None
        BY <2>3, <3>1 DEF NoBooking
      <4> QED BY <4>1, <4>2 DEF ApptStep
    <3>2. CASE a \notin req[r].gone
      <4>1. appt'[a] = Unslotted(req[r].ids)[a]
        BY <2>3, <3>2
      <4> QED BY <2>1, <2>3, <4>1, UnslottedShape DEF ApptStep
    <3> QED BY <3>1, <3>2
  <2> QED BY <1>1, <2>2, <2>3 DEF DeleteCommit
<1>2. ASSUME NEW r \in Requests, ClaimSlotAndCreate(r)
      PROVE  ApptStep(a)
  <2>1. req[r] \in [pc : {"claim"}, person : People, slot : Slots]
    BY <1>2, Shapes DEF ClaimSlotAndCreate
  <2>2. CASE appt' = appt
    BY <2>2 DEF ApptStep
  <2>3. ASSUME NEW b \in Bookings, appt[b].status = "unborn", There(req[r].slot),
               appt' = [appt EXCEPT ![b] =
                           [status |-> "pending", slot |-> req[r].slot,
                            requester |-> req[r].person, proposed |-> None,
                            decided_by |-> None]]
        PROVE  ApptStep(a)
    <3>1. a # b => appt'[a] = appt[a]
      BY <2>3 DEF TypeOK
    <3>2. a = b => appt'[a].status = "pending" /\ appt'[a].slot = req[r].slot
      BY <2>3 DEF TypeOK
    <3>3. slot'[req[r].slot].status = "there"
      <4>1. req[r].slot \in Slots /\ slot[req[r].slot].status = "there"
        BY <2>1, <2>3, SlotShapes
      <4>2. slot[req[r].slot] \in [status : {"there"}, teacher : Teachers, win : Windows,
                                   series : SUBSET Windows, occupied : Nat]
        BY <4>1, SlotShapes
      <4>3. slot' = slot \/ \E n : slot' = [slot EXCEPT ![req[r].slot].occupied = n]
        BY <1>2 DEF ClaimSlotAndCreate
      <4> QED BY <4>1, <4>2, <4>3 DEF TypeOK
    <3> QED BY <2>3, <3>1, <3>2, <3>3 DEF ApptStep
  <2> QED BY <1>2, <2>2, <2>3 DEF ClaimSlotAndCreate
<1>3. ASSUME NEW r \in Requests, SaveIfUnchanged(r)
      PROVE  ApptStep(a)
  <2>1. req[r] \in [pc : {"cas"}, of : Bookings, expected : BookingRow, new : BookingRow]
    BY <1>3, Shapes DEF SaveIfUnchanged
  <2>2. CASE appt' = appt
    BY <2>2 DEF ApptStep
  <2>3. CASE Decided(req[r])
    <3>1. /\ req[r].new.status \in {"pending", "rejected", "cancelled"}
          /\ appt[req[r].of].status # "unborn"
      BY <1>3 DEF SaveIfUnchanged, DecisionsOK, DecisionOK
    <3>2. a # req[r].of => appt'[a] = appt[a]
      BY <2>1, <2>3 DEF Decided, TypeOK
    <3>3. a = req[r].of => appt'[a] = [req[r].new EXCEPT !.slot = appt[a].slot]
      BY <2>1, <2>3 DEF Decided, TypeOK
    <3>4. a = req[r].of => /\ appt'[a].status = req[r].new.status
                           /\ appt'[a].slot = appt[a].slot
      BY <2>1, <3>3 DEF BookingRow
    <3> QED BY <3>1, <3>2, <3>4 DEF ApptStep
  <2> QED BY <1>3, <2>2, <2>3 DEF SaveIfUnchanged
<1>4. ASSUME NEW r \in Requests, ApproveCommit(r)
      PROVE  ApptStep(a)
  <2>1. req[r].of \in Bookings
    BY <1>4, Shapes DEF ApproveCommit
  <2>2. CASE appt' = appt
    BY <2>2 DEF ApptStep
  <2>3. CASE /\ Decided(req[r]) /\ appt[req[r].of] = req[r].expected
             /\ Serializable(req[r])
    <3>1. req[r].new.status = "approved"
      BY <1>4 DEF ApproveCommit, DecisionsOK, DecisionOK
    <3>2. a = req[r].of => Approved(r, a)
      BY <1>4, <2>3, <3>1 DEF Decided, Approved, ApproveCommit
    <3>3. a # req[r].of => appt'[a] = appt[a]
      BY <2>1, <2>3 DEF Decided, TypeOK
    <3> QED BY <3>2, <3>3 DEF ApptStep
  <2> QED BY <1>4, <2>2, <2>3 DEF ApproveCommit
<1>5. ASSUME NEW t \in Teachers, DemoteCommits(t)
      PROVE  ApptStep(a)
  <2> DEFINE ids == Calendar(t)
  <2>1. ids \in SUBSET Slots /\ \A o \in ids : There(o)
    BY DEF Calendar
  <2>2. appt'[a] = IF a \in demoted[t]
                   THEN [Unslotted(ids)[a] EXCEPT !.status = "cancelled"]
                   ELSE Unslotted(ids)[a]
    BY <1>5 DEF DemoteCommits
  <2>3. Unslotted(ids)[a] \in BookingRow
    BY <2>1, DeletesTyped
  <2> HIDE DEF ids
  <2>4. CASE a \in demoted[t]
    <3>1. appt[a].status # "unborn"
      BY <1>5, <2>4 DEF DemoteCommits, DemotedOwn
    <3>2. appt'[a].status = "cancelled" /\ appt'[a].slot = Unslotted(ids)[a].slot
      BY <2>2, <2>3, <2>4 DEF BookingRow
    <3>3. Unslotted(ids)[a].slot \in {appt[a].slot, None}
      BY <2>1, UnslottedShape
    <3> QED BY <3>1, <3>2, <3>3 DEF ApptStep
  <2>5. CASE a \notin demoted[t]
    <3>1. appt'[a] = Unslotted(ids)[a]
      BY <2>2, <2>5
    <3> QED BY <2>1, <3>1, UnslottedShape DEF ApptStep
  <2> QED BY <2>4, <2>5
<1>6. CASE appt' = appt
  BY <1>6 DEF ApptStep
<1>7. ASSUME NEW r \in Requests, InsertClaimed(r)
      PROVE  appt' = appt
  BY <1>7 DEF InsertClaimed
<1> QED BY <1>1, <1>2, <1>3, <1>4, <1>5, <1>6, <1>7, Writers

\* What an approval makes of its booking.
LEMMA ApprovedShape ==
    ASSUME TypeOK, DecisionsOK, NEW r \in Requests, NEW a \in Bookings, Approved(r, a)
    PROVE  /\ appt[a].status \in LiveStatus /\ appt'[a].status = "approved"
           /\ appt'[a].slot = appt[a].slot /\ appt'[a].proposed = appt[a].proposed
           /\ appt'[a].requester = appt[a].requester
           /\ appt'[a].decided_by = req[r].new.decided_by
           /\ \A b \in Bookings \ {a} : appt'[b] = appt[b]
<1>1. req[r].new \in BookingRow
  BY Shapes DEF Approved
<1>2. appt'[a] = [req[r].new EXCEPT !.slot = appt[a].slot]
  BY DEF Approved, TypeOK
<1>3. /\ appt'[a].slot = appt[a].slot
      /\ appt'[a].status = req[r].new.status
      /\ appt'[a].proposed = req[r].new.proposed
      /\ appt'[a].requester = req[r].new.requester
      /\ appt'[a].decided_by = req[r].new.decided_by
  BY <1>1, <1>2 DEF BookingRow
<1>4. DecisionOK(req[r]) /\ appt[a] = req[r].expected /\ req[r].pc = "approve"
  BY DEF DecisionsOK, Approved
<1>5. \A b \in Bookings \ {a} : appt'[b] = appt[b]
  BY DEF Approved, TypeOK
<1> QED BY <1>3, <1>4, <1>5 DEF DecisionOK

\* A booking's status once made, and its slot: kept or lost.
LEMMA ApptKeeps ==
    ASSUME TypeOK, DecisionsOK, NEW a \in Bookings, ApptStep(a), appt[a].status # "unborn"
    PROVE  /\ appt'[a].status # "unborn"
           /\ appt'[a].slot \in {appt[a].slot, None}
<1>1. ASSUME NEW r \in Requests, Approved(r, a)
      PROVE  appt'[a].status # "unborn" /\ appt'[a].slot \in {appt[a].slot, None}
  BY <1>1, ApprovedShape
<1> QED BY <1>1 DEF ApptStep

\* No booking is left on a slot that goes.
LEMMA GoneUnslotted ==
    ASSUME TypeOK, SlotsHold, DecisionsOK, [Next]_vars, NEW s \in Slots,
           slot[s].status = "there", slot'[s].status = "gone", NEW a \in Bookings
    PROVE  appt'[a].slot # s
<1>0. ASSUME NEW ids \in SUBSET Slots, slot' = WithoutSlots(ids)
      PROVE  s \in ids
  BY <1>0 DEF WithoutSlots
<1>00. None \notin Slots
  BY AppointmentAssumption
<1>1. ASSUME NEW r \in Requests, DeleteCommit(r)
      PROVE  appt'[a].slot # s
  <2>1. req[r].ids \in SUBSET Slots
    BY <1>1, Shapes DEF DeleteCommit
  <2>2. s \in req[r].ids /\ appt'[a] = IF a \in req[r].gone THEN NoBooking("gone")
                                       ELSE Unslotted(req[r].ids)[a]
    BY <1>0, <1>1, <2>1 DEF DeleteCommit
  <2>3. CASE a \in req[r].gone
    BY <1>00, <2>2, <2>3 DEF NoBooking
  <2>4. CASE a \notin req[r].gone
    BY <1>00, <2>1, <2>2, <2>4, UnslottedShape
  <2> QED BY <2>3, <2>4
<1>2. ASSUME NEW t \in Teachers, DemoteCommits(t)
      PROVE  appt'[a].slot # s
  <2> DEFINE ids == Calendar(t)
  <2>1. ids \in SUBSET Slots
    BY DEF Calendar
  <2>2. s \in ids
    BY <1>0, <1>2, <2>1 DEF DemoteCommits
  <2>3. appt'[a] \in {Unslotted(ids)[a], [Unslotted(ids)[a] EXCEPT !.status = "cancelled"]}
    BY <1>2 DEF DemoteCommits
  <2>4. Unslotted(ids)[a] \in BookingRow
    BY <2>1, DeletesTyped
  <2> HIDE DEF ids
  <2>5. appt'[a].slot = Unslotted(ids)[a].slot
    BY <2>3, <2>4 DEF BookingRow
  <2> QED BY <1>00, <2>1, <2>2, <2>5, UnslottedShape
<1>3. ASSUME NEW o, NEW n, slot' = [slot EXCEPT ![o].occupied = n]
      PROVE  FALSE
  <2>1. slot[s] \in [status : {"there"}, teacher : Teachers, win : Windows,
                     series : SUBSET Windows, occupied : Nat]
    BY SlotShapes
  <2>2. slot'[s] = slot[s] \/ slot'[s] = [slot[s] EXCEPT !.occupied = n]
    BY <1>3 DEF TypeOK
  <2> QED BY <2>1, <2>2
<1>4. ASSUME NEW r \in Requests, ClaimSlotAndCreate(r) \/ SaveIfUnchanged(r) \/ ApproveCommit(r)
      PROVE  FALSE
  <2>1. ASSUME ClaimSlotAndCreate(r)
        PROVE  FALSE
    <3>1. \/ slot' = slot
          \/ slot' = [slot EXCEPT ![req[r].slot].occupied = slot[req[r].slot].occupied + 1]
      BY <2>1 DEF ClaimSlotAndCreate
    <3> QED BY <1>3, <3>1
  <2>2. ASSUME Decided(req[r])
        PROVE  FALSE
    <3>1. \/ slot' = slot
          \/ slot' = [slot EXCEPT ![req[r].expected.slot].occupied =
                         IF slot[req[r].expected.slot].occupied > 0
                         THEN slot[req[r].expected.slot].occupied - 1 ELSE 0]
      BY <2>2 DEF Decided
    <3> QED BY <1>3, <3>1
  <2> QED BY <1>4, <2>1, <2>2 DEF SaveIfUnchanged, ApproveCommit
<1>5. ASSUME NEW r \in Requests, InsertClaimed(r)
      PROVE  FALSE
  BY <1>5, InsertTyped
<1> QED BY <1>1, <1>2, <1>4, <1>5, Writers

LEMMA SlotsHoldStep ==
    ASSUME TypeOK, SlotsHold, DemotedOwn, DeletesOwn, DecisionsOK, [Next]_vars
    PROVE  SlotsHold'
<1> SUFFICES ASSUME NEW a \in Bookings
             PROVE  /\ appt'[a].slot # None => slot'[appt'[a].slot].status = "there"
                    /\ appt'[a].status \in {"unborn", "gone"} => appt'[a].slot = None
  BY DEF SlotsHold, There
<1>1. ApptStep(a)
  BY BookingSteps
<1>2. appt[a].slot \in Slots \cup {None}
  BY DEF TypeOK, BookingRow
<1>3. ASSUME appt'[a].slot = appt[a].slot, appt[a].slot # None
      PROVE  slot'[appt'[a].slot].status = "there"
  <2>1. appt[a].slot \in Slots /\ slot[appt[a].slot].status = "there"
    BY <1>2, <1>3 DEF SlotsHold, There
  <2>2. slot'[appt[a].slot].status \in {"there", "gone"}
    BY <2>1, SlotSteps DEF SlotStep
  <2> QED BY <1>3, <2>1, <2>2, GoneUnslotted
<1>4. ASSUME NEW r \in Requests, Approved(r, a)
      PROVE  appt'[a].slot = appt[a].slot /\ appt'[a].status = "approved"
  BY <1>4, ApprovedShape
<1> QED BY <1>1, <1>3, <1>4 DEF ApptStep, SlotsHold

LEMMA DemotedStep ==
    ASSUME TypeOK, SlotsHold, DemotedOwn, DeletesOwn, DecisionsOK, [Next]_vars
    PROVE  DemotedOwn'
<1>0. SlotsHold'
  BY SlotsHoldStep
<1>1. ASSUME NEW t \in Teachers, NEW a \in Bookings, appt[a].status # "unborn",
             appt[a].slot # None => slot[appt[a].slot].teacher = t
      PROVE  /\ appt'[a].status # "unborn"
             /\ appt'[a].slot # None => slot'[appt'[a].slot].teacher = t
  <2>1. appt'[a].status # "unborn" /\ appt'[a].slot \in {appt[a].slot, None}
    BY <1>1, BookingSteps, ApptKeeps
  <2>2. ASSUME appt'[a].slot # None
        PROVE  slot'[appt'[a].slot].teacher = t
    <3>1. /\ appt[a].slot \in Slots /\ appt'[a].slot = appt[a].slot
          /\ slot[appt[a].slot].status = "there" /\ slot'[appt[a].slot].status = "there"
      BY <1>0, <2>1, <2>2 DEF SlotsHold, There, TypeOK, BookingRow
    <3>2. SlotStep(appt[a].slot)
      BY <3>1, SlotSteps
    <3>3. slot'[appt[a].slot].teacher = slot[appt[a].slot].teacher
      BY <3>1, <3>2 DEF SlotStep
    <3>4. slot[appt[a].slot].teacher = t
      BY <1>1, <2>2, <3>1
    <3> QED BY <3>1, <3>3, <3>4
  <2> QED BY <2>1, <2>2
<1>2. ASSUME NEW t \in Teachers, DemoteCancels(t)
      PROVE  DemotedOwn'
  <2>1. \A u \in Teachers \ {t} : demoted'[u] = demoted[u]
    BY <1>2 DEF DemoteCancels, TypeOK
  <2>2. \A a \in demoted'[t] :
           a \in Bookings /\ appt[a].status # "unborn" /\ slot[appt[a].slot].teacher = t
    BY <1>2 DEF DemoteCancels, Live, Calendar, TypeOK
  <2>3. appt' = appt /\ slot' = slot
    BY <1>2 DEF DemoteCancels
  <2> QED BY <2>1, <2>2, <2>3 DEF DemotedOwn, Demoting
<1>3. CASE \A t \in Teachers : demoted'[t] \in {demoted[t], None}
  <2>1. \A t \in Teachers : Demoting(t) => demoted[t] \in SUBSET Bookings
    BY DEF TypeOK, Demoting
  <2> QED BY <1>1, <1>3, <2>1 DEF DemotedOwn, Demoting
<1>4. ASSUME NEW t \in Teachers, DemoteCommits(t)
      PROVE  \A u \in Teachers : demoted'[u] \in {demoted[u], None}
  BY <1>4 DEF DemoteCommits, TypeOK
<1>5. demoted' = demoted \/ \E t \in Teachers : DemoteCancels(t) \/ DemoteCommits(t)
  <2>1. ASSUME NEW r \in Requests, CalendarStep(r)
        PROVE  demoted' = demoted
    BY <2>1 DEF CalendarStep, PublishSlots, DeleteSlot, DeleteSeries, DeleteFree,
                InsertClaimed, DeleteCommit
  <2>2. ASSUME NEW r \in Requests, BookingStep(r)
        PROVE  demoted' = demoted
    BY <2>2 DEF BookingStep, Book, Approve, AcceptProposal, ApproveRead, Reject, Propose,
                Cancel, Decide, ClaimSlotAndCreate, SaveIfUnchanged, ApproveCommit
  <2> QED BY <2>1, <2>2 DEF Next, Drop, Tick, SetRole, vars
<1> QED BY <1>2, <1>3, <1>4, <1>5


-----------------------------------------------------------------------------
(* What a suspended request knows. *)

\* A request that reads changes no row, and reads a booking that is live on a
\* slot that is there.
ReadStep(r) ==
    /\ slot' = slot /\ appt' = appt
    /\ \/ req'[r].pc \in {"publish", "claim"}
       \/ \E ids \in SUBSET Slots : \E u : DeleteFree(r, u, ids)
       \/ \E a \in Bookings : \E new :
             /\ Decide(r, a, new) /\ Live(a) /\ There(appt[a].slot)
             /\ new.status \in {"pending", "rejected", "cancelled"}
       \/ \E a \in Bookings : \E u, w :
             /\ ApproveRead(r, u, a, w)
             /\ HasProposal(a) => w = appt[a].proposed /\ u = appt[a].requester

\* A step leaves a request alone, ends it, or is its read.
LEMMA Reads ==
    ASSUME TypeOK, [Next]_vars, NEW r \in Requests
    PROVE  req'[r] = req[r] \/ req'[r] = Idle \/ ReadStep(r)
<1> DEFINE G == req'[r] = req[r] \/ req'[r] = Idle \/ ReadStep(r)
<1>1. ASSUME NEW o \in Requests, NEW q, Suspend(o, q)
      PROVE  (o # r => req'[r] = req[r]) /\ (o = r => req'[r] = q)
  BY <1>1 DEF Suspend, TypeOK
<1>2. ASSUME NEW o \in Requests, Suspend(o, Idle)
      PROVE  G
  BY <1>1, <1>2
<1>3. ASSUME NEW o \in Requests, NEW t, NEW w, NEW n, PublishSlots(o, t, w, n)
      PROVE  G
  BY <1>1, <1>3 DEF PublishSlots, ReadStep
<1>4. ASSUME NEW o \in Requests, NEW u, NEW ids \in SUBSET Slots, DeleteFree(o, u, ids)
      PROVE  G
  <2>1. o # r => req'[r] = req[r]
    BY <1>1, <1>4 DEF DeleteFree
  <2>2. slot' = slot /\ appt' = appt
    BY <1>4 DEF DeleteFree
  <2> QED BY <1>4, <2>1, <2>2 DEF ReadStep
<1>5. ASSUME NEW o \in Requests, NEW u, NEW s \in Slots,
             DeleteSlot(o, u, s) \/ DeleteSeries(o, u, s)
      PROVE  G
  <2>1. /\ {s} \in SUBSET Slots
        /\ {x \in Slots : /\ There(x) /\ slot[x].teacher = slot[s].teacher
                          /\ slot[x].series = slot[s].series} \in SUBSET Slots
    OBVIOUS
  <2> HIDE DEF G
  <2>2. CASE DeleteSlot(o, u, s)
    BY <1>4, <2>1, <2>2 DEF DeleteSlot
  <2>3. CASE DeleteSeries(o, u, s)
    BY <1>4, <2>1, <2>3 DEF DeleteSeries
  <2> QED BY <1>5, <2>2, <2>3
<1>6. ASSUME NEW o \in Requests, NEW p, NEW s, Book(o, p, s)
      PROVE  G
  BY <1>1, <1>6 DEF Book, ReadStep
<1>7. ASSUME NEW o \in Requests, NEW a \in Bookings, NEW new, Decide(o, a, new),
             Live(a), There(appt[a].slot), new.status \in {"pending", "rejected", "cancelled"}
      PROVE  G
  <2>1. o # r => req'[r] = req[r]
    BY <1>1, <1>7 DEF Decide
  <2>2. slot' = slot /\ appt' = appt
    BY <1>7 DEF Decide
  <2> QED BY <1>7, <2>1, <2>2 DEF ReadStep
<1>8. ASSUME NEW o \in Requests, NEW a \in Bookings, NEW u, NEW w,
             Reject(o, u, a) \/ Propose(o, u, a, w) \/ Cancel(o, a)
      PROVE  G
  <2>1. appt[a] \in BookingRow
    BY DEF TypeOK
  <2>2. /\ [appt[a] EXCEPT !.status = "rejected", !.decided_by = u].status = "rejected"
        /\ [appt[a] EXCEPT !.status = "pending", !.decided_by = None,
                           !.proposed = w].status = "pending"
        /\ [appt[a] EXCEPT !.status = "cancelled"].status = "cancelled"
    BY <2>1 DEF BookingRow
  <2> HIDE DEF G
  <2> QED BY <1>7, <1>8, <2>2 DEF Reject, Propose, Cancel, ForDecision, Live
<1>9. ASSUME NEW o \in Requests, NEW a \in Bookings, NEW u, NEW w, ApproveRead(o, u, a, w),
             HasProposal(a) => w = appt[a].proposed /\ u = appt[a].requester
      PROVE  G
  <2>1. o # r => req'[r] = req[r]
    BY <1>1, <1>9 DEF ApproveRead
  <2>2. slot' = slot /\ appt' = appt
    BY <1>9 DEF ApproveRead
  <2> QED BY <1>9, <2>1, <2>2 DEF ReadStep
<1>10. ASSUME NEW o \in Requests, NEW a \in Bookings, NEW u, NEW w,
              Approve(o, u, a) \/ AcceptProposal(o, a, w)
       PROVE  G
  <2> HIDE DEF G
  <2> QED BY <1>9, <1>10 DEF Approve, AcceptProposal, Proposes
<1>11. ASSUME NEW o \in Requests, CalendarStep(o)
       PROVE  G
  <2> HIDE DEF G
  <2> QED BY <1>2, <1>3, <1>5, <1>11 DEF CalendarStep, InsertClaimed, DeleteCommit
<1>12. ASSUME NEW o \in Requests, BookingStep(o)
       PROVE  G
  <2> HIDE DEF G
  <2> QED BY <1>2, <1>6, <1>8, <1>10, <1>12
          DEF BookingStep, ClaimSlotAndCreate, SaveIfUnchanged, ApproveCommit
<1>13. ASSUME NEW o \in Requests, Drop(o)
       PROVE  G
  <2> HIDE DEF G
  <2> QED BY <1>2, <1>13 DEF Drop
<1>14. CASE \/ \E t \in Teachers : DemoteCancels(t) \/ DemoteCommits(t) \/ \E new : SetRole(t, new)
            \/ Tick \/ UNCHANGED vars
  BY <1>14 DEF DemoteCancels, DemoteCommits, SetRole, Tick, vars
<1>15. \/ \E o \in Requests : CalendarStep(o) \/ BookingStep(o) \/ Drop(o)
       \/ \E t \in Teachers : DemoteCancels(t) \/ DemoteCommits(t) \/ \E new : SetRole(t, new)
       \/ Tick \/ UNCHANGED vars
  BY DEF Next
<1> QED BY <1>11, <1>12, <1>13, <1>14, <1>15

LEMMA DeletesStep ==
    ASSUME TypeOK, SlotsHold, DemotedOwn, DeletesOwn, DecisionsOK, [Next]_vars
    PROVE  DeletesOwn'
<1> SUFFICES ASSUME NEW r \in Requests, req'[r].pc = "delete", NEW a \in req'[r].gone
             PROVE  appt'[a].status # "unborn" /\ appt'[a].slot \in req'[r].ids \cup {None}
  BY DEF DeletesOwn
<1>1. CASE req'[r] = req[r]
  <2>1. a \in Bookings
    BY <1>1, Shapes
  <2>2. appt[a].status # "unborn" /\ appt[a].slot \in req[r].ids \cup {None}
    BY <1>1 DEF DeletesOwn
  <2>3. ApptStep(a)
    BY <2>1, BookingSteps
  <2>4. appt'[a].status # "unborn" /\ appt'[a].slot \in {appt[a].slot, None}
    BY <2>1, <2>2, <2>3, ApptKeeps
  <2> QED BY <1>1, <2>2, <2>4
<1>2. CASE req'[r] = Idle
  BY <1>2 DEF Idle
<1>3. CASE ReadStep(r)
  <2>1. ASSUME NEW u, NEW ids \in SUBSET Slots, DeleteFree(r, u, ids)
        PROVE  /\ appt'[a].status # "unborn"
               /\ appt'[a].slot \in req'[r].ids \cup {None}
    <3>1. /\ req'[r].ids = ids /\ a \in Bookings /\ appt[a].slot \in ids /\ appt' = appt
      BY <2>1 DEF DeleteFree, Suspend, TypeOK
    <3> QED BY <3>1, AppointmentAssumption DEF SlotsHold
  <2>2. ASSUME NEW b, NEW new, NEW u, NEW w,
               Decide(r, b, new) \/ ApproveRead(r, u, b, w)
        PROVE  FALSE
    BY <2>2 DEF Decide, ApproveRead, Suspend, TypeOK
  <2> QED BY <1>3, <2>1, <2>2 DEF ReadStep
<1> QED BY <1>1, <1>2, <1>3, Reads

LEMMA DecisionsStep ==
    ASSUME TypeOK, SlotsHold, DemotedOwn, DeletesOwn, DecisionsOK, [Next]_vars
    PROVE  DecisionsOK'
<1> SUFFICES ASSUME NEW r \in Requests, req'[r].pc \in {"cas", "approve"}
             PROVE  DecisionOK(req[r])'
  BY DEF DecisionsOK
<1>1. ASSUME NEW q, q = req[r], req'[r] = q
      PROVE  DecisionOK(q)'
  <2>1. DecisionOK(q) /\ q.of \in Bookings
    BY <1>1, Shapes DEF DecisionsOK
  <2>2. ApptStep(q.of)
    BY <2>1, BookingSteps
  <2>3. appt'[q.of].status # "unborn" /\ appt'[q.of].slot \in {appt[q.of].slot, None}
    BY <2>1, <2>2, ApptKeeps DEF DecisionOK
  <2>4. SlotStep(q.expected.slot)
    BY <2>1, SlotSteps DEF DecisionOK
  <2>5. slot'[q.expected.slot].status # "unborn"
    BY <2>1, <2>4 DEF DecisionOK, SlotStep
  <2> QED BY <2>1, <2>3, <2>5 DEF DecisionOK
<1>2. CASE req'[r] = req[r]
  <2>1. PICK q : q = req[r]
    OBVIOUS
  <2>2. DecisionOK(q)' /\ req'[r] = q
    BY <1>1, <1>2, <2>1
  <2> QED BY <2>2 DEF DecisionOK
<1>3. CASE req'[r] = Idle
  BY <1>3 DEF Idle
<1>4. ASSUME NEW a \in Bookings, Live(a), There(appt[a].slot)
      PROVE  /\ appt[a].status \in LiveStatus /\ appt[a].status # "unborn"
             /\ appt[a].slot \in Slots /\ slot[appt[a].slot].status # "unborn"
  BY <1>4 DEF Live, There, TypeOK, BookingRow, LiveStatus
<1>5. CASE ReadStep(r)
  <2>1. ASSUME NEW ids, NEW u, DeleteFree(r, u, ids)
        PROVE  FALSE
    BY <2>1 DEF DeleteFree, Suspend, TypeOK
  <2>2. ASSUME NEW a \in Bookings, NEW new, Decide(r, a, new), Live(a), There(appt[a].slot),
               new.status \in {"pending", "rejected", "cancelled"}
        PROVE  DecisionOK(req[r])'
    <3>1. /\ req'[r] = [pc |-> "cas", of |-> a, expected |-> appt[a], new |-> new]
          /\ slot' = slot /\ appt' = appt
      BY <2>2 DEF Decide, Suspend, TypeOK
    <3> QED BY <1>4, <2>2, <3>1 DEF DecisionOK
  <2>3. ASSUME NEW a \in Bookings, NEW u, NEW w, ApproveRead(r, u, a, w),
               HasProposal(a) => w = appt[a].proposed /\ u = appt[a].requester
        PROVE  DecisionOK(req[r])'
    <3> DEFINE new == [appt[a] EXCEPT !.status = "approved", !.decided_by = u]
    <3>1. /\ req'[r].pc = "approve" /\ req'[r].of = a /\ req'[r].named = w
          /\ req'[r].expected = appt[a] /\ req'[r].new = new
          /\ slot' = slot /\ appt' = appt
      BY <2>3 DEF ApproveRead, Suspend, TypeOK
    <3>2. appt[a] \in BookingRow
      BY DEF TypeOK
    <3>3. /\ new.status = "approved" /\ new.proposed = appt[a].proposed
          /\ new.requester = appt[a].requester /\ new.decided_by = u
      BY <3>2 DEF BookingRow
    <3>4. Live(a) /\ There(appt[a].slot)
      BY <2>3 DEF ApproveRead, Live
    <3> HIDE DEF new
    <3> QED BY <1>4, <2>3, <3>1, <3>3, <3>4 DEF DecisionOK, HasProposal
  <2> QED BY <1>5, <2>1, <2>2, <2>3 DEF ReadStep
<1> QED BY <1>2, <1>3, <1>5, Reads

\* A slot that is there was there, with the teacher and the hours it has, unless
\* it has just been published.
LEMMA SlotStands ==
    ASSUME TypeOK, SlotsHold, DecisionsOK, [Next]_vars, NEW s \in Slots,
           slot[s].status # "unborn", slot'[s].status = "there"
    PROVE  /\ slot[s].status = "there"
           /\ slot'[s].teacher = slot[s].teacher /\ slot'[s].win = slot[s].win
<1>1. SlotStep(s)
  BY SlotSteps
<1> QED BY <1>1 DEF SlotStep

LEMMA SnapshotsStep ==
    ASSUME TypeOK, SlotsHold, DemotedOwn, DeletesOwn, DecisionsOK, SnapshotsOK, [Next]_vars
    PROVE  SnapshotsOK'
<1> SUFFICES ASSUME NEW r \in Requests, req'[r].pc = "approve"
             PROVE  SnapshotOK(req[r])'
  BY DEF SnapshotsOK
<1>1. ASSUME NEW q, q = req[r], req'[r] = q
      PROVE  SnapshotOK(q)'
  <2>1. /\ SnapshotOK(q) /\ q.read \in [Bookings -> BookingRow]
        /\ q.expected.slot \in Slots /\ slot[q.expected.slot].status # "unborn"
    BY <1>1, Shapes DEF SnapshotsOK, DecisionsOK, DecisionOK
  <2> SUFFICES ASSUME NEW b \in Bookings \ {q.of}, q.read[b].status = "approved"
               PROVE  /\ q.read[b].slot # None => slot'[q.read[b].slot].status # "unborn"
                      /\ Related(q.read[b], q.expected)'
                            => ~Overlaps(WindowOf(q.read[b]), WindowOf(q.expected))'
    BY DEF SnapshotOK
  <2> DEFINE s == q.read[b].slot
             e == q.expected.slot
  <2>2. s \in Slots \cup {None}
    BY <2>1 DEF BookingRow
  <2>3. s # None => s \in Slots /\ slot[s].status # "unborn"
    BY <2>1, <2>2 DEF SnapshotOK
  <2>4. s # None => slot'[s].status # "unborn"
    <3>1. ASSUME s # None PROVE SlotStep(s)
      BY <2>3, <3>1, SlotSteps
    <3> QED BY <2>3, <3>1 DEF SlotStep
  <2>5. ASSUME Related(q.read[b], q.expected)'
        PROVE  ~Overlaps(WindowOf(q.read[b]), WindowOf(q.expected))'
    <3>1. s # None /\ slot'[s].status = "there" /\ slot'[e].status = "there"
      BY <2>5 DEF Related, There
    <3>2. /\ slot[s].status = "there"
          /\ slot'[s].teacher = slot[s].teacher /\ slot'[s].win = slot[s].win
      BY <2>3, <3>1, SlotStands
    <3>3. /\ slot[e].status = "there"
          /\ slot'[e].teacher = slot[e].teacher /\ slot'[e].win = slot[e].win
      BY <2>1, <3>1, SlotStands
    <3>4. Related(q.read[b], q.expected)
      BY <2>5, <3>1, <3>2, <3>3 DEF Related, There
    <3>5. ~Overlaps(WindowOf(q.read[b]), WindowOf(q.expected))
      BY <2>1, <3>4 DEF SnapshotOK
    <3>6. /\ WindowOf(q.read[b])' = WindowOf(q.read[b])
          /\ WindowOf(q.expected)' = WindowOf(q.expected)
      BY <3>2, <3>3 DEF WindowOf
    <3> QED BY <3>5, <3>6 DEF Overlaps
  <2> QED BY <2>4, <2>5
<1>2. CASE req'[r] = req[r]
  <2>1. PICK q : q = req[r]
    OBVIOUS
  <2>2. SnapshotOK(q)' /\ req'[r] = q
    BY <1>1, <1>2, <2>1
  <2> QED BY <2>2 DEF SnapshotOK, Related, WindowOf
<1>3. CASE req'[r] = Idle
  BY <1>3 DEF Idle
<1>4. CASE ReadStep(r)
  <2>1. ASSUME NEW ids, NEW u, NEW a, NEW new, DeleteFree(r, u, ids) \/ Decide(r, a, new)
        PROVE  FALSE
    BY <2>1 DEF DeleteFree, Decide, Suspend, TypeOK
  <2>2. ASSUME NEW a \in Bookings, NEW u, NEW w, ApproveRead(r, u, a, w)
        PROVE  SnapshotOK(req[r])'
    <3>1. /\ req'[r].of = a /\ req'[r].expected = appt[a]
          /\ req'[r].read = [b \in Bookings |-> IF appt[b].status = "approved"
                                                THEN appt[b] ELSE NoBooking("unread")]
          /\ slot' = slot /\ appt' = appt
      BY <2>2 DEF ApproveRead, Suspend, TypeOK
    <3>2. ASSUME NEW b \in Bookings \ {a}, req'[r].read[b].status = "approved"
          PROVE  req'[r].read[b] = appt[b] /\ appt[b].status = "approved"
      BY <3>1, <3>2 DEF NoBooking
    <3>3. ASSUME NEW b \in Bookings \ {a}, appt[b].status = "approved",
                 Related(appt[b], appt[a])
          PROVE  ~Overlaps(WindowOf(appt[b]), WindowOf(appt[a]))
      <4>1. Shares(b, slot[appt[a].slot].teacher, appt[a].requester)
        BY <3>3 DEF Related, There, Shares
      <4>2. ~Overlaps(Window(b), Window(a))
        BY <2>2, <3>3, <4>1 DEF ApproveRead, Conflicts
      <4> QED BY <4>2 DEF Window, WindowOf, HasProposal
    <3>4. ASSUME NEW b \in Bookings, appt[b].slot # None
          PROVE  slot[appt[b].slot].status # "unborn"
      BY <3>4 DEF SlotsHold, There
    <3> QED BY <3>1, <3>2, <3>3, <3>4 DEF SnapshotOK, Related, WindowOf, There, Overlaps
  <2> QED BY <1>4, <2>1, <2>2 DEF ReadStep
<1> QED BY <1>2, <1>3, <1>4, Reads

-----------------------------------------------------------------------------
(* The promises. *)

LEMMA CalendarsStep ==
    ASSUME TypeOK, SlotsHold, DecisionsOK, StudentsHaveNoCalendar, [Next]_vars
    PROVE  StudentsHaveNoCalendar'
<1> SUFFICES ASSUME NEW s \in Slots, slot'[s].status = "there"
             PROVE  role'[slot'[s].teacher] # "student"
  BY AppointmentAssumption DEF StudentsHaveNoCalendar, There
<1>1. CASE slot[s].status = "unborn"
  <2>1. SlotStep(s)
    BY SlotSteps
  <2> QED BY <1>1, <2>1 DEF SlotStep
<1>2. CASE slot[s].status # "unborn"
  <2>1. slot[s].status = "there" /\ slot'[s].teacher = slot[s].teacher
    BY <1>2, SlotStands
  <2>2. There(s) /\ slot[s].teacher \in Teachers /\ role[slot[s].teacher] # "student"
    BY <2>1, SlotShapes, AppointmentAssumption DEF StudentsHaveNoCalendar, There
  <2>3. ASSUME NEW t \in Teachers, DemoteCommits(t)
        PROVE  role'[slot'[s].teacher] # "student"
    <3>1. s \notin Calendar(t)
      BY <2>3 DEF DemoteCommits, WithoutSlots, NoSlot
    <3>2. slot[s].teacher # t
      BY <2>2, <3>1 DEF Calendar
    <3>3. role'[slot[s].teacher] = role[slot[s].teacher]
      BY <2>2, <2>3, <3>2 DEF DemoteCommits, TypeOK
    <3> QED BY <2>1, <2>2, <3>3
  <2>4. ASSUME NEW t \in Teachers, NEW new \in {"parent", "teacher"}, SetRole(t, new)
        PROVE  role'[slot'[s].teacher] # "student"
    BY <2>1, <2>2, <2>4 DEF SetRole, TypeOK
  <2>5. \/ role' = role
        \/ \E t \in Teachers : \/ DemoteCommits(t)
                                \/ \E new \in {"parent", "teacher"} : SetRole(t, new)
    <3>1. ASSUME NEW r \in Requests, CalendarStep(r)
          PROVE  role' = role
      BY <3>1 DEF CalendarStep, PublishSlots, DeleteSlot, DeleteSeries, DeleteFree,
                  InsertClaimed, DeleteCommit
    <3>2. ASSUME NEW r \in Requests, BookingStep(r)
          PROVE  role' = role
      BY <3>2 DEF BookingStep, Book, Approve, AcceptProposal, ApproveRead, Reject, Propose,
                  Cancel, Decide, ClaimSlotAndCreate, SaveIfUnchanged, ApproveCommit
    <3> QED BY <3>1, <3>2 DEF Next, Drop, Tick, DemoteCancels, vars
  <2> QED BY <2>1, <2>2, <2>3, <2>4, <2>5
<1> QED BY <1>1, <1>2

\* A booking that stands approved on a slot was approved, as it is, on that slot,
\* or is being approved by this step.
LEMMA StandsApproved ==
    ASSUME TypeOK, SlotsHold, DemotedOwn, DeletesOwn, DecisionsOK, [Next]_vars,
           NEW a \in Bookings, appt'[a].status = "approved"
    PROVE  \/ \E r \in Requests : Approved(r, a)
           \/ /\ appt[a].status = "approved"
              /\ appt'[a].slot \in {appt[a].slot, None}
              /\ appt'[a].proposed = appt[a].proposed
              /\ appt'[a].requester = appt[a].requester
<1>1. ApptStep(a)
  BY BookingSteps
<1> QED BY <1>1 DEF ApptStep

Overlap(a, b) == Overlaps(Window(a), Window(b))

\* A window is one, whichever of its two sources it comes from.
LEMMA WindowTyped ==
    ASSUME TypeOK, SlotsHold, NEW a \in Bookings, appt[a].slot # None
    PROVE  Window(a) \in Windows /\ appt[a].slot \in Slots /\ There(appt[a].slot)
<1>1. appt[a].slot \in Slots /\ There(appt[a].slot)
  BY DEF TypeOK, BookingRow, SlotsHold
<1>2. slot[appt[a].slot].win \in Windows
  BY <1>1, SlotShapes
<1>3. appt[a].proposed \in Windows \cup {None}
  BY DEF TypeOK, BookingRow
<1> QED BY <1>1, <1>2, <1>3 DEF Window, HasProposal

LEMMA OverlapsSym ==
    ASSUME NEW v \in Windows, NEW w \in Windows
    PROVE  Overlaps(v, w) <=> Overlaps(w, v)
  BY DEF Overlaps, Windows

\* The approval that goes through overlaps no booking that stands approved.
LEMMA ApprovalFits ==
    ASSUME TypeOK, SlotsHold, DecisionsOK, SnapshotsOK, NEW r \in Requests,
           NEW a \in Bookings, NEW b \in Bookings \ {a}, Approved(r, a),
           appt[b].status = "approved", appt[a].slot # None, appt[b].slot # None,
           \/ appt[a].requester = appt[b].requester
           \/ slot[appt[a].slot].teacher = slot[appt[b].slot].teacher
    PROVE  ~Overlaps(Window(b), Window(a))
<1>1. /\ req[r].pc = "approve" /\ req[r].of = a /\ req[r].expected = appt[a]
      /\ Serializable(req[r]) /\ SnapshotOK(req[r])
  BY DEF Approved, SnapshotsOK
<1>2. There(appt[a].slot) /\ There(appt[b].slot)
  BY WindowTyped
<1>3. Shares(b, slot[appt[a].slot].teacher, appt[a].requester)
  BY DEF Shares
<1>4. req[r].read[b] = appt[b]
  BY <1>1, <1>3 DEF Serializable
<1>5. Related(appt[b], appt[a])
  BY <1>2 DEF Related
<1>6. ~Overlaps(WindowOf(appt[b]), WindowOf(appt[a]))
  BY <1>1, <1>4, <1>5 DEF SnapshotOK
<1> QED BY <1>6 DEF WindowOf, Window, HasProposal

LEMMA DoubleBookingStep ==
    ASSUME TypeOK, SlotsHold, DemotedOwn, DeletesOwn, DecisionsOK, SnapshotsOK,
           NoDoubleBooking, [Next]_vars
    PROVE  NoDoubleBooking'
<1>0. TypeOK' /\ SlotsHold'
  BY TypeStep, SlotsHoldStep
<1> SUFFICES ASSUME NEW a \in Bookings, NEW b \in Bookings, a # b,
                    appt'[a].status = "approved", appt'[b].status = "approved",
                    appt'[a].slot # None, appt'[b].slot # None,
                    \/ appt'[a].requester = appt'[b].requester
                    \/ slot'[appt'[a].slot].teacher = slot'[appt'[b].slot].teacher
             PROVE  ~Overlap(a, b)'
  BY DEF NoDoubleBooking, Shares, Overlap
<1>1. ASSUME NEW c \in Bookings, appt'[c].slot # None, appt'[c].slot = appt[c].slot,
             appt'[c].proposed = appt[c].proposed
      PROVE  /\ slot'[appt[c].slot].teacher = slot[appt[c].slot].teacher
             /\ Window(c)' = Window(c)
  <2>1. /\ appt[c].slot \in Slots /\ slot[appt[c].slot].status # "unborn"
        /\ slot'[appt[c].slot].status = "there"
    BY <1>0, <1>1 DEF TypeOK, BookingRow, SlotsHold, There
  <2>2. /\ slot'[appt[c].slot].teacher = slot[appt[c].slot].teacher
        /\ slot'[appt[c].slot].win = slot[appt[c].slot].win
    BY <2>1, SlotStands
  <2> QED BY <1>1, <2>2 DEF Window, HasProposal
<1>2. ASSUME NEW c \in Bookings, NEW d \in Bookings \ {c}, NEW r \in Requests, Approved(r, c),
             appt'[c].slot # None, appt'[d].slot # None, appt'[d].status = "approved",
             \/ appt'[c].requester = appt'[d].requester
             \/ slot'[appt'[c].slot].teacher = slot'[appt'[d].slot].teacher
      PROVE  ~Overlaps(Window(d)', Window(c)')
  <2>1. /\ appt'[c].slot = appt[c].slot /\ appt'[c].proposed = appt[c].proposed
        /\ appt'[c].requester = appt[c].requester /\ appt'[d] = appt[d] /\ slot' = slot
    BY <1>2, ApprovedShape DEF Approved
  <2>2. ~Overlaps(Window(d), Window(c))
    BY <1>2, <2>1, ApprovalFits
  <2> QED BY <2>1, <2>2 DEF Window, HasProposal
<1>3. Window(a)' \in Windows /\ Window(b)' \in Windows
  <2>1. ASSUME NEW c \in Bookings, appt'[c].slot # None
        PROVE  Window(c)' \in Windows
    <3>1. appt'[c].slot \in Slots /\ slot'[appt'[c].slot].status = "there"
      BY <1>0, <2>1 DEF TypeOK, BookingRow, SlotsHold, There
    <3>2. slot'[appt'[c].slot].win \in Windows
      BY <1>0, <3>1 DEF TypeOK, SlotRow, NoSlot
    <3>3. appt'[c].proposed \in Windows \cup {None}
      BY <1>0 DEF TypeOK, BookingRow
    <3> QED BY <3>2, <3>3 DEF Window, HasProposal
  <2> QED BY <2>1
<1>4. CASE \E r \in Requests : Approved(r, a)
  <2>1. ~Overlaps(Window(b)', Window(a)')
    BY <1>2, <1>4
  <2>2. ~Overlaps(Window(a)', Window(b)')
    BY <1>3, <2>1, OverlapsSym
  <2> QED BY <2>2 DEF Overlap, Overlaps
<1>5. CASE \E r \in Requests : Approved(r, b)
  <2>1. ~Overlaps(Window(a)', Window(b)')
    BY <1>2, <1>5
  <2> QED BY <2>1 DEF Overlap, Overlaps
<1>6. CASE /\ appt[a].status = "approved" /\ appt[b].status = "approved"
           /\ appt'[a].slot = appt[a].slot /\ appt'[b].slot = appt[b].slot
           /\ appt'[a].proposed = appt[a].proposed /\ appt'[b].proposed = appt[b].proposed
           /\ appt'[a].requester = appt[a].requester /\ appt'[b].requester = appt[b].requester
  <2>1. /\ slot'[appt[a].slot].teacher = slot[appt[a].slot].teacher
        /\ slot'[appt[b].slot].teacher = slot[appt[b].slot].teacher
        /\ Window(a)' = Window(a) /\ Window(b)' = Window(b)
    BY <1>1, <1>6
  <2>2. Shares(a, slot[appt[b].slot].teacher, appt[b].requester)
    BY <1>6, <2>1 DEF Shares
  <2>3. ~Overlaps(Window(a), Window(b))
    BY <1>6, <2>2 DEF NoDoubleBooking
  <2> QED BY <2>1, <2>3 DEF Overlap, Overlaps
<1> QED BY <1>4, <1>5, <1>6, StandsApproved

-----------------------------------------------------------------------------
(* The seats. *)

\* The live bookings that hold a seat of the slot.
Holders(s) == {a \in Bookings : Live(a) /\ appt[a].slot = s}

\* Two sets of bookings that a step leaves the same size, or changes by one.
LEMMA HoldersFinite ==
    \A s : /\ IsFiniteSet(Holders(s)) /\ Cardinality(Holders(s)) \in Nat
           /\ \A a : a \notin Holders(s) =>
                 Cardinality(Holders(s) \cup {a}) = Cardinality(Holders(s)) + 1
           /\ \A a \in Holders(s) :
                 Cardinality(Holders(s) \ {a}) = Cardinality(Holders(s)) - 1
<1> SUFFICES ASSUME NEW s
             PROVE  /\ IsFiniteSet(Holders(s)) /\ Cardinality(Holders(s)) \in Nat
                    /\ \A a : a \notin Holders(s) =>
                          Cardinality(Holders(s) \cup {a}) = Cardinality(Holders(s)) + 1
                    /\ \A a \in Holders(s) :
                          Cardinality(Holders(s) \ {a}) = Cardinality(Holders(s)) - 1
  OBVIOUS
<1>1. Holders(s) \subseteq Bookings
  BY DEF Holders
<1>2. IsFiniteSet(Holders(s))
  BY <1>1, FS_Subset, AppointmentAssumption
<1> HIDE DEF Holders
<1> QED BY <1>2, FS_CardinalityType, FS_AddElement, FS_RemoveElement

\* Where neither the seats nor the holders change, the count still is exact.
LEMMA SeatKept ==
    ASSUME SeatsExact, NEW s \in Slots, There(s), slot'[s].occupied = slot[s].occupied,
           \A a \in Bookings : Live(a)' /\ appt'[a].slot = s <=> Live(a) /\ appt[a].slot = s
    PROVE  slot'[s].occupied \in 0 .. 1 /\ slot'[s].occupied = Cardinality(Holders(s)')
<1>1. Holders(s)' = Holders(s)
  BY DEF Holders
<1>2. slot[s].occupied \in 0 .. 1 /\ slot[s].occupied = Cardinality(Holders(s))
  BY DEF SeatsExact, Holders
<1> QED BY <1>1, <1>2

LEMMA SeatsStep ==
    ASSUME TypeOK, SlotsHold, DemotedOwn, DeletesOwn, DecisionsOK, SeatsExact, [Next]_vars
    PROVE  SeatsExact'
<1> SUFFICES ASSUME NEW s \in Slots, slot'[s].status = "there"
             PROVE  /\ slot'[s].occupied \in 0 .. 1
                    /\ slot'[s].occupied = Cardinality(Holders(s)')
  BY DEF SeatsExact, There, Holders
<1> DEFINE Goal == /\ slot'[s].occupied \in 0 .. 1
                   /\ slot'[s].occupied = Cardinality(Holders(s)')
<1>0. s # None
  BY AppointmentAssumption
<1>1. ASSUME NEW r \in Requests, InsertClaimed(r)
      PROVE  Goal
  <2>0. appt' = appt
    BY <1>1 DEF InsertClaimed
  <2>1. CASE slot'[s] = slot[s]
    <3>1. There(s)
      BY <1>0, <2>1 DEF There
    <3> QED BY <2>0, <2>1, <3>1, SeatKept DEF Live
  <2>2. CASE slot'[s] # slot[s]
    <3>1. slot[s].status = "unborn" /\ slot'[s].occupied = 0
      BY <1>1, <2>2, InsertTyped
    <3>2. \A a \in Bookings : appt[a].slot # s
      BY <1>0, <3>1 DEF SlotsHold, There
    <3>3. Holders(s)' = {}
      BY <2>0, <3>2 DEF Holders
    <3> QED BY <3>1, <3>3, FS_EmptySet
  <2> QED BY <2>1, <2>2
<1>2. ASSUME NEW r \in Requests, DeleteCommit(r)
      PROVE  Goal
  <2>1. req[r].ids \in SUBSET Slots /\ req[r].gone \in SUBSET Bookings
    BY <1>2, Shapes DEF DeleteCommit
  <2>2. CASE UNCHANGED <<slot, appt>>
    <3>1. There(s)
      BY <1>0, <2>2 DEF There
    <3> QED BY <2>2, <3>1, SeatKept DEF Live
  <2>3. CASE /\ slot' = WithoutSlots(req[r].ids)
             /\ appt' = [a \in Bookings |-> IF a \in req[r].gone THEN NoBooking("gone")
                                            ELSE Unslotted(req[r].ids)[a]]
    <3>1. s \notin req[r].ids /\ slot'[s] = slot[s] /\ There(s)
      BY <1>0, <2>3 DEF WithoutSlots, NoSlot, There
    <3>2. ASSUME NEW a \in Bookings
          PROVE  Live(a)' /\ appt'[a].slot = s <=> Live(a) /\ appt[a].slot = s
      <4>1. CASE a \in req[r].gone
        <5>1. appt'[a].slot = None
          BY <2>3, <4>1 DEF NoBooking
        <5>2. appt[a].slot \in req[r].ids \cup {None}
          BY <1>2, <4>1 DEF DeleteCommit, DeletesOwn
        <5> QED BY <1>0, <3>1, <5>1, <5>2
      <4>2. CASE a \notin req[r].gone
        <5>1. appt'[a] = Unslotted(req[r].ids)[a]
          BY <2>3, <4>2
        <5> QED BY <1>0, <2>1, <3>1, <5>1, UnslottedShape DEF Live
      <4> QED BY <4>1, <4>2
    <3> QED BY <3>1, <3>2, SeatKept
  <2> QED BY <1>2, <2>2, <2>3 DEF DeleteCommit
<1>3. ASSUME NEW t \in Teachers, DemoteCommits(t)
      PROVE  Goal
  <2> DEFINE ids == Calendar(t)
  <2>1. ids \in SUBSET Slots
    BY DEF Calendar
  <2>2. s \notin ids /\ slot'[s] = slot[s] /\ There(s)
    BY <1>0, <1>3 DEF DemoteCommits, WithoutSlots, NoSlot, There
  <2>3. ASSUME NEW a \in Bookings
        PROVE  Live(a)' /\ appt'[a].slot = s <=> Live(a) /\ appt[a].slot = s
    <3>1. CASE a \notin demoted[t]
      <4>1. appt'[a] = Unslotted(ids)[a]
        BY <1>3, <3>1 DEF DemoteCommits
      <4> HIDE DEF ids
      <4> QED BY <1>0, <2>1, <2>2, <4>1, UnslottedShape DEF Live
    <3>2. CASE a \in demoted[t]
      <4>1. appt'[a] = [Unslotted(ids)[a] EXCEPT !.status = "cancelled"]
        BY <1>3, <3>2 DEF DemoteCommits
      <4>2. Unslotted(ids)[a] \in BookingRow
        BY <2>1, DeletesTyped
      <4>3. appt'[a].status = "cancelled"
        <5> HIDE DEF ids
        <5> QED BY <4>1, <4>2 DEF BookingRow
      <4>4. appt[a].slot # None => slot[appt[a].slot].teacher = t /\ There(appt[a].slot)
        BY <1>3, <3>2 DEF DemoteCommits, DemotedOwn, SlotsHold
      <4>5. appt[a].slot # s
        BY <1>0, <2>2, <4>4 DEF Calendar
      <4> QED BY <4>3, <4>5 DEF Live
    <3> QED BY <3>1, <3>2
  <2> QED BY <2>2, <2>3, SeatKept
<1>4. ASSUME NEW r \in Requests, ClaimSlotAndCreate(r)
      PROVE  Goal
  <2>1. req[r] \in [pc : {"claim"}, person : People, slot : Slots]
    BY <1>4, Shapes DEF ClaimSlotAndCreate
  <2> DEFINE o == req[r].slot
  <2>2. CASE UNCHANGED <<slot, appt>>
    <3>1. There(s)
      BY <1>0, <2>2 DEF There
    <3> QED BY <2>2, <3>1, SeatKept DEF Live
  <2>3. ASSUME There(o), slot[o].occupied < 1, NEW a \in Bookings, appt[a].status = "unborn",
               slot' = [slot EXCEPT ![o].occupied = slot[o].occupied + 1],
               appt' = [appt EXCEPT ![a] =
                           [status |-> "pending", slot |-> o, requester |-> req[r].person,
                            proposed |-> None, decided_by |-> None]]
        PROVE  Goal
    <3>0. o \in Slots
      BY <2>1
    <3> HIDE DEF o
    <3>1. \A b \in Bookings \ {a} : appt'[b] = appt[b]
      BY <2>3 DEF TypeOK
    <3>2. appt'[a].status = "pending" /\ appt'[a].slot = o
      BY <2>3 DEF TypeOK
    <3>3. ~Live(a) /\ Live(a)'
      BY <2>3, <3>2 DEF Live
    <3>4. CASE s = o
      <4>1. slot[o].occupied = Cardinality(Holders(s)) /\ slot[o].occupied \in 0 .. 1
        BY <2>3, <3>0, <3>4 DEF SeatsExact, Holders
      <4>2. Holders(s)' = Holders(s) \cup {a} /\ a \notin Holders(s)
        BY <3>1, <3>2, <3>3, <3>4 DEF Holders, Live
      <4>3. slot'[o].occupied = 1
        <5>1. slot[o] \in [status : {"there"}, teacher : Teachers, win : Windows,
                           series : SUBSET Windows, occupied : Nat]
          BY <2>3, <3>0, SlotShapes
        <5>2. slot'[o] = [slot[o] EXCEPT !.occupied = slot[o].occupied + 1]
          BY <2>3, <3>0 DEF TypeOK
        <5>3. slot'[o].occupied = slot[o].occupied + 1
          BY <5>1, <5>2
        <5> QED BY <2>3, <4>1, <5>3
      <4>4. Cardinality(Holders(s) \cup {a}) = Cardinality(Holders(s)) + 1
        BY <4>2, HoldersFinite
      <4>5. Cardinality(Holders(s)) = 0
        BY <2>3, <4>1
      <4>6. Cardinality(Holders(s)') = 1
        BY <4>2, <4>4, <4>5
      <4> QED BY <3>4, <4>3, <4>6
    <3>5. CASE s # o
      <4>1. slot'[s] = slot[s]
        BY <2>3, <3>5 DEF TypeOK
      <4>2. There(s)
        BY <1>0, <4>1 DEF There
      <4>3. \A b \in Bookings : Live(b)' /\ appt'[b].slot = s <=> Live(b) /\ appt[b].slot = s
        BY <3>1, <3>2, <3>3, <3>5 DEF Live
      <4> QED BY <4>1, <4>2, <4>3, SeatKept
    <3> QED BY <3>4, <3>5
  <2> HIDE DEF Goal
  <2> QED BY <1>4, <2>2, <2>3 DEF ClaimSlotAndCreate
<1>5. ASSUME NEW r \in Requests, req[r].pc \in {"cas", "approve"}, Decided(req[r]),
             appt[req[r].of].status \in LiveStatus
      PROVE  Goal
  <2> DEFINE q == req[r]
             o == q.expected.slot
  <2>0. PICK a : a = q.of
    OBVIOUS
  <2>1. /\ a \in Bookings /\ q.new \in BookingRow /\ q.expected.status \in LiveStatus
        /\ o \in Slots /\ appt[a].slot \in {o, None}
    BY <1>5, <2>0, Shapes DEF DecisionsOK, DecisionOK
  <2>2. /\ appt' = [appt EXCEPT ![a] = [q.new EXCEPT !.slot = appt[a].slot]]
        /\ slot' = IF q.new.status \notin LiveStatus /\ appt[a].slot # None
                   THEN [slot EXCEPT ![o].occupied =
                           IF slot[o].occupied > 0 THEN slot[o].occupied - 1 ELSE 0]
                   ELSE slot
    BY <1>5, <2>0, <2>1 DEF Decided, LiveStatus
  <2> HIDE DEF q, o
  <2>3. appt'[a].status = q.new.status /\ appt'[a].slot = appt[a].slot
    <3>1. appt'[a] = [q.new EXCEPT !.slot = appt[a].slot]
      BY <2>1, <2>2 DEF TypeOK
    <3> QED BY <2>1, <3>1 DEF BookingRow
  <2>4. \A b \in Bookings \ {a} : appt'[b] = appt[b]
    BY <2>2 DEF TypeOK
  <2>5. Live(a)
    BY <1>5, <2>0 DEF q, Live, LiveStatus
  <2>6. CASE q.new.status \in LiveStatus \/ appt[a].slot # s
    <3>1. slot'[s] = slot[s]
      <4>1. CASE q.new.status \in LiveStatus \/ appt[a].slot = None
        BY <2>2, <4>1
      <4>2. CASE o # s
        BY <2>2, <4>2 DEF TypeOK
      <4> QED BY <2>1, <2>6, <4>1, <4>2
    <3>2. There(s)
      BY <1>0, <3>1 DEF There
    <3>3. ASSUME NEW b \in Bookings
          PROVE  Live(b)' /\ appt'[b].slot = s <=> Live(b) /\ appt[b].slot = s
      <4>1. CASE b # a
        BY <2>4, <4>1 DEF Live
      <4>2. CASE b = a
        BY <2>3, <2>5, <2>6, <4>2 DEF Live, LiveStatus
      <4> QED BY <4>1, <4>2
    <3> QED BY <3>1, <3>2, <3>3, SeatKept
  <2>7. CASE q.new.status \notin LiveStatus /\ appt[a].slot = s
    <3>0. o = s /\ appt[a].slot # None
      BY <1>0, <2>1, <2>7
    <3>1. There(s)
      BY <2>1, <2>7, <3>0 DEF SlotsHold
    <3>2. slot[s].occupied \in 0 .. 1 /\ slot[s].occupied = Cardinality(Holders(s))
      BY <3>1 DEF SeatsExact, Holders
    <3>3. a \in Holders(s) /\ Holders(s)' = Holders(s) \ {a}
      <4>1. a \in Holders(s)
        BY <2>1, <2>5, <2>7 DEF Holders
      <4>2. ~Live(a)'
        BY <2>3, <2>7 DEF Live, LiveStatus
      <4>3. \A b \in Bookings \ {a} :
               Live(b)' /\ appt'[b].slot = s <=> Live(b) /\ appt[b].slot = s
        BY <2>4 DEF Live
      <4> QED BY <4>1, <4>2, <4>3 DEF Holders
    <3>4. Cardinality(Holders(s) \ {a}) = Cardinality(Holders(s)) - 1
      BY <3>3, HoldersFinite
    <3>5. Holders(s) \ {a} \subseteq Bookings /\ Cardinality(Holders(s) \ {a}) \in Nat
      <4>1. Holders(s) \ {a} \subseteq Bookings
        BY DEF Holders
      <4> QED BY <4>1, FS_Subset, FS_CardinalityType, AppointmentAssumption
    <3>6. slot[s].occupied = 1
      BY <3>2, <3>4, <3>5
    <3>7. slot'[s].occupied = 0
      <4>1. slot[s] \in [status : {"there"}, teacher : Teachers, win : Windows,
                         series : SUBSET Windows, occupied : Nat]
        BY <3>1, SlotShapes
      <4>2. slot'[s] = [slot[s] EXCEPT !.occupied = 0]
        BY <2>2, <2>7, <3>0, <3>6 DEF TypeOK
      <4> QED BY <4>1, <4>2
    <3>8. Cardinality(Holders(s)') = 0
      BY <3>2, <3>3, <3>4, <3>6
    <3> QED BY <3>7, <3>8
  <2> QED BY <2>6, <2>7
<1>6. ASSUME NEW r \in Requests, SaveIfUnchanged(r) \/ ApproveCommit(r)
      PROVE  Goal
  <2>1. CASE UNCHANGED <<slot, appt>>
    <3>1. There(s)
      BY <1>0, <2>1 DEF There
    <3> QED BY <2>1, <3>1, SeatKept DEF Live
  <2>2. CASE Decided(req[r]) /\ appt[req[r].of].status = req[r].expected.status
    <3>1. req[r].pc \in {"cas", "approve"} /\ appt[req[r].of].status \in LiveStatus
      BY <1>6, <2>2 DEF SaveIfUnchanged, ApproveCommit, DecisionsOK, DecisionOK
    <3> HIDE DEF Goal
    <3> QED BY <1>5, <2>2, <3>1
  <2> HIDE DEF Goal
  <2> QED BY <1>6, <2>1, <2>2 DEF SaveIfUnchanged, ApproveCommit, Unchanged
<1>7. CASE slot' = slot /\ appt' = appt
  <2>1. There(s)
    BY <1>0, <1>7 DEF There
  <2> QED BY <1>7, <2>1, SeatKept DEF Live
<1>8. \/ \E r \in Requests : \/ InsertClaimed(r) \/ DeleteCommit(r)
                              \/ ClaimSlotAndCreate(r) \/ SaveIfUnchanged(r)
                              \/ ApproveCommit(r)
      \/ \E t \in Teachers : DemoteCommits(t)
      \/ slot' = slot /\ appt' = appt
  BY Writers
<1> QED BY <1>1, <1>2, <1>3, <1>4, <1>6, <1>7, <1>8

-----------------------------------------------------------------------------
LEMMA InvInit == Init => Inv
<1> SUFFICES ASSUME Init PROVE Inv
  OBVIOUS
<1>1. TypeOK
  BY TypeInit
<1>2. /\ \A s \in Slots : slot[s] = NoSlot("unborn")
      /\ \A a \in Bookings : appt[a] = NoBooking("unborn")
      /\ \A t \in Teachers : demoted[t] = None
      /\ \A r \in Requests : req[r] = Idle
  BY DEF Init
<1>3. /\ \A s \in Slots : ~There(s)
      /\ \A a \in Bookings : appt[a].slot = None /\ appt[a].status = "unborn"
      /\ \A r \in Requests : req[r].pc = "idle"
  BY <1>2 DEF NoSlot, NoBooking, Idle, There
<1>4. SlotsHold /\ DemotedOwn /\ DeletesOwn /\ DecisionsOK /\ SnapshotsOK
  BY <1>2, <1>3 DEF SlotsHold, DemotedOwn, Demoting, DeletesOwn, DecisionsOK, SnapshotsOK
<1>5. SeatsExact /\ StudentsHaveNoCalendar /\ NoDoubleBooking
  BY <1>3 DEF SeatsExact, StudentsHaveNoCalendar, NoDoubleBooking
<1> QED BY <1>1, <1>4, <1>5 DEF Inv

LEMMA InvStep == Inv /\ [Next]_vars => Inv'
<1> SUFFICES ASSUME Inv, [Next]_vars PROVE Inv'
  OBVIOUS
<1>1. /\ TypeOK /\ SlotsHold /\ DemotedOwn /\ DeletesOwn /\ DecisionsOK /\ SnapshotsOK
      /\ SeatsExact /\ StudentsHaveNoCalendar /\ NoDoubleBooking
  BY DEF Inv
<1>2. TypeOK' /\ SlotsHold' /\ DemotedOwn' /\ DeletesOwn'
  BY <1>1, TypeStep, SlotsHoldStep, DemotedStep, DeletesStep
<1>3. DecisionsOK' /\ SnapshotsOK'
  BY <1>1, DecisionsStep, SnapshotsStep
<1>4. SeatsExact' /\ StudentsHaveNoCalendar' /\ NoDoubleBooking'
  BY <1>1, SeatsStep, CalendarsStep, DoubleBookingStep
<1> QED BY <1>2, <1>3, <1>4 DEF Inv

\* The inductive invariant holds: what every suspended request read is still
\* true in the sense its write relies on.
THEOREM InvSafe == Spec => []Inv
  BY InvInit, InvStep, PTL DEF Spec

\* Every variable keeps its shape.
THEOREM TypeSafe == Spec => []TypeOK
  BY InvSafe, PTL DEF Inv

\* A slot's seat is taken exactly while a live booking holds it, whichever
\* claims, decisions, deletes and demotions race on it.
THEOREM SeatsSafe == Spec => []SeatsExact
  BY InvSafe, PTL DEF Inv

\* An account that was made a student has no calendar, however publications,
\* promotions and demotions of either kind race.
THEOREM CalendarsSafe == Spec => []StudentsHaveNoCalendar
  BY InvSafe, PTL DEF Inv

\* Approved bookings of one teacher or one requester never overlap, whichever
\* approvals, acceptances and counter-proposals race.
THEOREM BookingsSafe == Spec => []NoDoubleBooking
  BY InvSafe, PTL DEF Inv

\* A booking under a counter-proposal is approved only by its requester's own
\* request, for the window that request named.
THEOREM AcceptedSafe == Spec => AcceptedAsNamed
<1>1. Inv /\ [Next]_vars =>
        [\A a \in Bookings :
            /\ appt[a].status # "approved" /\ appt'[a].status = "approved"
            /\ HasProposal(a)'
            => \E r \in Requests :
                  /\ req[r].pc = "approve" /\ req[r].of = a
                  /\ req[r].named = appt'[a].proposed
                  /\ appt'[a].decided_by = appt'[a].requester]_vars
  <2> SUFFICES ASSUME Inv, [Next]_vars, NEW a \in Bookings, appt[a].status # "approved",
                      appt'[a].status = "approved", appt'[a].proposed # None
               PROVE  \E r \in Requests :
                         /\ req[r].pc = "approve" /\ req[r].of = a
                         /\ req[r].named = appt'[a].proposed
                         /\ appt'[a].decided_by = appt'[a].requester
    BY DEF HasProposal
  <2>1. /\ TypeOK /\ SlotsHold /\ DemotedOwn /\ DeletesOwn /\ DecisionsOK
    BY DEF Inv
  <2>2. PICK r \in Requests : Approved(r, a)
    BY <2>1, StandsApproved
  <2>3. /\ appt'[a].proposed = appt[a].proposed /\ appt'[a].requester = appt[a].requester
        /\ appt'[a].decided_by = req[r].new.decided_by
    BY <2>1, <2>2, ApprovedShape
  <2>4. req[r].pc = "approve" /\ req[r].of = a /\ req[r].expected = appt[a]
    BY <2>2 DEF Approved
  <2>5. /\ req[r].named = appt[a].proposed
        /\ req[r].new.decided_by = appt[a].requester
    BY <2>1, <2>3, <2>4 DEF DecisionsOK, DecisionOK
  <2> QED BY <2>3, <2>4, <2>5
<1> QED BY <1>1, InvSafe, PTL DEF Spec, AcceptedAsNamed
=============================================================================
