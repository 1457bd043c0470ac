---------------------------- MODULE Appointments ----------------------------
(***************************************************************************)
(* Appointment slots and the bookings on them.  A teacher publishes slots, *)
(* a student or parent books one, the staff approve, reject or counter-    *)
(* propose, the requester cancels or accepts, free slots are deleted, and  *)
(* an account that is made a student loses its calendar; one that is made  *)
(* a parent keeps it.                                                      *)
(*                                                                         *)
(* A request is suspended between its reads and its write.  The decisions  *)
(* are compare-and-set writes; approving runs at SERIALIZABLE, everything  *)
(* else at READ COMMITTED, where each statement sees what is committed     *)
(* when it starts.  A lost compare-and-set is tried again from the read,   *)
(* here as a new request.                                                  *)
(*                                                                         *)
(* Reasons, notes, listings and the texts of refusals are left out.        *)
(***************************************************************************)
EXTENDS Integers, FiniteSets

CONSTANTS
    Requests,   \* requests in flight
    Teachers,   \* accounts that hold a teaching role at first
    Managers,   \* accounts that manage every calendar
    People,     \* students and parents
    Slots,      \* slot ids
    Bookings,   \* appointment ids
    Hours,      \* the windows a teacher may publish, <<starts, ends>>
    Offers,     \* the windows a counter-proposal may name
    Week,       \* MILLIS_PER_WEEK
    Repeats,    \* how often a published slot may repeat (1: it does not)
    MaxTime,    \* bound: the clock stops here
    None        \* no window, no slot, no decider

ASSUME AppointmentAssumption ==
    /\ Hours \cup Offers \subseteq Int \X Int
    /\ Week \in Nat \ {0} /\ Repeats \subseteq Nat \ {0} /\ MaxTime \in Nat
    /\ Teachers \cap (Managers \cup People) = {} /\ Managers \cap People = {}
    /\ IsFiniteSet(Bookings) /\ None \notin Slots

VARIABLES
    now,       \* the clock
    role,      \* per teacher's account, its role now
    slot,      \* the appointment_slot rows
    appt,      \* the appointment rows
    demoted,   \* per account, the open role transaction: bookings it cancelled
    req        \* per request, where it is suspended and what it read

vars == <<now, role, slot, appt, demoted, req>>

Idle == [pc |-> "idle"]
Free(r) == req[r].pc = "idle"
Suspend(r, q) == req' = [req EXCEPT ![r] = q]

There(s) == s # None /\ slot[s].status = "there"
Live(a) == appt[a].status \in {"pending", "approved"}

\* Half-open windows: one that ends when the next starts does not overlap it.
Overlaps(v, w) == v[1] < w[2] /\ v[2] > w[1]

\* The counter-proposal once there is one, the slot's own window until then.
HasProposal(a) == appt[a].proposed # None
Window(a) == IF HasProposal(a) THEN appt[a].proposed ELSE slot[appt[a].slot].win

Started(w) == w[1] <= now

\* The accounts at or above teacher.
teaching == Managers \cup {t \in Teachers : role[t] = "teacher"}

\* A demotion holds the account row until it commits.
Demoting(t) == demoted[t] # None
\* It holds the bookings it has cancelled, too.
RowLocked(a) == \E t \in Teachers : Demoting(t) /\ a \in demoted[t]

-----------------------------------------------------------------------------
(* Publishing and deleting slots. *)

\* check_window, check_not_past.
GoodWindow(w) == w[1] < w[2] /\ w[1] >= now

\* The same hours, week after week.
WeeklyWindows(w, n) == {<<w[1] + k * Week, w[2] + k * Week>> : k \in 0..n - 1}

\* publish_slots: the role the session carries, and the window.
PublishSlots(r, t, w, n) ==
    /\ Free(r) /\ t \in teaching /\ GoodWindow(w)
    /\ Suspend(r, [pc |-> "publish", teacher |-> t,
                   windows |-> WeeklyWindows(w, n)])
    /\ UNCHANGED <<now, role, slot, appt, demoted>>

\* The exclusion constraint, over what is published and within the batch.
SpanFree(t, ws) ==
    /\ \A s \in Slots, w \in ws :
          There(s) /\ slot[s].teacher = t => ~Overlaps(slot[s].win, w)
    /\ \A v, w \in ws : v # w => ~Overlaps(v, w)

\* Variant: the role the session carried is trusted.
StillTeachesAlways(t) == TRUE

\* The role re-read under the account's row lock.
StillTeaches(t) == t \in teaching

\* insert_claimed: one transaction for the whole batch, all or nothing.
InsertClaimed(r) ==
    /\ req[r].pc = "publish"
    /\ LET q == req[r]
       IN /\ ~Demoting(q.teacher)
          /\ IF StillTeaches(q.teacher) /\ SpanFree(q.teacher, q.windows)
             THEN \E id \in [q.windows -> {s \in Slots : slot[s].status = "unborn"}] :
                     /\ \A v, w \in q.windows : v # w => id[v] # id[w]
                     /\ slot' = [s \in Slots |->
                           IF \E w \in q.windows : id[w] = s
                           THEN [status |-> "there", teacher |-> q.teacher,
                                 win |-> CHOOSE w \in q.windows : id[w] = s,
                                 series |-> q.windows, occupied |-> 0]
                           ELSE slot[s]]
             ELSE UNCHANGED slot
    /\ Suspend(r, Idle)
    /\ UNCHANGED <<now, role, appt, demoted>>

\* can_manage: the slot's own teacher, or a manager.
CanManage(u, s) == u \in teaching /\ u \in {slot[s].teacher} \cup Managers

\* delete_free's first statement: the settled bookings of the free slots.
DeleteFree(r, u, ids) ==
    /\ Free(r)
    /\ \A s \in ids : There(s) /\ CanManage(u, s)
    /\ Suspend(r, [pc |-> "delete", ids |-> ids,
                   gone |-> {a \in Bookings : /\ appt[a].slot \in ids
                                              /\ slot[appt[a].slot].occupied < 1}])
    /\ UNCHANGED <<now, role, slot, appt, demoted>>

DeleteSlot(r, u, s) == DeleteFree(r, u, {s})

\* delete_series: the rows read by their series.
DeleteSeries(r, u, s) ==
    /\ There(s)
    /\ DeleteFree(r, u, {o \in Slots : /\ There(o)
                                       /\ slot[o].teacher = slot[s].teacher
                                       /\ slot[o].series = slot[s].series})

NoSlot(status) == [status |-> status, teacher |-> None, win |-> None,
                   series |-> {}, occupied |-> 0]
NoBooking(status) == [status |-> status, slot |-> None, requester |-> None,
                      proposed |-> None, decided_by |-> None]

\* A deleted slot leaves its bookings without one (ON DELETE SET NULL).
Unslotted(ids) == [a \in Bookings |->
    IF appt[a].slot \in ids THEN [appt[a] EXCEPT !.slot = None] ELSE appt[a]]

WithoutSlots(ids) == [s \in Slots |->
    IF s \in ids THEN NoSlot("gone") ELSE slot[s]]

\* delete_free's second statement and its commit: all of them, or a refusal.
DeleteCommit(r) ==
    /\ req[r].pc = "delete"
    /\ LET q == req[r]
       IN IF \A s \in q.ids : There(s) /\ slot[s].occupied < 1
          THEN /\ slot' = WithoutSlots(q.ids)
               /\ appt' = [a \in Bookings |->
                     IF a \in q.gone THEN NoBooking("gone")
                     ELSE Unslotted(q.ids)[a]]
          ELSE UNCHANGED <<slot, appt>>
    /\ Suspend(r, Idle)
    /\ UNCHANGED <<now, role, demoted>>

-----------------------------------------------------------------------------
(* Booking and deciding. *)

Shares(a, teacher, person) ==
    /\ appt[a].slot # None
    /\ \/ appt[a].requester = person
       \/ slot[appt[a].slot].teacher = teacher

\* conflicts_on: an approved booking of either party over the window.
Conflicts(teacher, person, w, except) ==
    \E a \in Bookings \ {except} :
        /\ appt[a].status = "approved"
        /\ Shares(a, teacher, person)
        /\ Overlaps(Window(a), w)

\* book: the slot, its teacher's role, its start and the requester's own day.
Book(r, p, s) ==
    /\ Free(r) /\ There(s)
    /\ slot[s].teacher \in teaching
    /\ ~Started(slot[s].win)
    /\ ~Conflicts(None, p, slot[s].win, None)
    /\ Suspend(r, [pc |-> "claim", person |-> p, slot |-> s])
    /\ UNCHANGED <<now, role, slot, appt, demoted>>

\* claim_slot_and_create, one statement: the seat and the row, or neither.
ClaimSlotAndCreate(r) ==
    /\ req[r].pc = "claim"
    /\ LET q == req[r]
       IN IF There(q.slot) /\ slot[q.slot].occupied < 1
          THEN \E a \in {b \in Bookings : appt[b].status = "unborn"} :
                  /\ slot' = [slot EXCEPT ![q.slot].occupied = @ + 1]
                  /\ appt' = [appt EXCEPT ![a] =
                        [status |-> "pending", slot |-> q.slot,
                         requester |-> q.person, proposed |-> None,
                         decided_by |-> None]]
          ELSE UNCHANGED <<slot, appt>>
    /\ Suspend(r, Idle)
    /\ UNCHANGED <<now, role, demoted>>

Decide(r, a, new) ==
    /\ Free(r)
    /\ Suspend(r, [pc |-> "cas", of |-> a, expected |-> appt[a], new |-> new])
    /\ UNCHANGED <<now, role, slot, appt, demoted>>

\* for_decision: the staff of the booking's slot.
ForDecision(u, a) == There(appt[a].slot) /\ CanManage(u, appt[a].slot)

Reject(r, u, a) ==
    /\ ForDecision(u, a) /\ appt[a].status = "pending"
    /\ Decide(r, a, [appt[a] EXCEPT !.status = "rejected", !.decided_by = u])

\* propose: a live booking goes back to pending under the window offered.
Propose(r, u, a, w) ==
    /\ ForDecision(u, a) /\ Live(a) /\ w[1] < w[2] /\ ~Started(w)
    /\ Decide(r, a, [appt[a] EXCEPT !.status = "pending", !.decided_by = None,
                                    !.proposed = w])

\* cancel, and decline_reschedule on a standing proposal.
Cancel(r, a) ==
    /\ Live(a) /\ There(appt[a].slot) /\ ~Started(Window(a))
    /\ Decide(r, a, [appt[a] EXCEPT !.status = "cancelled"])

\* Variant: the row is found by its id alone.
UnchangedAlways(a, expected) == TRUE

\* decision_cas: the row still is what the decision was made on.
Unchanged(a, expected) ==
    /\ appt[a].status = expected.status
    /\ appt[a].proposed = expected.proposed
    /\ appt[a].decided_by = expected.decided_by

\* The row written, and the seat handed back when the booking stops being live.
Decided(q) ==
    /\ appt' = [appt EXCEPT ![q.of] = [q.new EXCEPT !.slot = appt[q.of].slot]]
    /\ slot' = IF /\ q.expected.status \in {"pending", "approved"}
                  /\ q.new.status \notin {"pending", "approved"}
                  /\ appt[q.of].slot # None
               THEN [slot EXCEPT ![q.expected.slot].occupied =
                        IF @ > 0 THEN @ - 1 ELSE 0]
               ELSE slot

\* save_if_unchanged.
SaveIfUnchanged(r) ==
    /\ req[r].pc = "cas" /\ ~RowLocked(req[r].of)
    /\ IF /\ appt[req[r].of].status # "gone"
          /\ Unchanged(req[r].of, req[r].expected)
       THEN Decided(req[r]) ELSE UNCHANGED <<slot, appt>>
    /\ Suspend(r, Idle)
    /\ UNCHANGED <<now, role, demoted>>

\* approve_inner's reads, all of one snapshot: the booking, its slot and every
\* approved booking of either party.
ApproveRead(r, u, a, named) ==
    /\ Free(r)
    /\ appt[a].status = "pending" /\ There(appt[a].slot)
    /\ ~Started(Window(a))
    /\ ~Conflicts(slot[appt[a].slot].teacher, appt[a].requester, Window(a), a)
    /\ Suspend(r, [pc |-> "approve", of |-> a, named |-> named,
                   expected |-> appt[a],
                   new |-> [appt[a] EXCEPT !.status = "approved",
                                           !.decided_by = u],
                   read |-> [b \in Bookings |-> IF appt[b].status = "approved"
                                                THEN appt[b] ELSE NoBooking("unread")]])
    /\ UNCHANGED <<now, role, slot, appt, demoted>>

Approve(r, u, a) ==
    /\ ForDecision(u, a) /\ ~HasProposal(a)
    /\ ApproveRead(r, u, a, None)

\* Variant: whatever proposal stands is accepted.
ProposesAny(a, w) == HasProposal(a)

\* The window the requester names is the one that stands.
Proposes(a, w) == appt[a].proposed = w

AcceptProposal(r, a, w) ==
    /\ HasProposal(a) /\ Proposes(a, w)
    /\ ApproveRead(r, appt[a].requester, a, w)

\* Variant: the transaction runs at READ COMMITTED.
SerializableNot(q) == TRUE

\* Every approved booking of either party is as the snapshot showed it: of two
\* approvals that each miss the other's write, the store lets one commit.
Serializable(q) ==
    \A b \in Bookings \ {q.of} :
        /\ appt[b].status = "approved"
        /\ Shares(b, slot[q.expected.slot].teacher, q.expected.requester)
        => q.read[b] = appt[b]

\* approve_inner's write and commit.  A row changed since the snapshot aborts.
ApproveCommit(r) ==
    /\ req[r].pc = "approve" /\ ~RowLocked(req[r].of)
    /\ IF appt[req[r].of] = req[r].expected /\ Serializable(req[r])
       THEN Decided(req[r]) ELSE UNCHANGED <<slot, appt>>
    /\ Suspend(r, Idle)
    /\ UNCHANGED <<now, role, demoted>>

-----------------------------------------------------------------------------
(* A teacher's account is given another role: set_role_cascade's part of it. *)

Calendar(t) == {s \in Slots : There(s) /\ slot[s].teacher = t}

\* To student: the role is written and the live bookings are cancelled,
\* uncommitted.
DemoteCancels(t) ==
    /\ ~Demoting(t)
    /\ demoted' = [demoted EXCEPT ![t] =
          {a \in Bookings : Live(a) /\ appt[a].slot \in Calendar(t)}]
    /\ UNCHANGED <<now, role, slot, appt, req>>

\* The calendar is deleted and the transaction commits.
DemoteCommits(t) ==
    /\ Demoting(t)
    /\ appt' = [a \in Bookings |->
          IF a \in demoted[t]
          THEN [Unslotted(Calendar(t))[a] EXCEPT !.status = "cancelled"]
          ELSE Unslotted(Calendar(t))[a]]
    /\ slot' = WithoutSlots(Calendar(t))
    /\ role' = [role EXCEPT ![t] = "student"]
    /\ demoted' = [demoted EXCEPT ![t] = None]
    /\ UNCHANGED <<now, req>>

\* To parent, which returns before the calendar is looked at, or to teacher,
\* which has none to take: of what is here, only the account row is written.
SetRole(t, new) ==
    /\ ~Demoting(t) /\ role[t] # new
    /\ role' = [role EXCEPT ![t] = new]
    /\ UNCHANGED <<now, slot, appt, demoted, req>>

Tick ==
    /\ now < MaxTime
    /\ now' = now + 1
    /\ UNCHANGED <<role, slot, appt, demoted, req>>

\* The handler is dropped: an open transaction rolls back.
Drop(r) ==
    /\ ~Free(r)
    /\ Suspend(r, Idle)
    /\ UNCHANGED <<now, role, slot, appt, demoted>>

-----------------------------------------------------------------------------
Init ==
    /\ now = 0
    /\ role = [t \in Teachers |-> "teacher"]
    /\ slot = [s \in Slots |-> NoSlot("unborn")]
    /\ appt = [a \in Bookings |-> NoBooking("unborn")]
    /\ demoted = [t \in Teachers |-> None]
    /\ req = [r \in Requests |-> Idle]

CalendarStep(r) ==
    \/ \E t \in Teachers, w \in Hours, n \in Repeats : PublishSlots(r, t, w, n)
    \/ \E u \in Teachers \cup Managers, s \in Slots :
          DeleteSlot(r, u, s) \/ DeleteSeries(r, u, s)
    \/ InsertClaimed(r) \/ DeleteCommit(r)

BookingStep(r) ==
    \/ \E p \in People, s \in Slots : Book(r, p, s)
    \/ \E u \in Teachers \cup Managers, a \in Bookings :
          \/ Approve(r, u, a) \/ Reject(r, u, a)
          \/ \E w \in Offers : Propose(r, u, a, w)
    \/ \E a \in Bookings :
          Cancel(r, a) \/ \E w \in Offers : AcceptProposal(r, a, w)
    \/ ClaimSlotAndCreate(r) \/ SaveIfUnchanged(r) \/ ApproveCommit(r)

Next ==
    \/ \E r \in Requests : CalendarStep(r) \/ BookingStep(r) \/ Drop(r)
    \/ \E t \in Teachers :
          \/ DemoteCancels(t) \/ DemoteCommits(t)
          \/ \E new \in {"parent", "teacher"} : SetRole(t, new)
    \/ Tick

Spec == Init /\ [][Next]_vars

-----------------------------------------------------------------------------
Windows == Int \X Int
Roles == {"teacher", "student", "parent"}

SlotRow ==
    {NoSlot("unborn"), NoSlot("gone")}
    \cup [status : {"there"}, teacher : Teachers, win : Windows,
          series : SUBSET Windows, occupied : Nat]

BookingRow ==
    [status : {"unborn", "pending", "approved", "rejected", "cancelled", "gone", "unread"},
     slot : Slots \cup {None}, requester : People \cup {None},
     proposed : Windows \cup {None},
     decided_by : Teachers \cup Managers \cup People \cup {None}]

\* What a request has read by the time it is suspended.
Suspension ==
    {Idle}
    \cup [pc : {"publish"}, teacher : Teachers, windows : SUBSET Windows]
    \cup [pc : {"delete"}, ids : SUBSET Slots, gone : SUBSET Bookings]
    \cup [pc : {"claim"}, person : People, slot : Slots]
    \cup [pc : {"cas"}, of : Bookings, expected : BookingRow, new : BookingRow]
    \cup [pc : {"approve"}, of : Bookings, named : Windows \cup {None},
          expected : BookingRow, new : BookingRow, read : [Bookings -> BookingRow]]

\* Every variable keeps its shape.
TypeOK ==
    /\ now \in 0 .. MaxTime
    /\ role \in [Teachers -> Roles]
    /\ slot \in [Slots -> SlotRow]
    /\ appt \in [Bookings -> BookingRow]
    /\ demoted \in [Teachers -> (SUBSET Bookings) \cup {None}]
    /\ req \in [Requests -> Suspension]

(* What the calendar promises. *)

\* Nobody is promised to two people at once: approved bookings of one teacher
\* or one requester never overlap, whichever approvals, acceptances and
\* counter-proposals race (approve_inner, conflicts_on).
NoDoubleBooking ==
    \A a, b \in Bookings :
        /\ a # b /\ appt[a].status = "approved" /\ appt[b].status = "approved"
        /\ appt[a].slot # None /\ appt[b].slot # None
        /\ Shares(a, slot[appt[b].slot].teacher, appt[b].requester)
        => ~Overlaps(Window(a), Window(b))

\* A slot's seat is taken exactly while a live booking holds it, so two
\* decisions that free it cannot free the next booking's seat
\* (claim_slot_and_create, decision_cas, delete_free).
SeatsExact ==
    \A s \in Slots :
        There(s) =>
            /\ slot[s].occupied \in 0..1
            /\ slot[s].occupied
                  = Cardinality({a \in Bookings : Live(a) /\ appt[a].slot = s})

\* A meeting is moved only to an hour its requester agreed to: a booking under
\* a counter-proposal is approved by a request of its requester's that named
\* the window then standing, however often the staff replace the proposal
\* meanwhile (approve_inner, accept_proposal, propose).
AcceptedAsNamed ==
    [][\A a \in Bookings :
          /\ appt[a].status # "approved" /\ appt'[a].status = "approved"
          /\ HasProposal(a)'
          => \E r \in Requests :
                /\ req[r].pc = "approve" /\ req[r].of = a
                /\ req[r].named = appt'[a].proposed
                /\ appt'[a].decided_by = appt'[a].requester]_vars

\* An account that was made a student has no calendar, not even one published
\* while the role was being taken or kept from the time it was a parent.  A
\* parent may have one: that demotion does not take it (insert_claimed,
\* set_role_cascade).
StudentsHaveNoCalendar ==
    \A s \in Slots : There(s) => role[slot[s].teacher] # "student"
=============================================================================
