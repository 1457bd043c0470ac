--------------------------- MODULE ClassPumpProofs ---------------------------
(***************************************************************************)
(* What ClassPump's run checks on a small instance, for any classes,       *)
(* accounts, courses, instances and number of requests.                    *)
(*                                                                         *)
(* A suspended transaction relies on what it read: the stint that is not   *)
(* there, the instances the class carries, the rows it will take.  Promise *)
(* says, per request, what its reads have become and which locks keep them *)
(* so; Spares says what a step leaves alone for a request that holds ids   *)
(* and has deleted taken.  Each step is shown to spare every other request *)
(* (by its own locks), to keep its own promise and to keep the rows.       *)
(***************************************************************************)
EXTENDS ClassPump, FiniteSetTheorems, TLAPS

\* The kind of transaction a request is in.
Joins(q) == q.pc = "enroll" /\ ~Attaches(q)
Pumps(q) == q.pc = "enroll" /\ Attaches(q)

\* Rows are locked by one request; the blueprint's is also shared.
Exclusive ==
    \A r, d \in Requests : r # d =>
        /\ held[r] \cap held[d] \subseteq {PlanShare}
        /\ PlanUpdate \in held[r] => PlanShare \notin held[d]

\* No two transactions delete the same row.
TakenOnce == \A r, d \in Requests : r # d => Taken(r) \cap Taken(d) = {}

Born(i) == inst[i].status # "unborn"

\* What an instance that was ever attached has; one link of a course to a class.
LinksOK ==
    /\ \A i \in Instances : Born(i) => inst[i].class \in Classes /\ inst[i].course \in Courses
    /\ \A i, j \in Instances :
          /\ On(i) /\ On(j)
          /\ inst[i].class = inst[j].class /\ inst[i].course = inst[j].course
          => i = j

\* A pair has one row, and a row a class wrote is on an instance of its own.
RosterOK ==
    /\ IsFiniteSet(enr)
    /\ \A e, f \in enr : Pair(e) = Pair(f) => e = f
    /\ \A e \in enr : e.source # None => inst[e.inst].class = e.source

\* A member is a student.
MembersStudy == \A c \in Classes, u \in Users : <<c, u>> \in member => u \in student

\* A tag names the blueprint that stands.
Tagged == \A i \in Instances :
    On(i) => inst[i].source = None \/ (Standing /\ inst[i].source = plan.id)

\* The pair is enrolled, was taken off by hand, or is on its way.
Due(q, p) ==
    \/ p \in q.todo \/ \E e \in q.add : Pair(e) = p
    \/ Enrolled(p) \/ p \in byHand

\* What a request has locked.
LocksOK(q, ids) ==
    /\ q.pc \in {"member_seat", "member_product", "drop_count", "drop_read", "release",
                 "demote_members", "demote_roster"} => User(q.user) \in ids
    /\ q.pc \in {"member_product", "drop_read", "release", "course_count",
                 "course_product"} => Class(q.class) \in ids
    /\ q.pc \in {"course_count", "course_product", "sweep", "detach_count"} =>
          Instance(q.inst) \in ids
    /\ q.pc = "enroll" => Class(q.of.class) \in ids
    /\ Joins(q) => User(q.of.user) \in ids
    /\ Pumps(q) => Instance(q.of.inst) \in ids
    /\ q.pc = "demote_roster" => \A c \in q.left : Class(c) \in ids

\* A join: the student, the seat that is free, the pairs it owes.
JoinOK(q, ids) ==
    /\ q.pc \in {"member_seat", "member_product"} => q.user \in student
    /\ q.pc = "member_product" => <<q.class, q.user>> \notin member
    /\ Joins(q) =>
          /\ q.of.pc = "member_product"
          /\ q.of.user \in student /\ <<q.of.class, q.of.user>> \notin member
          /\ \A i \in InstancesOf(q.of.class) : Due(q, <<i, q.of.user>>)
          /\ \A p \in q.todo : p[2] = q.of.user /\ Born(p[1]) /\ inst[p[1]].class = q.of.class
          /\ \A e \in q.add :
                /\ e.user = q.of.user /\ e.source = q.of.class /\ On(e.inst)
                /\ inst[e.inst].class = q.of.class /\ Instance(e.inst) \in ids

\* An attach: the instance it inserts, the course it is alone to carry.
NewLink(q) ==
    /\ ~Born(q.inst)
    /\ \A i \in InstancesOf(q.class) : inst[i].course # q.course

AttachOK(q) ==
    /\ q.pc \in {"course_count", "course_product"} => NewLink(q)
    /\ Pumps(q) =>
          /\ NewLink(q.of)
          /\ \A u \in MembersOf(q.of.class) : Due(q, <<q.of.inst, u>>)
          /\ \A p \in q.todo : p[1] = q.of.inst /\ p[2] \in MembersOf(q.of.class)
          /\ \A e \in q.add :
                /\ e.inst = q.of.inst /\ e.source = q.of.class
                /\ e.user \in MembersOf(q.of.class)

AddsFinite(q) == q.pc = "enroll" => IsFiniteSet(q.add)

\* A leave: the stint, and the rows it takes with it.
LeaveOK(q, ids) ==
    /\ q.pc \in {"drop_count", "drop_read", "release"} => <<q.class, q.user>> \in member
    /\ q.pc = "release" =>
          /\ \A e \in enr : e.user = q.user /\ e.source = q.class =>
                e.inst \in q.list \/ <<e.inst, q.user>> \in q.del
          /\ \A i \in q.list : Born(i) /\ inst[i].class = q.class
          /\ \A i \in q.back : <<i, q.user>> \in q.del /\ Instance(i) \in ids
          /\ \A p \in q.del : /\ p[1] \in q.back /\ p[2] = q.user /\ Enrolled(p)
                              /\ inst[p[1]].class = q.class

\* A detach: the instance, not one attached by hand if a job sweeps, and its roster.
DetachOK(q) ==
    /\ q.pc \in {"sweep", "detach_count"} =>
          On(q.inst) /\ (q.job # None => inst[q.inst].source # None)
    /\ q.pc = "detach_count" =>
          /\ \A p \in q.del : p[1] = q.inst /\ Enrolled(p)
          /\ \A e \in RosterOf(q.inst) : Pair(e) \in q.del

\* A demotion: all the stints of the account.
DemoteOK(q) ==
    q.pc = "demote_roster" => q.left = {c \in Classes : <<c, q.user>> \in member}

\* A tag on its way is the standing blueprint's.
TagOK(tag, ids) == tag = None \/ (Standing /\ tag = plan.id /\ PlanShare \in ids)
TagsOK(q, ids) ==
    /\ q.pc \in {"course_seat", "course_count", "course_product"} => TagOK(q.source, ids)
    /\ Pumps(q) => TagOK(q.of.source, ids)

\* A delete of the blueprint: what it tagged is still to be swept.
Deletes(q) == q.job # None /\ q.job.kind = "delete"
DeleteOK(q, ids) ==
    Deletes(q) =>
        /\ q.pc \in {"sourced", "job", "sweep", "detach_count"} /\ q.job.list = {}
        /\ PlanUpdate \in ids /\ Standing
        /\ \A i \in Instances : On(i) /\ inst[i].source = plan.id =>
              \/ q.pc = "sourced"
              \/ <<inst[i].class, inst[i].course>> \in q.job.todo
              \/ q.pc \in {"sweep", "detach_count"} /\ q.inst = i

Promise(q, ids) ==
    /\ LocksOK(q, ids) /\ JoinOK(q, ids) /\ AttachOK(q) /\ AddsFinite(q)
    /\ LeaveOK(q, ids) /\ DetachOK(q) /\ DemoteOK(q)
    /\ TagsOK(q, ids) /\ DeleteOK(q, ids)

Promises == \A r \in Requests : Promise(req[r], held[r])

Store ==
    /\ LinksOK /\ RosterOK /\ MembersStudy /\ Tagged
    /\ PairsEnrolled /\ NoEnrolmentOutlives /\ CountsExact

Inv == TypeOK /\ Store /\ Exclusive /\ TakenOnce /\ Promises


-----------------------------------------------------------------------------
\* An uncommitted DELETE holds the rows it took (Taken, of a suspension).
TakenBy(q) == IF q.pc \in {"release", "detach_count"} THEN q.del ELSE {}

\* What a step leaves alone for a request that holds ids and deleted taken.
SparesMembers(ids) ==
    /\ \A c \in Classes, u \in Users :
          Class(c) \in ids \/ User(u) \in ids =>
              (<<c, u>> \in member' <=> <<c, u>> \in member)
    /\ \A u \in Users : User(u) \in ids /\ u \in student => u \in student'

SparesLinks(ids) ==
    /\ \A i \in Instances : Born(i) =>
          /\ inst'[i].status # "unborn" /\ inst'[i].class = inst[i].class
          /\ inst'[i].course = inst[i].course /\ inst'[i].source = inst[i].source
    /\ \A i \in Instances : Instance(i) \in ids => inst'[i].status = inst[i].status
    /\ \A i \in Instances : inst'[i].status = "there" /\ ~On(i) =>
          /\ ~Born(i) /\ Class(inst'[i].class) \notin ids
          /\ inst'[i].source = None \/ PlanUpdate \notin ids

SparesRoster(ids, taken) ==
    /\ \A e \in enr : (\A f \in enr' : Pair(f) # Pair(e)) =>
          /\ Pair(e) \notin taken
          /\ Pair(e) \in byHand' \/ User(e.user) \notin ids \/ inst'[e.inst].status # "there"
    /\ \A f \in enr' : (\A e \in enr : Pair(f) # Pair(e)) => Instance(f.inst) \notin ids
    /\ \A f \in enr' : f.source # None => f \in enr \/ Class(f.source) \notin ids
    /\ \A p \in byHand : p \in byHand' \/ \E f \in enr' : Pair(f) = p

SparesPlan(ids) ==
    (PlanUpdate \in ids \/ PlanShare \in ids) /\ Standing => plan'.id = plan.id

Spares(ids, taken) ==
    SparesMembers(ids) /\ SparesLinks(ids) /\ SparesRoster(ids, taken) /\ SparesPlan(ids)

-----------------------------------------------------------------------------
(* The shape of a suspension. *)

\* What is suspended where.
LEMMA Shapes ==
    ASSUME NEW q \in Suspension
    PROVE  /\ q.pc \in {"list", "job", "sourced"} => q \in JobState
           /\ q.pc \in {"set_courses", "claim_plan"} => q \in PlanState
           /\ q.pc \in {"member_seat", "member_product", "drop_count", "drop_read"} =>
                 q \in StintState
           /\ q.pc = "course_seat" => q \in SeatState
           /\ q.pc \in {"course_count", "course_product"} => q \in AttachState
           /\ q.pc = "enroll" => q \in EnrollState
           /\ q.pc = "release" => q \in ReleaseState
           /\ q.pc = "sweep" => q \in SweepState
           /\ q.pc = "detach_count" => q \in DetachState
           /\ q.pc = "demote_members" => q \in DemoteState
           /\ q.pc = "demote_roster" => q \in RosterState
           /\ q.pc \in {"disown", "place"} => q \in HandState
           /\ q.pc = "idle" => q = Idle
BY DEF Suspension, Idle, JobState, PlanState, StintState, SeatState, AttachState,
       EnrollState, ReleaseState, SweepState, DetachState, DemoteState, RosterState,
       HandState

\* A pump is of a join or of an attach.
LEMMA PumpShape ==
    ASSUME NEW q \in EnrollState
    PROVE  /\ q.pc = "enroll" /\ q.job \in Job \cup {None}
           /\ q.todo \in SUBSET (Instances \X Users) /\ q.add \in SUBSET Enrolment
           /\ q.of.class \in Classes
           /\ Attaches(q) => q.of \in AttachState /\ q.of.inst \in Instances
                               /\ q.of.course \in Courses /\ q.of.source \in Nat \cup {None}
           /\ ~Attaches(q) /\ q.of.pc = "member_product" =>
                 q.of \in StintState /\ q.of.user \in Users
BY DEF EnrollState, AttachState, StintState, Attaches

-----------------------------------------------------------------------------
(* A promise outlasts a step that spares it. *)

\* What a join read stands.
LEMMA FrameJoin ==
    ASSUME NEW q \in Suspension, NEW ids, TypeOK, LocksOK(q, ids), JoinOK(q, ids),
           SparesMembers(ids), SparesLinks(ids), SparesRoster(ids, TakenBy(q))
    PROVE  JoinOK(q, ids)'
<1>1. q.pc \in {"member_seat", "member_product"} => q \in StintState
  BY Shapes
<1>2. q.pc = "enroll" => q \in EnrollState
  BY Shapes
<1>3. ASSUME q.pc \in {"member_seat", "member_product"}
      PROVE  q.user \in student'
  <2>1. q.user \in Users /\ q.user \in student /\ User(q.user) \in ids
    BY <1>1, <1>3 DEF StintState, JoinOK, LocksOK
  <2> QED BY <2>1 DEF SparesMembers
<1>4. ASSUME q.pc = "member_product"
      PROVE  <<q.class, q.user>> \notin member'
  <2>1. q.class \in Classes /\ q.user \in Users /\ <<q.class, q.user>> \notin member
        /\ User(q.user) \in ids
    BY <1>1, <1>4 DEF StintState, JoinOK, LocksOK
  <2> QED BY <2>1 DEF SparesMembers
<1>5. ASSUME Joins(q)
      PROVE  /\ q.of.user \in student' /\ <<q.of.class, q.of.user>> \notin member'
             /\ \A i \in InstancesOf(q.of.class)' : Due(q, <<i, q.of.user>>)'
             /\ \A p \in q.todo : /\ p[2] = q.of.user /\ inst'[p[1]].status # "unborn"
                                  /\ inst'[p[1]].class = q.of.class
             /\ \A e \in q.add :
                   /\ e.user = q.of.user /\ e.source = q.of.class
                   /\ inst'[e.inst].status = "there"
                   /\ inst'[e.inst].class = q.of.class /\ Instance(e.inst) \in ids
  <2>1. /\ q \in EnrollState /\ q.pc = "enroll" /\ ~Attaches(q)
        /\ q.of.pc = "member_product"
        /\ q.of.user \in student /\ <<q.of.class, q.of.user>> \notin member
        /\ User(q.of.user) \in ids /\ Class(q.of.class) \in ids
    BY <1>2, <1>5 DEF Joins, JoinOK, LocksOK
  <2>2. q.of.user \in Users /\ q.of.class \in Classes
        /\ q.todo \in SUBSET (Instances \X Users) /\ q.add \in SUBSET Enrolment
    BY <2>1, PumpShape
  <2>3. q.of.user \in student' /\ <<q.of.class, q.of.user>> \notin member'
    BY <2>1, <2>2 DEF SparesMembers
  <2>4. ASSUME NEW i \in InstancesOf(q.of.class)'
        PROVE  Due(q, <<i, q.of.user>>)'
    <3> DEFINE p == <<i, q.of.user>>
    <3>1. i \in Instances /\ inst'[i].status = "there" /\ inst'[i].class = q.of.class
      BY DEF InstancesOf, On
    <3>2. On(i)
      BY <3>1, <2>1 DEF SparesLinks
    <3>3. i \in InstancesOf(q.of.class)
      BY <3>1, <3>2 DEF SparesLinks, InstancesOf, Born, On
    <3>4. p \in q.todo \/ (\E e \in q.add : Pair(e) = p) \/ Enrolled(p) \/ p \in byHand
      BY <3>3, <1>5 DEF JoinOK, Due
    <3>5. ASSUME Enrolled(p) PROVE Enrolled(p)' \/ p \in byHand'
      <4>1. PICK e \in enr : Pair(e) = p
        BY <3>5 DEF Enrolled
      <4>2. e.inst = i /\ e.user = q.of.user
        BY <4>1 DEF Pair
      <4>3. (\E f \in enr' : Pair(f) = p) \/ p \in byHand'
        BY <4>1, <4>2, <2>1, <3>1 DEF SparesRoster
      <4> QED BY <4>3 DEF Enrolled, Pair
    <3>6. ASSUME p \in byHand PROVE Enrolled(p)' \/ p \in byHand'
      BY <3>6 DEF SparesRoster, Enrolled, Pair
    <3> QED BY <3>4, <3>5, <3>6 DEF Due, Pair
  <2>5. ASSUME NEW p \in q.todo
        PROVE  /\ p[2] = q.of.user /\ inst'[p[1]].status # "unborn"
               /\ inst'[p[1]].class = q.of.class
    <3>1. p[2] = q.of.user /\ Born(p[1]) /\ inst[p[1]].class = q.of.class
      BY <1>5 DEF JoinOK
    <3>2. p[1] \in Instances
      BY <2>2
    <3> QED BY <3>1, <3>2 DEF SparesLinks
  <2>6. ASSUME NEW e \in q.add
        PROVE  /\ e.user = q.of.user /\ e.source = q.of.class
               /\ inst'[e.inst].status = "there"
               /\ inst'[e.inst].class = q.of.class /\ Instance(e.inst) \in ids
    <3>1. /\ e.user = q.of.user /\ e.source = q.of.class /\ On(e.inst)
          /\ inst[e.inst].class = q.of.class /\ Instance(e.inst) \in ids
      BY <1>5 DEF JoinOK
    <3>2. e.inst \in Instances
      BY <2>2 DEF Enrolment
    <3> QED BY <3>1, <3>2 DEF SparesLinks, On, Born
  <2> QED BY <2>3, <2>4, <2>5, <2>6
<1> QED BY <1>3, <1>4, <1>5 DEF JoinOK, Joins, Attaches, Born, On

\* What an attach read stands.
LEMMA FrameAttach ==
    ASSUME NEW q \in Suspension, NEW ids, TypeOK, NoEnrolmentOutlives, LocksOK(q, ids),
           AttachOK(q), SparesMembers(ids), SparesLinks(ids), SparesRoster(ids, TakenBy(q))
    PROVE  AttachOK(q)'
<1>1. ASSUME NEW a \in AttachState, Class(a.class) \in ids, Instance(a.inst) \in ids, NewLink(a)
      PROVE  NewLink(a)'
  <2>1. a.inst \in Instances /\ a.class \in Classes
    BY DEF AttachState
  <2>2. inst'[a.inst].status = "unborn"
    BY <1>1, <2>1 DEF NewLink, Born, SparesLinks
  <2>3. ASSUME NEW i \in Instances, inst'[i].status = "there", inst'[i].class = a.class
        PROVE  inst'[i].course # a.course
    <3>1. On(i)
      BY <2>3, <1>1 DEF SparesLinks
    <3>2. i \in InstancesOf(a.class) /\ inst'[i].course = inst[i].course
      BY <2>3, <3>1 DEF InstancesOf, On, Born, SparesLinks
    <3> QED BY <3>2, <1>1 DEF NewLink
  <2> QED BY <2>2, <2>3 DEF NewLink, Born, InstancesOf, On
<1>2. ASSUME q.pc \in {"course_count", "course_product"}
      PROVE  NewLink(q)'
  <2>1. q \in AttachState
    BY <1>2, Shapes
  <2> QED BY <1>1, <1>2, <2>1 DEF LocksOK, AttachOK
<1>3. ASSUME Pumps(q)
      PROVE  /\ NewLink(q.of)'
             /\ \A u \in MembersOf(q.of.class)' : Due(q, <<q.of.inst, u>>)'
             /\ \A p \in q.todo : p[1] = q.of.inst /\ p[2] \in MembersOf(q.of.class)'
             /\ \A e \in q.add :
                   /\ e.inst = q.of.inst /\ e.source = q.of.class
                   /\ e.user \in MembersOf(q.of.class)'
  <2>1. /\ q \in EnrollState /\ q.of \in AttachState
        /\ q.of.inst \in Instances /\ q.of.class \in Classes
        /\ Class(q.of.class) \in ids /\ Instance(q.of.inst) \in ids /\ NewLink(q.of)
    BY <1>3, Shapes, PumpShape DEF Pumps, LocksOK, AttachOK
  <2>2. NewLink(q.of)'
    BY <1>1, <2>1
  <2>3. MembersOf(q.of.class)' = MembersOf(q.of.class)
    BY <2>1 DEF MembersOf, SparesMembers
  <2>4. ASSUME NEW u \in MembersOf(q.of.class)
        PROVE  Due(q, <<q.of.inst, u>>)'
    <3> DEFINE p == <<q.of.inst, u>>
    <3>1. p \in q.todo \/ (\E e \in q.add : Pair(e) = p) \/ Enrolled(p) \/ p \in byHand
      BY <1>3 DEF AttachOK, Due
    <3>2. ~Enrolled(p)
      <4>1. ASSUME NEW e \in enr, Pair(e) = p PROVE FALSE
        <5>1. e.inst = q.of.inst
          BY <4>1 DEF Pair
        <5> QED BY <5>1, <2>1 DEF NoEnrolmentOutlives, NewLink, Born, On
      <4> QED BY <4>1 DEF Enrolled
    <3>3. ASSUME p \in byHand PROVE Enrolled(p)' \/ p \in byHand'
      BY <3>3 DEF SparesRoster, Enrolled, Pair
    <3> QED BY <3>1, <3>2, <3>3 DEF Due, Pair
  <2> QED BY <1>3, <2>2, <2>3, <2>4 DEF AttachOK
<1> QED BY <1>2, <1>3 DEF AttachOK, Pumps, Attaches

\* What a leave took still goes with it.
LEMMA FrameLeave ==
    ASSUME NEW q \in Suspension, NEW ids, TypeOK, NoEnrolmentOutlives, LocksOK(q, ids),
           LeaveOK(q, ids), SparesMembers(ids), SparesLinks(ids), SparesRoster(ids, TakenBy(q))
    PROVE  LeaveOK(q, ids)'
<1>1. ASSUME q.pc \in {"drop_count", "drop_read", "release"}
      PROVE  <<q.class, q.user>> \in member'
  <2>1. q.class \in Classes /\ q.user \in Users
    BY <1>1, Shapes DEF StintState, ReleaseState
  <2>2. <<q.class, q.user>> \in member /\ User(q.user) \in ids
    BY <1>1 DEF LeaveOK, LocksOK
  <2> QED BY <2>1, <2>2 DEF SparesMembers
<1>2. ASSUME q.pc = "release"
      PROVE  /\ \A e \in enr' : e.user = q.user /\ e.source = q.class =>
                   e.inst \in q.list \/ <<e.inst, q.user>> \in q.del
             /\ \A i \in q.list : inst'[i].status # "unborn" /\ inst'[i].class = q.class
             /\ \A i \in q.back : <<i, q.user>> \in q.del /\ Instance(i) \in ids
             /\ \A p \in q.del : /\ p[1] \in q.back /\ p[2] = q.user /\ Enrolled(p)'
                                 /\ inst'[p[1]].class = q.class
  <2>1. /\ q \in ReleaseState /\ Class(q.class) \in ids /\ TakenBy(q) = q.del
        /\ \A e \in enr : e.user = q.user /\ e.source = q.class =>
              e.inst \in q.list \/ <<e.inst, q.user>> \in q.del
        /\ \A i \in q.list : Born(i) /\ inst[i].class = q.class
        /\ \A i \in q.back : <<i, q.user>> \in q.del /\ Instance(i) \in ids
        /\ \A p \in q.del : /\ p[1] \in q.back /\ p[2] = q.user /\ Enrolled(p)
                            /\ inst[p[1]].class = q.class
    BY <1>2, Shapes DEF LeaveOK, LocksOK, TakenBy
  <2>2. /\ q.class \in Classes /\ q.list \subseteq Instances
        /\ q.del \subseteq Instances \X Users
    BY <2>1 DEF ReleaseState
  <2>3. ASSUME NEW e \in enr', e.user = q.user, e.source = q.class
        PROVE  e.inst \in q.list \/ <<e.inst, q.user>> \in q.del
    BY <2>1, <2>2, <2>3, PumpAssumption DEF SparesRoster
  <2>4. ASSUME NEW i \in q.list
        PROVE  inst'[i].status # "unborn" /\ inst'[i].class = q.class
    BY <2>1, <2>2 DEF SparesLinks
  <2>5. ASSUME NEW p \in q.del
        PROVE  /\ p[1] \in q.back /\ p[2] = q.user /\ Enrolled(p)'
               /\ inst'[p[1]].class = q.class
    <3>1. Enrolled(p) /\ p \in TakenBy(q) /\ p[1] \in Instances
      BY <2>1, <2>2
    <3>2. PICK e \in enr : Pair(e) = p
      BY <3>1 DEF Enrolled
    <3>3. \E f \in enr' : Pair(f) = Pair(e)
      BY <3>1, <3>2 DEF SparesRoster
    <3>4. Enrolled(p)'
      BY <3>2, <3>3 DEF Enrolled, Pair
    <3>5. e.inst = p[1]
      BY <3>2 DEF Pair
    <3>6. inst'[p[1]].class = q.class
      <4>1. Born(p[1])
        BY <3>2, <3>5 DEF NoEnrolmentOutlives, On, Born
      <4> QED BY <4>1, <2>1, <3>1 DEF SparesLinks
    <3> QED BY <2>1, <3>4, <3>6
  <2> QED BY <2>1, <2>3, <2>4, <2>5
<1> QED BY <1>1, <1>2 DEF LeaveOK, Born

\* The instance a detach holds is still on, its roster still taken.
LEMMA FrameDetach ==
    ASSUME NEW q \in Suspension, NEW ids, TypeOK, NoEnrolmentOutlives, LocksOK(q, ids),
           DetachOK(q), SparesLinks(ids), SparesRoster(ids, TakenBy(q))
    PROVE  DetachOK(q)'
<1>1. ASSUME q.pc \in {"sweep", "detach_count"}
      PROVE  /\ q.inst \in Instances /\ inst'[q.inst].status = "there"
             /\ q.job # None => inst'[q.inst].source # None
  <2>1. q.inst \in Instances
    BY <1>1, Shapes DEF SweepState, DetachState
  <2>2. /\ On(q.inst) /\ Instance(q.inst) \in ids
        /\ q.job # None => inst[q.inst].source # None
    BY <1>1 DEF DetachOK, LocksOK
  <2> QED BY <2>1, <2>2 DEF SparesLinks, On, Born
<1>2. ASSUME q.pc = "detach_count"
      PROVE  /\ \A p \in q.del : p[1] = q.inst /\ Enrolled(p)'
             /\ \A e \in RosterOf(q.inst)' : Pair(e) \in q.del
  <2>1. /\ TakenBy(q) = q.del /\ Instance(q.inst) \in ids
        /\ \A p \in q.del : p[1] = q.inst /\ Enrolled(p)
        /\ \A e \in RosterOf(q.inst) : Pair(e) \in q.del
    BY <1>2 DEF DetachOK, LocksOK, TakenBy
  <2>2. ASSUME NEW p \in q.del PROVE Enrolled(p)'
    <3>1. PICK e \in enr : Pair(e) = p
      BY <2>1 DEF Enrolled
    <3>2. \E f \in enr' : Pair(f) = Pair(e)
      BY <2>1, <3>1 DEF SparesRoster
    <3> QED BY <3>1, <3>2 DEF Enrolled, Pair
  <2>3. ASSUME NEW f \in enr', f.inst = q.inst PROVE Pair(f) \in q.del
    <3>1. PICK e \in enr : Pair(f) = Pair(e)
      BY <2>1, <2>3 DEF SparesRoster
    <3>2. e.inst = q.inst
      BY <3>1, <2>3 DEF Pair
    <3> QED BY <3>1, <3>2, <2>1 DEF RosterOf
  <2> QED BY <2>1, <2>2, <2>3 DEF RosterOf
<1> QED BY <1>1, <1>2 DEF DetachOK, On, Pair

\* The stints a demotion listed are still all there are.
LEMMA FrameDemote ==
    ASSUME NEW q \in Suspension, NEW ids, LocksOK(q, ids), DemoteOK(q), SparesMembers(ids)
    PROVE  DemoteOK(q)'
<1> SUFFICES ASSUME q.pc = "demote_roster"
             PROVE  q.left = {c \in Classes : <<c, q.user>> \in member'}
  BY DEF DemoteOK
<1>1. /\ q.user \in Users /\ q.left = {c \in Classes : <<c, q.user>> \in member}
      /\ User(q.user) \in ids
  BY Shapes DEF RosterState, LocksOK, DemoteOK
<1> QED BY <1>1 DEF SparesMembers

\* A tag on its way still names the standing blueprint.
LEMMA FrameTags ==
    ASSUME NEW q, NEW ids, TagsOK(q, ids), SparesPlan(ids)
    PROVE  TagsOK(q, ids)'
<1>1. ASSUME NEW tag, TagOK(tag, ids) PROVE TagOK(tag, ids)'
  BY <1>1 DEF TagOK, SparesPlan, Standing
<1>2. q.pc \in {"course_seat", "course_count", "course_product"} => TagOK(q.source, ids)'
  BY <1>1 DEF TagsOK
<1>3. Pumps(q) => TagOK(q.of.source, ids)'
  BY <1>1 DEF TagsOK
<1> QED BY <1>2, <1>3 DEF TagsOK, Pumps, Attaches

\* A delete's list still covers what the blueprint tagged.
LEMMA FrameDelete ==
    ASSUME NEW q \in Suspension, NEW ids, TypeOK, DeleteOK(q, ids), SparesPlan(ids),
           SparesLinks(ids)
    PROVE  DeleteOK(q, ids)'
<1> SUFFICES ASSUME Deletes(q)
             PROVE  /\ q.pc \in {"sourced", "job", "sweep", "detach_count"} /\ q.job.list = {}
                    /\ PlanUpdate \in ids /\ Standing'
                    /\ \A i \in Instances : On(i)' /\ inst'[i].source = plan'.id =>
                          \/ q.pc = "sourced"
                          \/ <<inst'[i].class, inst'[i].course>> \in q.job.todo
                          \/ q.pc \in {"sweep", "detach_count"} /\ q.inst = i
  BY DEF DeleteOK, Deletes
<1>1. /\ q.pc \in {"sourced", "job", "sweep", "detach_count"} /\ q.job.list = {}
      /\ PlanUpdate \in ids /\ Standing
      /\ \A i \in Instances : On(i) /\ inst[i].source = plan.id =>
              \/ q.pc = "sourced"
              \/ <<inst[i].class, inst[i].course>> \in q.job.todo
              \/ q.pc \in {"sweep", "detach_count"} /\ q.inst = i
  BY DEF DeleteOK
<1>2. plan'.id = plan.id /\ plan.id # None
  BY <1>1, PumpAssumption DEF SparesPlan, TypeOK
<1>3. ASSUME NEW i \in Instances, inst'[i].status = "there", inst'[i].source = plan'.id
      PROVE  \/ q.pc = "sourced"
             \/ <<inst'[i].class, inst'[i].course>> \in q.job.todo
             \/ q.pc \in {"sweep", "detach_count"} /\ q.inst = i
  <2>1. On(i)
    BY <1>1, <1>2, <1>3 DEF SparesLinks
  <2>2. /\ inst'[i].class = inst[i].class /\ inst'[i].course = inst[i].course
        /\ inst'[i].source = inst[i].source
    BY <2>1 DEF SparesLinks, On, Born
  <2> QED BY <1>1, <1>2, <1>3, <2>1, <2>2
<1> QED BY <1>1, <1>2, <1>3 DEF Standing, On

\* Locks and the size of what is added are the request's own.
LEMMA FrameLocks ==
    ASSUME NEW q, NEW ids
    PROVE  /\ LocksOK(q, ids) => LocksOK(q, ids)'
           /\ AddsFinite(q) => AddsFinite(q)'
BY DEF LocksOK, AddsFinite, Joins, Pumps, Attaches, User, Class, Instance

\* All of a promise.
LEMMA Frame ==
    ASSUME NEW q \in Suspension, NEW ids, TypeOK, Store, Promise(q, ids),
           Spares(ids, TakenBy(q))
    PROVE  Promise(q, ids)'
<1>1. /\ LocksOK(q, ids) /\ JoinOK(q, ids) /\ AttachOK(q) /\ AddsFinite(q)
      /\ LeaveOK(q, ids) /\ DetachOK(q) /\ DemoteOK(q)
      /\ TagsOK(q, ids) /\ DeleteOK(q, ids) /\ NoEnrolmentOutlives
      /\ SparesMembers(ids) /\ SparesLinks(ids) /\ SparesRoster(ids, TakenBy(q))
      /\ SparesPlan(ids)
  BY DEF Promise, Spares, Store
<1>2. LocksOK(q, ids)' /\ AddsFinite(q)'
  BY <1>1, FrameLocks
<1>3. JoinOK(q, ids)'
  BY <1>1, FrameJoin
<1>4. AttachOK(q)'
  BY <1>1, FrameAttach
<1>5. LeaveOK(q, ids)'
  BY <1>1, FrameLeave
<1>6. DetachOK(q)'
  BY <1>1, FrameDetach
<1>7. DemoteOK(q)'
  BY <1>1, FrameDemote
<1>8. TagsOK(q, ids)'
  BY <1>1, FrameTags
<1>9. DeleteOK(q, ids)'
  BY <1>1, FrameDelete
<1> QED BY <1>2, <1>3, <1>4, <1>5, <1>6, <1>7, <1>8, <1>9 DEF Promise

-----------------------------------------------------------------------------
(* What a step has to show. *)

\* The rows' types.
RowTypes ==
    /\ student \subseteq Users /\ member \subseteq Classes \X Users
    /\ group \in [Classes -> [status : {"unborn", "there", "gone"},
                              class_member_count : Nat, class_course_count : Nat]]
    /\ inst \in [Instances -> [status : {"unborn", "there", "gone"},
                               class : Classes \cup {None}, course : Courses \cup {None},
                               source : Nat \cup {None}, enrollment_count : Nat]]
    /\ attached \in [Courses -> Nat]
    /\ plan \in [id : Nat, courses : SUBSET Courses] /\ planned \in Nat
    /\ enr \subseteq Enrolment /\ byHand \subseteq Instances \X Users

\* A request may hold ids beside what the others hold.
Fits(r, ids) ==
    \A d \in Requests : d # r =>
        /\ ids \cap held[d] \subseteq {PlanShare}
        /\ PlanUpdate \in ids => PlanShare \notin held[d]
        /\ PlanUpdate \in held[d] => PlanShare \notin ids

\* A request becomes q with the locks ids; what it deletes no other does.
Becomes(r, q, ids) ==
    /\ q \in Suspension /\ ids \subseteq Lock /\ Fits(r, ids)
    /\ \A d \in Requests : d # r => TakenBy(q) \cap TakenBy(req[d]) = {}
    /\ req' = [req EXCEPT ![r] = q]
    /\ held' = [held EXCEPT ![r] = ids]

\* The shape of every step of a request: the actor's new promise holds, the others are
\* spared, the rows are as they should be.
LEMMA Steps ==
    ASSUME Inv, NEW r \in Requests, NEW q, NEW ids, Becomes(r, q, ids),
           Promise(q, ids)', RowTypes', Store',
           \A d \in Requests : d # r => Spares(held[d], TakenBy(req[d]))
    PROVE  Inv'
<1>1. TypeOK /\ Store /\ Exclusive /\ TakenOnce /\ Promises
  BY DEF Inv
<1>2. req \in [Requests -> Suspension] /\ held \in [Requests -> SUBSET Lock]
  BY <1>1 DEF TypeOK
<1>3. \A d \in Requests : /\ d # r => req'[d] = req[d] /\ held'[d] = held[d]
                          /\ req'[r] = q /\ held'[r] = ids
  BY <1>2 DEF Becomes
<1>4. q \in Suspension /\ ids \in SUBSET Lock
  BY DEF Becomes
<1>5. TypeOK'
  <2>1. req' \in [Requests -> Suspension] /\ held' \in [Requests -> SUBSET Lock]
    BY <1>2, <1>4 DEF Becomes
  <2> QED BY <2>1 DEF TypeOK, RowTypes
<1>6. Exclusive'
  BY <1>1, <1>3 DEF Exclusive, Becomes, Fits
<1>7. TakenOnce'
  <2>1. \A d, x \in Requests : d # x => TakenBy(req'[d]) \cap TakenBy(req'[x]) = {}
    <3>1. \A d, x \in Requests : d # x => TakenBy(req[d]) \cap TakenBy(req[x]) = {}
      BY <1>1 DEF TakenOnce, Taken, TakenBy
    <3> QED BY <3>1, <1>3 DEF Becomes
  <2> QED BY <2>1 DEF TakenOnce, Taken, TakenBy
<1>8. Promises'
  <2>1. ASSUME NEW d \in Requests, d # r PROVE Promise(req[d], held[d])'
    <3>1. PICK a, b : a = req[d] /\ b = held[d]
      OBVIOUS
    <3>2. a \in Suspension /\ Promise(a, b) /\ Spares(b, TakenBy(a))
      BY <1>1, <1>2, <2>1, <3>1 DEF Promises
    <3>3. Promise(a, b)'
      BY <1>1, <3>2, Frame
    <3>4. a = req'[d] /\ b = held'[d]
      BY <1>3, <2>1, <3>1
    <3> QED BY <3>3, <3>4
  <2>2. Promise(req[r], held[r])'
    BY <1>3
  <2>3. ASSUME NEW d \in Requests PROVE Promise(req[d], held[d])'
    BY <2>1, <2>2
  <2> QED BY <2>3 DEF Promises
<1> QED BY <1>5, <1>6, <1>7, <1>8 DEF Inv

\* A step that writes no row spares everyone and keeps the rows.
LEMMA Still ==
    ASSUME UNCHANGED rows, UNCHANGED byHand, NEW ids, NEW taken
    PROVE  Spares(ids, taken)
<1> USE DEF rows
<1>1. SparesMembers(ids)
  BY DEF SparesMembers
<1>2. SparesLinks(ids)
  BY DEF SparesLinks, On, Born
<1>3. SparesRoster(ids, taken)
  BY DEF SparesRoster
<1>4. SparesPlan(ids)
  BY DEF SparesPlan
<1> QED BY <1>1, <1>2, <1>3, <1>4 DEF Spares

\* ... and leaves the rows as they were.
LEMMA StillStore ==
    ASSUME UNCHANGED rows, UNCHANGED byHand, TypeOK, Store
    PROVE  RowTypes' /\ Store'
<1> USE DEF rows
<1>1. RowTypes'
  BY DEF RowTypes, TypeOK
<1>2. LinksOK'
  BY DEF Store, LinksOK, Born, On
<1>3. RosterOK' /\ MembersStudy'
  BY DEF Store, RosterOK, MembersStudy, Pair
<1>4. Tagged'
  BY DEF Store, Tagged, On, Standing
<1>5. PairsEnrolled'
  BY DEF Store, PairsEnrolled, MembersOf, InstancesOf, On, Enrolled, Pair
<1>6. NoEnrolmentOutlives'
  BY DEF Store, NoEnrolmentOutlives, On
<1>7. CountsExact'
  BY DEF Store, CountsExact, MembersOf, InstancesOf, On, RosterOf
<1> QED BY <1>1, <1>2, <1>3, <1>4, <1>5, <1>6, <1>7 DEF Store

\* A statement that only reads and locks.
LEMMA Quiet ==
    ASSUME Inv, NEW r \in Requests, NEW q, NEW ids, Becomes(r, q, ids), Promise(q, ids),
           UNCHANGED rows, UNCHANGED byHand
    PROVE  Inv'
<1>1. RowTypes' /\ Store'
  BY StillStore DEF Inv
<1>2. \A d \in Requests : Spares(held[d], TakenBy(req[d]))
  BY Still
<1>3. Spares(ids, TakenBy(q)) /\ q \in Suspension
  BY Still DEF Becomes
<1>4. Promise(q, ids)'
  BY <1>3, Frame DEF Inv
<1> QED BY <1>1, <1>2, <1>4, Steps

\* What every proof of a step starts from.
LEMMA Facts ==
    ASSUME Inv, NEW r \in Requests
    PROVE  /\ TypeOK /\ Store /\ Exclusive /\ TakenOnce
           /\ req \in [Requests -> Suspension] /\ req[r] \in Suspension
           /\ held \in [Requests -> SUBSET Lock] /\ held[r] \subseteq Lock
           /\ Promise(req[r], held[r])
           /\ Fits(r, held[r])
<1>1. TypeOK /\ Store /\ Exclusive /\ TakenOnce /\ Promise(req[r], held[r])
  BY DEF Inv, Promises
<1>2. /\ req \in [Requests -> Suspension] /\ req[r] \in Suspension
      /\ held \in [Requests -> SUBSET Lock] /\ held[r] \subseteq Lock
  BY <1>1 DEF TypeOK
<1>3. Fits(r, held[r])
  BY <1>1 DEF Exclusive, Fits
<1> QED BY <1>1, <1>2, <1>3

\* More locks still fit when they were free; fewer always do.
LEMMA MoreLocks ==
    ASSUME NEW r, NEW ids, NEW more, Fits(r, ids), Lockable(r, more),
           PlanUpdate \notin more, PlanShare \notin more
    PROVE  Fits(r, ids \cup more)
BY DEF Fits, Lockable

\* Releasing locks is always possible.
LEMMA FewerLocks ==
    ASSUME NEW r, NEW ids, NEW less, Fits(r, ids), less \subseteq ids
    PROVE  Fits(r, less)
BY DEF Fits

\* Locks on different rows are different.
LEMMA LockNames ==
    /\ \A u : User(u) # PlanUpdate /\ User(u) # PlanShare
    /\ \A c : Class(c) # PlanUpdate /\ Class(c) # PlanShare
    /\ \A i : Instance(i) # PlanUpdate /\ Instance(i) # PlanShare
    /\ \A k : Course(k) # PlanUpdate /\ Course(k) # PlanShare
    /\ \A u, v : User(u) = User(v) => u = v
    /\ \A c, d : Class(c) = Class(d) => c = d
    /\ \A i, j : Instance(i) = Instance(j) => i = j
    /\ \A c, u : Class(c) # User(u)
    /\ \A i, u : Instance(i) # User(u)
    /\ \A i, c : Instance(i) # Class(c)
BY DEF User, Class, Instance, Course, PlanUpdate, PlanShare

\* Every row has its lock.
LEMMA LockTypes ==
    /\ \A u \in Users : User(u) \in Lock
    /\ \A c \in Classes : Class(c) \in Lock
    /\ \A i \in Instances : Instance(i) \in Lock
    /\ \A k \in Courses : Course(k) \in Lock
    /\ PlanUpdate \in Lock /\ PlanShare \in Lock
BY DEF Lock, User, Class, Instance, Course

\* A state that relies on nothing: idle, or a job that deletes no blueprint.
LEMMA Nothing ==
    ASSUME NEW q, NEW ids, q.pc \in {"idle", "list", "job", "set_courses", "claim_plan",
                                     "disown", "place"},
           ~Deletes(q)
    PROVE  Promise(q, ids) /\ TakenBy(q) = {}
BY DEF Promise, LocksOK, JoinOK, AttachOK, AddsFinite, LeaveOK, DetachOK, DemoteOK, TagsOK,
       DeleteOK, Joins, Pumps, TakenBy

\* An answered request.
LEMMA IdleIs == Idle \in Suspension /\ Idle.pc = "idle" /\ ~Deletes(Idle) /\ Idle.job = None
BY DEF Idle, Suspension, Deletes

\* A transaction that ends, and is no part of a blueprint's delete.
LEMMA AbortInv ==
    ASSUME Inv, NEW r \in Requests, ~Deletes(req[r]), req[r].job \in Job \cup {None},
           Abort(r)
    PROVE  Inv'
<1> DEFINE q == GoesOn(req[r].job)
<1>1. /\ Fits(r, held[r]) /\ held \in [Requests -> SUBSET Lock]
  BY Facts
<1>2. /\ req' = [req EXCEPT ![r] = q] /\ held' = [held EXCEPT ![r] = {}]
      /\ UNCHANGED rows /\ UNCHANGED byHand
  BY DEF Abort, Ends, Suspend, Deletes
<1>3. q \in Suspension /\ q.pc \in {"idle", "job"} /\ ~Deletes(q)
  BY IdleIs DEF GoesOn, Suspension, JobState, Deletes
<1>4. Promise(q, {}) /\ TakenBy(q) = {}
  BY <1>3, Nothing
<1>5. Fits(r, {})
  BY DEF Fits
<1>6. Becomes(r, q, {})
  <2> HIDE DEF q
  <2> QED BY <1>2, <1>3, <1>4, <1>5 DEF Becomes
<1> HIDE DEF q
<1> QED BY <1>2, <1>4, <1>6, Quiet

-----------------------------------------------------------------------------
(* Joining and attaching, up to the commit. *)

\* A join begins: the account is locked and a student's.
LEMMA AddMemberInv ==
    ASSUME Inv, NEW r \in Requests, NEW c \in Classes, NEW u \in Users, AddMember(r, c, u)
    PROVE  Inv'
<1> DEFINE q == [pc |-> "member_seat", job |-> None, class |-> c, user |-> u]
           ids == held[r] \cup {User(u)}
<1>1. /\ req' = [req EXCEPT ![r] = q] /\ held' = [held EXCEPT ![r] = ids]
      /\ UNCHANGED rows /\ UNCHANGED byHand
      /\ u \in student /\ Lockable(r, {User(u)})
  BY DEF AddMember, Suspend, Locks
<1>2. held[r] \subseteq Lock /\ Fits(r, held[r])
  BY Facts
<1>3. ids \subseteq Lock /\ Fits(r, ids)
  BY <1>1, <1>2, LockTypes, LockNames, MoreLocks
<1>4. q \in Suspension
  BY DEF Suspension, StintState
<1>5. Promise(q, ids)
  BY <1>1 DEF Promise, LocksOK, JoinOK, AttachOK, AddsFinite, LeaveOK, DetachOK, DemoteOK,
              TagsOK, DeleteOK, Joins, Pumps, Deletes
<1>6. TakenBy(q) = {}
  BY DEF TakenBy
<1>7. Becomes(r, q, ids)
  <2> HIDE DEF q, ids
  <2> QED BY <1>1, <1>3, <1>4, <1>6 DEF Becomes
<1> HIDE DEF q, ids
<1> QED BY <1>1, <1>5, <1>7, Quiet

\* A join claims its seat: no stint yet, under the class's lock.
LEMMA MemberSeatInv ==
    ASSUME Inv, NEW r \in Requests, MemberSeat(r)
    PROVE  Inv'
<1>1. PICK a : a = req[r]
  OBVIOUS
<1>2. /\ a \in Suspension /\ a.pc = "member_seat" /\ Promise(a, held[r])
      /\ held[r] \subseteq Lock /\ Fits(r, held[r])
  BY <1>1, Facts DEF MemberSeat
<1>3. a \in StintState
  BY <1>2, Shapes
<1>4. a.job = None /\ a.class \in Classes /\ a.user \in Users
  BY <1>3 DEF StintState
<1>5. CASE Abort(r)
  BY <1>1, <1>4, <1>5, AbortInv DEF Deletes
<1>6. CASE ~Abort(r)
  <2> DEFINE q == [a EXCEPT !.pc = "member_product"]
             ids == held[r] \cup {Class(a.class)}
  <2>1. /\ req' = [req EXCEPT ![r] = q] /\ held' = [held EXCEPT ![r] = ids]
        /\ UNCHANGED rows /\ UNCHANGED byHand
        /\ Lockable(r, {Class(a.class)}) /\ <<a.class, a.user>> \notin member
    BY <1>1, <1>6 DEF MemberSeat, Suspend, Locks, SeatRow
  <2>2. ids \subseteq Lock /\ Fits(r, ids)
    BY <1>2, <1>4, <2>1, LockTypes, LockNames, MoreLocks
  <2>3. /\ q \in StintState /\ q.pc = "member_product" /\ q.class = a.class
        /\ q.user = a.user /\ q.job = None
    BY <1>3 DEF StintState
  <2>4. a.user \in student /\ User(a.user) \in ids
    BY <1>2 DEF Promise, JoinOK, LocksOK
  <2> HIDE DEF q
  <2>5. Promise(q, ids)
    BY <2>1, <2>3, <2>4
       DEF Promise, LocksOK, JoinOK, AttachOK, AddsFinite, LeaveOK, DetachOK, DemoteOK,
           TagsOK, DeleteOK, Joins, Pumps, Deletes
  <2>6. TakenBy(q) = {} /\ q \in Suspension
    BY <2>3 DEF TakenBy, Suspension
  <2> HIDE DEF ids
  <2>7. Becomes(r, q, ids)
    BY <2>1, <2>2, <2>6 DEF Becomes
  <2> QED BY <2>1, <2>5, <2>7, Quiet
<1> QED BY <1>5, <1>6

\* A join reads the instances it owes.
LEMMA MemberProductInv ==
    ASSUME Inv, NEW r \in Requests, MemberProduct(r)
    PROVE  Inv'
<1>1. PICK a : a = req[r]
  OBVIOUS
<1>2. /\ a \in Suspension /\ a.pc = "member_product" /\ Promise(a, held[r])
      /\ held[r] \subseteq Lock /\ Fits(r, held[r]) /\ held \in [Requests -> SUBSET Lock]
  BY <1>1, Facts DEF MemberProduct
<1>3. a \in StintState
  BY <1>2, Shapes
<1>4. a.job = None /\ a.class \in Classes /\ a.user \in Users
  BY <1>3 DEF StintState
<1> DEFINE todo == InstancesOf(a.class) \X {a.user}
           q == Pumping(a, todo)
<1>5. /\ q.pc = "enroll" /\ q.job = None /\ q.of = a /\ q.todo = todo /\ q.add = {}
  BY <1>4 DEF Pumping
<1>6. todo \subseteq Instances \X Users
  BY <1>4 DEF InstancesOf
<1>7. q \in EnrollState
  BY <1>3, <1>4, <1>6 DEF Pumping, EnrollState
<1>8. /\ req' = [req EXCEPT ![r] = q] /\ held' = [held EXCEPT ![r] = held[r]]
      /\ UNCHANGED rows /\ UNCHANGED byHand
  BY <1>1, <1>2 DEF MemberProduct, Suspend
<1>9. \A p \in todo : p[2] = a.user /\ p[1] \in InstancesOf(a.class)
  OBVIOUS
<1>10. \A i \in InstancesOf(a.class) : <<i, a.user>> \in todo
  OBVIOUS
<1> HIDE DEF q, todo
<1>11. ~Attaches(q) /\ Joins(q) /\ ~Pumps(q)
  BY <1>2, <1>5 DEF Attaches, Joins, Pumps
<1>12. LocksOK(q, held[r])
  BY <1>2, <1>5, <1>11 DEF LocksOK, Promise
<1>13. JoinOK(q, held[r])
  BY <1>2, <1>5, <1>9, <1>10, <1>11 DEF JoinOK, Promise, Due, InstancesOf, On, Born
<1>14. Promise(q, held[r])
  BY <1>5, <1>11, <1>12, <1>13, FS_EmptySet
     DEF Promise, AttachOK, AddsFinite, LeaveOK, DetachOK, DemoteOK, TagsOK, DeleteOK, Deletes
<1>15. TakenBy(q) = {} /\ q \in Suspension
  BY <1>5, <1>7 DEF TakenBy, Suspension
<1>16. Becomes(r, q, held[r])
  BY <1>2, <1>8, <1>15 DEF Becomes
<1> QED BY <1>8, <1>14, <1>16, Quiet

\* An attach begins, with a tag only under the blueprint's share lock.
LEMMA AttachBeginsInv ==
    ASSUME Inv, NEW r \in Requests, NEW c \in Classes, NEW k \in Courses, NEW tag, NEW job,
           NEW claim, AttachBegins(r, c, k, tag, job, claim),
           tag \in Nat \cup {None}, job \in Job \cup {None},
           job = None \/ job.kind # "delete",
           claim \subseteq Lock, Fits(r, held[r] \cup claim),
           TagOK(tag, held[r] \cup claim)
    PROVE  Inv'
<1>1. held[r] \subseteq Lock /\ Fits(r, held[r]) /\ held \in [Requests -> SUBSET Lock]
  BY Facts
<1>2. UNCHANGED rows /\ UNCHANGED byHand
  BY DEF AttachBegins
<1>3. CASE Suspend(r, GoesOn(job)) /\ UNCHANGED held
  <2>1. PICK q : q = GoesOn(job)
    OBVIOUS
  <2>2. q \in Suspension /\ q.pc \in {"idle", "job"} /\ ~Deletes(q)
    BY <2>1, IdleIs DEF GoesOn, Suspension, JobState, Deletes
  <2>3. Promise(q, held[r]) /\ TakenBy(q) = {}
    BY <2>2, Nothing
  <2>4. Becomes(r, q, held[r])
    BY <1>1, <1>3, <2>1, <2>2, <2>3 DEF Becomes, Suspend
  <2> QED BY <1>2, <2>3, <2>4, Quiet
<1>4. CASE ~(Suspend(r, GoesOn(job)) /\ UNCHANGED held)
  <2> DEFINE q == [pc |-> "course_seat", job |-> job, class |-> c, course |-> k,
                   source |-> tag]
             ids == held[r] \cup claim
  <2>1. req' = [req EXCEPT ![r] = q] /\ held' = [held EXCEPT ![r] = ids]
    BY <1>4 DEF AttachBegins, Suspend, Locks
  <2>2. q \in Suspension
    BY DEF Suspension, SeatState
  <2>3. Promise(q, ids)
    BY DEF Promise, LocksOK, JoinOK, AttachOK, AddsFinite, LeaveOK, DetachOK, DemoteOK,
           TagsOK, DeleteOK, Joins, Pumps, Deletes
  <2>4. TakenBy(q) = {}
    BY DEF TakenBy
  <2>5. ids \subseteq Lock /\ Fits(r, ids)
    BY <1>1
  <2> HIDE DEF q, ids
  <2>6. Becomes(r, q, ids)
    BY <2>1, <2>2, <2>4, <2>5 DEF Becomes
  <2> QED BY <1>2, <2>3, <2>6, Quiet
<1> QED BY <1>3, <1>4

\* An operator's attach begins.
LEMMA AttachCourseInv ==
    ASSUME Inv, NEW r \in Requests, NEW c \in Classes, NEW k \in Courses,
           AttachCourse(r, c, k)
    PROVE  Inv'
<1>1. AttachBegins(r, c, k, None, None, {})
  BY DEF AttachCourse
<1>2. Fits(r, held[r]) /\ held[r] \cup {} = held[r]
  BY Facts
<1>3. Fits(r, held[r] \cup {}) /\ TagOK(None, held[r] \cup {})
  BY <1>2 DEF TagOK
<1> QED BY <1>1, <1>3, AttachBeginsInv

\* An attach claims its seat and a fresh instance.
LEMMA CourseSeatInv ==
    ASSUME Inv, NEW r \in Requests, CourseSeat(r)
    PROVE  Inv'
<1>1. PICK a : a = req[r]
  OBVIOUS
<1>2. /\ a \in Suspension /\ a.pc = "course_seat" /\ Promise(a, held[r])
      /\ held[r] \subseteq Lock /\ Fits(r, held[r])
  BY <1>1, Facts DEF CourseSeat
<1>3. a \in SeatState /\ ~Deletes(a)
  BY <1>2, Shapes DEF Promise, DeleteOK
<1>4. /\ a.job \in Job \cup {None} /\ a.class \in Classes /\ a.course \in Courses
      /\ a.source \in Nat \cup {None}
  BY <1>3 DEF SeatState
<1>5. CASE Abort(r)
  BY <1>1, <1>3, <1>4, <1>5, AbortInv
<1>6. CASE ~Abort(r)
  <2>1. PICK i \in {j \in Instances : inst[j].status = "unborn"} :
           /\ \A d \in Requests \ {r} : Instance(i) \notin held[d]
           /\ Locks(r, SeatRow(a.class) \cup {Instance(i)})
           /\ Suspend(r, [pc |-> "course_count", job |-> a.job, class |-> a.class,
                          course |-> a.course, source |-> a.source, inst |-> i])
           /\ UNCHANGED rows /\ UNCHANGED byHand
    BY <1>1, <1>6 DEF CourseSeat
  <2>2. Lockable(r, {Class(a.class)}) /\ \A j \in InstancesOf(a.class) : inst[j].course # a.course
    BY <1>1, <1>6 DEF CourseSeat, SeatRow
  <2> DEFINE q == [pc |-> "course_count", job |-> a.job, class |-> a.class,
                   course |-> a.course, source |-> a.source, inst |-> i]
             ids == held[r] \cup {Class(a.class), Instance(i)}
  <2>3. /\ req' = [req EXCEPT ![r] = q] /\ held' = [held EXCEPT ![r] = ids]
        /\ UNCHANGED rows /\ UNCHANGED byHand
    BY <2>1 DEF Suspend, Locks, SeatRow
  <2>4. ids \subseteq Lock /\ Fits(r, ids)
    <3>1. Lockable(r, {Class(a.class), Instance(i)})
      BY <2>1, <2>2 DEF Lockable
    <3> QED BY <1>2, <1>4, <3>1, LockTypes, LockNames, MoreLocks
  <2>5. q \in AttachState
    BY <1>4 DEF AttachState
  <2>6. /\ q.pc = "course_count" /\ q.job = a.job /\ q.class = a.class
        /\ q.course = a.course /\ q.source = a.source /\ q.inst = i
    OBVIOUS
  <2>7. NewLink(q)
    BY <2>1, <2>2 DEF NewLink, Born
  <2>8. TagOK(q.source, ids)
    <3>1. TagOK(a.source, held[r])
      BY <1>2 DEF Promise, TagsOK
    <3> QED BY <3>1 DEF TagOK
  <2>9. Class(q.class) \in ids /\ Instance(q.inst) \in ids
    OBVIOUS
  <2>10. ~Deletes(q)
    BY <1>3, <2>6 DEF Deletes
  <2> HIDE DEF q, ids
  <2>11. Promise(q, ids)
    BY <2>6, <2>7, <2>8, <2>9, <2>10
       DEF Promise, LocksOK, JoinOK, AttachOK, AddsFinite, LeaveOK, DetachOK, DemoteOK,
           TagsOK, DeleteOK, Joins, Pumps
  <2>12. TakenBy(q) = {} /\ q \in Suspension
    BY <2>5, <2>6 DEF TakenBy, Suspension
  <2>13. Becomes(r, q, ids)
    BY <2>3, <2>4, <2>12 DEF Becomes
  <2> QED BY <2>3, <2>11, <2>13, Quiet
<1> QED BY <1>5, <1>6

\* An attach locks the course.
LEMMA CourseCountInv ==
    ASSUME Inv, NEW r \in Requests, CourseCount(r)
    PROVE  Inv'
<1>1. PICK a : a = req[r]
  OBVIOUS
<1>2. /\ a \in Suspension /\ a.pc = "course_count" /\ Promise(a, held[r])
      /\ held[r] \subseteq Lock /\ Fits(r, held[r])
  BY <1>1, Facts DEF CourseCount
<1>3. a \in AttachState /\ ~Deletes(a)
  BY <1>2, Shapes DEF Promise, DeleteOK
<1>4. a.course \in Courses
  BY <1>3 DEF AttachState
<1> DEFINE q == [a EXCEPT !.pc = "course_product"]
           ids == held[r] \cup {Course(a.course)}
<1>5. /\ req' = [req EXCEPT ![r] = q] /\ held' = [held EXCEPT ![r] = ids]
      /\ UNCHANGED rows /\ UNCHANGED byHand /\ Lockable(r, {Course(a.course)})
  BY <1>1 DEF CourseCount, Suspend, Locks
<1>6. ids \subseteq Lock /\ Fits(r, ids)
  BY <1>2, <1>4, <1>5, LockTypes, LockNames, MoreLocks
<1>7. /\ q \in AttachState /\ q.pc = "course_product" /\ q.class = a.class /\ q.job = a.job
      /\ q.inst = a.inst /\ q.course = a.course /\ q.source = a.source
  BY <1>3 DEF AttachState
<1>8. Class(a.class) \in ids /\ Instance(a.inst) \in ids /\ NewLink(a) /\ TagOK(a.source, ids)
  BY <1>2 DEF Promise, LocksOK, AttachOK, TagsOK, TagOK
<1> HIDE DEF q, ids
<1>9. NewLink(q)
  BY <1>7, <1>8 DEF NewLink
<1>10. ~Deletes(q)
  BY <1>3, <1>7 DEF Deletes
<1>11. Promise(q, ids)
  BY <1>7, <1>8, <1>9, <1>10
     DEF Promise, LocksOK, JoinOK, AttachOK, AddsFinite, LeaveOK, DetachOK, DemoteOK,
         TagsOK, DeleteOK, Joins, Pumps
<1>12. TakenBy(q) = {} /\ q \in Suspension
  BY <1>7 DEF TakenBy, Suspension
<1>13. Becomes(r, q, ids)
  BY <1>5, <1>6, <1>12 DEF Becomes
<1> QED BY <1>5, <1>11, <1>13, Quiet

\* An attach reads the members it owes.
LEMMA CourseProductInv ==
    ASSUME Inv, NEW r \in Requests, CourseProduct(r)
    PROVE  Inv'
<1>1. PICK a : a = req[r]
  OBVIOUS
<1>2. /\ a \in Suspension /\ a.pc = "course_product" /\ Promise(a, held[r])
      /\ held[r] \subseteq Lock /\ Fits(r, held[r]) /\ held \in [Requests -> SUBSET Lock]
  BY <1>1, Facts DEF CourseProduct
<1>3. a \in AttachState /\ ~Deletes(a)
  BY <1>2, Shapes DEF Promise, DeleteOK
<1>4. a.job \in Job \cup {None} /\ a.class \in Classes /\ a.inst \in Instances
  BY <1>3 DEF AttachState
<1> DEFINE todo == {a.inst} \X MembersOf(a.class)
           q == Pumping(a, todo)
<1>5. /\ q.pc = "enroll" /\ q.job = a.job /\ q.of = a /\ q.todo = todo /\ q.add = {}
  BY DEF Pumping
<1>6. todo \subseteq Instances \X Users
  BY <1>4 DEF MembersOf
<1>7. q \in EnrollState
  BY <1>3, <1>4, <1>6 DEF Pumping, EnrollState
<1>8. /\ req' = [req EXCEPT ![r] = q] /\ held' = [held EXCEPT ![r] = held[r]]
      /\ UNCHANGED rows /\ UNCHANGED byHand
  BY <1>1, <1>2 DEF CourseProduct, Suspend
<1>9. \A p \in todo : p[1] = a.inst /\ p[2] \in MembersOf(a.class)
  OBVIOUS
<1>10. \A u \in MembersOf(a.class) : <<a.inst, u>> \in todo
  OBVIOUS
<1> HIDE DEF q, todo
<1>11. Attaches(q) /\ Pumps(q) /\ ~Joins(q) /\ ~Deletes(q)
  BY <1>2, <1>3, <1>5 DEF Attaches, Joins, Pumps, Deletes
<1>12. LocksOK(q, held[r])
  BY <1>2, <1>5, <1>11 DEF LocksOK, Promise
<1>13. AttachOK(q)
  BY <1>2, <1>5, <1>9, <1>10, <1>11 DEF AttachOK, Promise, Due
<1>14. TagsOK(q, held[r])
  BY <1>2, <1>5 DEF Promise, TagsOK
<1>15. Promise(q, held[r])
  BY <1>5, <1>11, <1>12, <1>13, <1>14, FS_EmptySet
     DEF Promise, JoinOK, AddsFinite, LeaveOK, DetachOK, DemoteOK, DeleteOK
<1>16. TakenBy(q) = {} /\ q \in Suspension
  BY <1>5, <1>7 DEF TakenBy, Suspension
<1>17. Becomes(r, q, held[r])
  BY <1>2, <1>8, <1>16 DEF Becomes
<1> QED BY <1>8, <1>15, <1>17, Quiet

\* The pair leaves the list: it is enrolled, or in what the commit will write.
LEMMA EnrollPairInv ==
    ASSUME Inv, NEW r \in Requests, EnrollPair(r)
    PROVE  Inv'
<1>1. PICK a : a = req[r]
  OBVIOUS
<1>2. /\ a \in Suspension /\ a.pc = "enroll" /\ Promise(a, held[r])
      /\ held[r] \subseteq Lock /\ Fits(r, held[r]) /\ held \in [Requests -> SUBSET Lock]
  BY <1>1, Facts DEF EnrollPair
<1>3. a \in EnrollState /\ ~Deletes(a)
  BY <1>2, Shapes DEF Promise, DeleteOK
<1>4. /\ a.job \in Job \cup {None} /\ a.of.class \in Classes
      /\ a.todo \in SUBSET (Instances \X Users) /\ a.add \in SUBSET Enrolment
  BY <1>3, PumpShape
<1>5. CASE Abort(r)
  BY <1>1, <1>3, <1>4, <1>5, AbortInv
<1>6. CASE ~Abort(r)
  <2>1. PICK p \in a.todo :
          \/ /\ Enrolled(p)
             /\ Suspend(r, [a EXCEPT !.todo = @ \ {p}])
             /\ UNCHANGED rows /\ UNCHANGED <<held, byHand>>
          \/ /\ ~Enrolled(p) /\ Lockable(r, {Instance(p[1])})
             /\ On(p[1]) \/ OwnInstance(a, p[1])
             /\ Locks(r, {Instance(p[1])})
             /\ Suspend(r, [a EXCEPT !.todo = @ \ {p},
                              !.add = @ \cup {[inst |-> p[1], user |-> p[2],
                                               source |-> a.of.class]}])
             /\ UNCHANGED rows /\ UNCHANGED byHand
    BY <1>1, <1>6 DEF EnrollPair
  <2>2. p[1] \in Instances /\ p[2] \in Users /\ p = <<p[1], p[2]>>
    BY <1>4
  <2> DEFINE e == [inst |-> p[1], user |-> p[2], source |-> a.of.class]
             add == IF Enrolled(p) THEN a.add ELSE a.add \cup {e}
             q == [a EXCEPT !.todo = a.todo \ {p}, !.add = add]
             ids == IF Enrolled(p) THEN held[r] ELSE held[r] \cup {Instance(p[1])}
  <2>3. e \in Enrolment /\ Pair(e) = p
    BY <1>4, <2>2 DEF Enrolment, Pair
  <2>4. /\ q.pc = "enroll" /\ q.job = a.job /\ q.of = a.of
        /\ q.todo = a.todo \ {p} /\ q.add = add
    BY <1>2, <1>3 DEF EnrollState
  <2>5. q \in EnrollState
    <3> HIDE DEF e
    <3>1. add \in SUBSET Enrolment
      BY <1>4, <2>3
    <3> HIDE DEF add
    <3> QED BY <1>3, <1>4, <3>1 DEF EnrollState
  <2>6. req' = [req EXCEPT ![r] = q]
    <3>1. CASE Enrolled(p)
      <4>1. q = [a EXCEPT !.todo = a.todo \ {p}]
        BY <3>1, <1>3 DEF EnrollState
      <4> QED BY <2>1, <3>1, <4>1 DEF Suspend
    <3>2. CASE ~Enrolled(p)
      BY <2>1, <3>2 DEF Suspend
    <3> QED BY <3>1, <3>2
  <2>7. held' = [held EXCEPT ![r] = ids]
    BY <2>1, <1>2 DEF Locks
  <2>8. ids \subseteq Lock /\ Fits(r, ids) /\ held[r] \subseteq ids
    BY <2>1, <2>2, <1>2, LockTypes, LockNames, MoreLocks
  <2>9. \A x : Due(a, x) => Due(q, x)
    BY <2>3, <2>4 DEF Due
  <2>10. UNCHANGED rows /\ UNCHANGED byHand
    BY <2>1
  <2>11. \A f \in add : f \in a.add \/ (f = e /\ ~Enrolled(p))
    OBVIOUS
  <2>12. ~Enrolled(p) => Instance(p[1]) \in ids /\ (On(p[1]) \/ OwnInstance(a, p[1]))
    BY <2>1
  <2>13. e.inst = p[1] /\ e.user = p[2] /\ e.source = a.of.class
    OBVIOUS
  <2>14. IsFiniteSet(a.add) => IsFiniteSet(add)
    BY FS_AddElement
  <2> HIDE DEF q, ids, add, e
  <2>15. (Joins(q) <=> Joins(a)) /\ (Pumps(q) <=> Pumps(a)) /\ ~Deletes(q)
    BY <1>2, <1>3, <2>4 DEF Joins, Pumps, Attaches, Deletes
  <2>16. LocksOK(q, ids)
    BY <1>2, <2>4, <2>8, <2>15 DEF LocksOK, Promise
  <2>17. JoinOK(q, ids)
    <3> SUFFICES ASSUME Joins(a)
                 PROVE /\ a.of.pc = "member_product"
                       /\ a.of.user \in student /\ <<a.of.class, a.of.user>> \notin member
                       /\ \A i \in InstancesOf(a.of.class) : Due(q, <<i, a.of.user>>)
                       /\ \A x \in q.todo : /\ x[2] = a.of.user /\ Born(x[1])
                                            /\ inst[x[1]].class = a.of.class
                       /\ \A f \in add :
                             /\ f.user = a.of.user /\ f.source = a.of.class /\ On(f.inst)
                             /\ inst[f.inst].class = a.of.class /\ Instance(f.inst) \in ids
      BY <2>4, <2>15 DEF JoinOK
    <3>1. JoinOK(a, held[r])
      BY <1>2 DEF Promise
    <3>2. /\ a.of.pc = "member_product"
          /\ a.of.user \in student /\ <<a.of.class, a.of.user>> \notin member
          /\ \A i \in InstancesOf(a.of.class) : Due(a, <<i, a.of.user>>)
          /\ \A x \in a.todo : /\ x[2] = a.of.user /\ Born(x[1])
                               /\ inst[x[1]].class = a.of.class
          /\ \A f \in a.add :
                /\ f.user = a.of.user /\ f.source = a.of.class /\ On(f.inst)
                /\ inst[f.inst].class = a.of.class /\ Instance(f.inst) \in held[r]
      BY <3>1 DEF JoinOK
    <3>3. ~OwnInstance(a, p[1])
      BY <3>2 DEF OwnInstance, Attaches
    <3> QED BY <2>4, <2>8, <2>9, <2>11, <2>12, <2>13, <3>2, <3>3
  <2>18. AttachOK(q)
    <3> SUFFICES ASSUME Pumps(a)
                 PROVE /\ NewLink(a.of)
                       /\ \A u \in MembersOf(a.of.class) : Due(q, <<a.of.inst, u>>)
                       /\ \A x \in q.todo : x[1] = a.of.inst /\ x[2] \in MembersOf(a.of.class)
                       /\ \A f \in add :
                             /\ f.inst = a.of.inst /\ f.source = a.of.class
                             /\ f.user \in MembersOf(a.of.class)
      BY <2>4, <2>15 DEF AttachOK
    <3>1. AttachOK(a)
      BY <1>2 DEF Promise
    <3>2. /\ NewLink(a.of)
          /\ \A u \in MembersOf(a.of.class) : Due(a, <<a.of.inst, u>>)
          /\ \A x \in a.todo : x[1] = a.of.inst /\ x[2] \in MembersOf(a.of.class)
          /\ \A f \in a.add :
                /\ f.inst = a.of.inst /\ f.source = a.of.class
                /\ f.user \in MembersOf(a.of.class)
      BY <3>1 DEF AttachOK
    <3> QED BY <2>4, <2>9, <2>11, <2>13, <3>2
  <2>19. TagsOK(q, ids)
    BY <1>2, <2>4, <2>8, <2>15 DEF Promise, TagsOK, TagOK
  <2>20. AddsFinite(q)
    BY <1>2, <2>4, <2>14 DEF Promise, AddsFinite
  <2>21. Promise(q, ids)
    BY <2>4, <2>15, <2>16, <2>17, <2>18, <2>19, <2>20
       DEF Promise, LeaveOK, DetachOK, DemoteOK, DeleteOK
  <2>22. TakenBy(q) = {} /\ q \in Suspension
    BY <2>4, <2>5 DEF TakenBy, Suspension
  <2>23. Becomes(r, q, ids)
    BY <2>6, <2>7, <2>8, <2>22 DEF Becomes
  <2> QED BY <2>10, <2>21, <2>23, Quiet
<1> QED BY <1>5, <1>6

-----------------------------------------------------------------------------
(* Leaving, detaching and demoting, up to the commit. *)

\* A leave begins: the account is locked and the stint is there.
LEMMA DropMemberInv ==
    ASSUME Inv, NEW r \in Requests, NEW c \in Classes, NEW u \in Users, DropMember(r, c, u)
    PROVE  Inv'
<1> DEFINE q == [pc |-> "drop_count", job |-> None, class |-> c, user |-> u]
           ids == held[r] \cup {User(u)}
<1>1. /\ req' = [req EXCEPT ![r] = q] /\ held' = [held EXCEPT ![r] = ids]
      /\ UNCHANGED rows /\ UNCHANGED byHand
      /\ <<c, u>> \in member /\ Lockable(r, {User(u)})
  BY DEF DropMember, Suspend, Locks
<1>2. held[r] \subseteq Lock /\ Fits(r, held[r])
  BY Facts
<1>3. ids \subseteq Lock /\ Fits(r, ids)
  BY <1>1, <1>2, LockTypes, LockNames, MoreLocks
<1>4. q \in Suspension
  BY DEF Suspension, StintState
<1>5. Promise(q, ids)
  BY <1>1 DEF Promise, LocksOK, JoinOK, AttachOK, AddsFinite, LeaveOK, DetachOK, DemoteOK,
              TagsOK, DeleteOK, Joins, Pumps, Deletes
<1>6. TakenBy(q) = {}
  BY DEF TakenBy
<1>7. Becomes(r, q, ids)
  <2> HIDE DEF q, ids
  <2> QED BY <1>1, <1>3, <1>4, <1>6 DEF Becomes
<1> HIDE DEF q, ids
<1> QED BY <1>1, <1>5, <1>7, Quiet

\* A leave locks the class.
LEMMA DropCountInv ==
    ASSUME Inv, NEW r \in Requests, DropCount(r)
    PROVE  Inv'
<1>1. PICK a : a = req[r]
  OBVIOUS
<1>2. /\ a \in Suspension /\ a.pc = "drop_count" /\ Promise(a, held[r])
      /\ held[r] \subseteq Lock /\ Fits(r, held[r])
  BY <1>1, Facts DEF DropCount
<1>3. a \in StintState
  BY <1>2, Shapes
<1>4. a.class \in Classes
  BY <1>3 DEF StintState
<1> DEFINE q == [a EXCEPT !.pc = "drop_read"]
           ids == held[r] \cup {Class(a.class)}
<1>5. /\ req' = [req EXCEPT ![r] = q] /\ held' = [held EXCEPT ![r] = ids]
      /\ UNCHANGED rows /\ UNCHANGED byHand /\ Lockable(r, {Class(a.class)})
  BY <1>1 DEF DropCount, Suspend, Locks, SeatBack
<1>6. ids \subseteq Lock /\ Fits(r, ids)
  BY <1>2, <1>4, <1>5, LockTypes, LockNames, MoreLocks
<1>7. /\ q \in StintState /\ q.pc = "drop_read" /\ q.class = a.class /\ q.user = a.user
      /\ q.job = None
  BY <1>3 DEF StintState
<1>8. <<a.class, a.user>> \in member /\ User(a.user) \in ids /\ Class(a.class) \in ids
  BY <1>2 DEF Promise, LocksOK, LeaveOK
<1> HIDE DEF q, ids
<1>9. Promise(q, ids)
  BY <1>7, <1>8
     DEF Promise, LocksOK, JoinOK, AttachOK, AddsFinite, LeaveOK, DetachOK, DemoteOK,
         TagsOK, DeleteOK, Joins, Pumps, Deletes
<1>10. TakenBy(q) = {} /\ q \in Suspension
  BY <1>7 DEF TakenBy, Suspension
<1>11. Becomes(r, q, ids)
  BY <1>5, <1>6, <1>10 DEF Becomes
<1> QED BY <1>5, <1>9, <1>11, Quiet

\* A leave reads the rows the class wrote.
LEMMA DropReadInv ==
    ASSUME Inv, NEW r \in Requests, DropRead(r)
    PROVE  Inv'
<1>1. PICK a : a = req[r]
  OBVIOUS
<1>2. /\ a \in Suspension /\ a.pc = "drop_read" /\ Promise(a, held[r]) /\ TypeOK /\ Store
      /\ held[r] \subseteq Lock /\ Fits(r, held[r]) /\ held \in [Requests -> SUBSET Lock]
  BY <1>1, Facts DEF DropRead
<1>3. a \in StintState
  BY <1>2, Shapes
<1>4. a.class \in Classes /\ a.user \in Users
  BY <1>3 DEF StintState
<1> DEFINE list == {e.inst : e \in {f \in enr : f.user = a.user /\ f.source = a.class}}
           q == [pc |-> "release", job |-> None, class |-> a.class, user |-> a.user,
                 list |-> list, del |-> {}, back |-> {}]
<1>5. /\ req' = [req EXCEPT ![r] = q] /\ held' = [held EXCEPT ![r] = held[r]]
      /\ UNCHANGED rows /\ UNCHANGED byHand
  BY <1>1, <1>2 DEF DropRead, Suspend
<1>6. \A i \in list : \E e \in enr : e.inst = i /\ e.user = a.user /\ e.source = a.class
  OBVIOUS
<1>7. \A e \in enr : e.user = a.user /\ e.source = a.class => e.inst \in list
  OBVIOUS
<1> HIDE DEF list
<1>8. ASSUME NEW i \in list PROVE i \in Instances /\ Born(i) /\ inst[i].class = a.class
  <2>1. PICK e \in enr : e.inst = i /\ e.user = a.user /\ e.source = a.class
    BY <1>6
  <2>2. i \in Instances
    BY <1>2, <2>1 DEF TypeOK, Enrolment
  <2>3. Born(i)
    BY <1>2, <2>1 DEF Store, NoEnrolmentOutlives, On, Born
  <2>4. inst[i].class = a.class
    BY <1>2, <1>4, <2>1, PumpAssumption DEF Store, RosterOK
  <2> QED BY <2>2, <2>3, <2>4
<1>9. q \in ReleaseState
  BY <1>4, <1>8 DEF ReleaseState
<1>10. /\ q.pc = "release" /\ q.job = None /\ q.class = a.class /\ q.user = a.user
       /\ q.list = list /\ q.del = {} /\ q.back = {}
  OBVIOUS
<1> HIDE DEF q
<1>11. <<a.class, a.user>> \in member /\ User(a.user) \in held[r] /\ Class(a.class) \in held[r]
  BY <1>2 DEF Promise, LocksOK, LeaveOK
<1>12. LeaveOK(q, held[r])
  BY <1>7, <1>8, <1>10, <1>11 DEF LeaveOK
<1>13. Promise(q, held[r])
  BY <1>10, <1>11, <1>12
     DEF Promise, LocksOK, JoinOK, AttachOK, AddsFinite, DetachOK, DemoteOK,
         TagsOK, DeleteOK, Joins, Pumps, Deletes
<1>14. TakenBy(q) = {} /\ q \in Suspension
  BY <1>9, <1>10 DEF TakenBy, Suspension
<1>15. Becomes(r, q, held[r])
  BY <1>2, <1>5, <1>14 DEF Becomes
<1> QED BY <1>5, <1>13, <1>15, Quiet

\* The row of the instance is taken, and its count with it, or was not there.
LEMMA ReleaseInv ==
    ASSUME Inv, NEW r \in Requests, Release(r)
    PROVE  Inv'
<1>1. PICK a : a = req[r]
  OBVIOUS
<1>2. /\ a \in Suspension /\ a.pc = "release" /\ Promise(a, held[r]) /\ TakenOnce
      /\ held[r] \subseteq Lock /\ Fits(r, held[r]) /\ held \in [Requests -> SUBSET Lock]
  BY <1>1, Facts DEF Release
<1>3. a \in ReleaseState
  BY <1>2, Shapes
<1>4. /\ a.job = None /\ a.class \in Classes /\ a.user \in Users /\ a.list \subseteq Instances
      /\ a.del \subseteq Instances \X Users /\ a.back \subseteq Instances
  BY <1>3 DEF ReleaseState
<1>5. PICK i \in a.list :
         /\ RowFree(r, <<i, a.user>>)
         /\ Enrolled(<<i, a.user>>) => Lockable(r, {Instance(i)})
         /\ IF Enrolled(<<i, a.user>>) THEN Locks(r, {Instance(i)}) ELSE UNCHANGED held
         /\ Suspend(r, [a EXCEPT !.list = a.list \ {i},
              !.del = IF Enrolled(<<i, a.user>>) THEN a.del \cup {<<i, a.user>>} ELSE a.del,
              !.back = IF Enrolled(<<i, a.user>>) THEN a.back \cup {i} ELSE a.back])
         /\ UNCHANGED rows /\ UNCHANGED byHand
  BY <1>1 DEF Release, GivesBack
<1> DEFINE p == <<i, a.user>>
           del == IF Enrolled(p) THEN a.del \cup {p} ELSE a.del
           back == IF Enrolled(p) THEN a.back \cup {i} ELSE a.back
           q == [a EXCEPT !.list = a.list \ {i}, !.del = del, !.back = back]
           ids == IF Enrolled(p) THEN held[r] \cup {Instance(i)} ELSE held[r]
<1>6. /\ del \subseteq Instances \X Users /\ back \subseteq Instances
  BY <1>4
<1>7. req' = [req EXCEPT ![r] = q] /\ held' = [held EXCEPT ![r] = ids]
      /\ UNCHANGED rows /\ UNCHANGED byHand
  BY <1>2, <1>5 DEF Suspend, Locks
<1>8. ids \subseteq Lock /\ Fits(r, ids) /\ held[r] \subseteq ids
  BY <1>2, <1>4, <1>5, LockTypes, LockNames, MoreLocks
<1>9. \A x \in del : x \in a.del \/ (x = p /\ Enrolled(p))
  OBVIOUS
<1>10. \A j \in back : j \in a.back \/ (j = i /\ Enrolled(p))
  OBVIOUS
<1>11. a.del \subseteq del /\ a.back \subseteq back
       /\ (Enrolled(p) => p \in del /\ i \in back /\ Instance(i) \in ids)
  OBVIOUS
<1> HIDE DEF del, back, ids
<1>12. /\ q \in ReleaseState /\ q.pc = "release" /\ q.job = None /\ q.class = a.class
       /\ q.user = a.user /\ q.list = a.list \ {i} /\ q.del = del /\ q.back = back
  BY <1>2, <1>3, <1>4, <1>6 DEF ReleaseState
<1> HIDE DEF q
<1>13. LeaveOK(a, held[r])
  BY <1>2 DEF Promise
<1>14. /\ <<a.class, a.user>> \in member
       /\ \A e \in enr : e.user = a.user /\ e.source = a.class =>
             e.inst \in a.list \/ <<e.inst, a.user>> \in a.del
       /\ \A j \in a.list : Born(j) /\ inst[j].class = a.class
       /\ \A j \in a.back : <<j, a.user>> \in a.del /\ Instance(j) \in held[r]
       /\ \A x \in a.del : /\ x[1] \in a.back /\ x[2] = a.user /\ Enrolled(x)
                           /\ inst[x[1]].class = a.class
  BY <1>2, <1>13 DEF LeaveOK
<1>15. ASSUME NEW e \in enr, e.user = a.user, e.source = a.class
       PROVE  e.inst \in q.list \/ <<e.inst, a.user>> \in del
  <2>1. CASE e.inst = i
    <3>1. Enrolled(p)
      BY <1>15, <2>1 DEF Enrolled, Pair
    <3> QED BY <2>1, <3>1, <1>11
  <2>2. CASE e.inst # i
    BY <1>11, <1>12, <1>14, <1>15, <2>2
  <2> QED BY <2>1, <2>2
<1>16. ASSUME NEW j \in back
       PROVE  <<j, a.user>> \in del /\ Instance(j) \in ids
  BY <1>8, <1>10, <1>11, <1>14
<1>17. ASSUME NEW x \in del
       PROVE  /\ x[1] \in back /\ x[2] = a.user /\ Enrolled(x)
              /\ inst[x[1]].class = a.class
  BY <1>9, <1>11, <1>14
<1>18. LeaveOK(q, ids)
  BY <1>12, <1>14, <1>15, <1>16, <1>17 DEF LeaveOK
<1>19. User(a.user) \in ids /\ Class(a.class) \in ids
  BY <1>2, <1>8 DEF Promise, LocksOK
<1>20. Promise(q, ids)
  BY <1>12, <1>18, <1>19
     DEF Promise, LocksOK, JoinOK, AttachOK, AddsFinite, DetachOK, DemoteOK,
         TagsOK, DeleteOK, Joins, Pumps, Deletes
<1>21. ASSUME NEW d \in Requests, d # r PROVE TakenBy(q) \cap TakenBy(req[d]) = {}
  <2>1. TakenBy(q) = del /\ TakenBy(a) = a.del
    BY <1>2, <1>12 DEF TakenBy
  <2>2. TakenBy(a) \cap TakenBy(req[d]) = {}
    BY <1>1, <1>2, <1>21 DEF TakenOnce, Taken, TakenBy
  <2>3. p \notin TakenBy(req[d])
    BY <1>5, <1>21 DEF RowFree, Taken, TakenBy
  <2> HIDE DEF p
  <2> QED BY <2>1, <2>2, <2>3, <1>9
<1>22. q \in Suspension
  BY <1>12 DEF Suspension
<1>23. Becomes(r, q, ids)
  BY <1>7, <1>8, <1>21, <1>22 DEF Becomes
<1> QED BY <1>7, <1>20, <1>23, Quiet

\* A detach locks its instance, which is on.
LEMMA DetachBeginsInv ==
    ASSUME Inv, NEW r \in Requests, NEW i \in Instances, NEW job \in Job \cup {None},
           DetachBegins(r, i, job), On(i), job # None => inst[i].source # None,
           DeleteOK([pc |-> "sweep", job |-> job, inst |-> i], held[r])
    PROVE  Inv'
<1> DEFINE q == [pc |-> "sweep", job |-> job, inst |-> i]
           ids == held[r] \cup {Instance(i)}
<1>1. /\ req' = [req EXCEPT ![r] = q] /\ held' = [held EXCEPT ![r] = ids]
      /\ UNCHANGED rows /\ UNCHANGED byHand /\ Lockable(r, {Instance(i)})
  BY DEF DetachBegins, Suspend, Locks
<1>2. held[r] \subseteq Lock /\ Fits(r, held[r])
  BY Facts
<1>3. ids \subseteq Lock /\ Fits(r, ids)
  BY <1>1, <1>2, LockTypes, LockNames, MoreLocks
<1>4. q \in SweepState /\ q.pc = "sweep" /\ q.job = job /\ q.inst = i
  BY DEF SweepState
<1>5. DeleteOK(q, ids)
  BY DEF DeleteOK
<1>6. Instance(i) \in ids
  OBVIOUS
<1> HIDE DEF q, ids
<1>7. Promise(q, ids)
  BY <1>4, <1>5, <1>6
     DEF Promise, LocksOK, JoinOK, AttachOK, AddsFinite, LeaveOK, DetachOK, DemoteOK,
         TagsOK, Joins, Pumps
<1>8. TakenBy(q) = {} /\ q \in Suspension
  BY <1>4 DEF TakenBy, Suspension
<1>9. Becomes(r, q, ids)
  BY <1>1, <1>3, <1>8 DEF Becomes
<1> QED BY <1>1, <1>7, <1>9, Quiet

\* An operator's detach begins.
LEMMA DetachCourseInv ==
    ASSUME Inv, NEW r \in Requests, NEW i \in Instances, DetachCourse(r, i)
    PROVE  Inv'
<1>1. On(i) /\ DetachBegins(r, i, None)
  BY DEF DetachCourse
<1>2. DeleteOK([pc |-> "sweep", job |-> None, inst |-> i], held[r])
  BY DEF DeleteOK, Deletes
<1> QED BY <1>1, <1>2, DetachBeginsInv

\* A detach takes the roster, of which no row is another's.
LEMMA SweepInstanceInv ==
    ASSUME Inv, NEW r \in Requests, SweepInstance(r)
    PROVE  Inv'
<1>1. PICK a : a = req[r]
  OBVIOUS
<1>2. /\ a \in Suspension /\ a.pc = "sweep" /\ Promise(a, held[r]) /\ TypeOK
      /\ held[r] \subseteq Lock /\ Fits(r, held[r]) /\ held \in [Requests -> SUBSET Lock]
  BY <1>1, Facts DEF SweepInstance
<1>3. a \in SweepState
  BY <1>2, Shapes
<1>4. a.job \in Job \cup {None} /\ a.inst \in Instances
  BY <1>3 DEF SweepState
<1> DEFINE del == {Pair(e) : e \in RosterOf(a.inst)}
           q == [pc |-> "detach_count", job |-> a.job, inst |-> a.inst, del |-> del]
<1>5. /\ req' = [req EXCEPT ![r] = q] /\ held' = [held EXCEPT ![r] = held[r]]
      /\ UNCHANGED rows /\ UNCHANGED byHand /\ \A p \in del : RowFree(r, p)
  BY <1>1, <1>2 DEF SweepInstance, Suspend
<1>6. \A p \in del : \E e \in enr : Pair(e) = p /\ e.inst = a.inst
  BY DEF RosterOf
<1>7. \A p \in del : p \in Instances \X Users /\ p[1] = a.inst /\ Enrolled(p)
  BY <1>2, <1>6 DEF Pair, Enrolled, TypeOK, Enrolment
<1>8. \A e \in RosterOf(a.inst) : Pair(e) \in del
  OBVIOUS
<1> HIDE DEF del
<1>9. /\ q \in DetachState /\ q.pc = "detach_count" /\ q.job = a.job /\ q.inst = a.inst
      /\ q.del = del
  BY <1>4, <1>7 DEF DetachState
<1> HIDE DEF q
<1>10. DetachOK(q)
  BY <1>2, <1>7, <1>8, <1>9 DEF Promise, DetachOK
<1>11. DeleteOK(q, held[r])
  BY <1>2, <1>9 DEF Promise, DeleteOK, Deletes
<1>12. Instance(a.inst) \in held[r]
  BY <1>2 DEF Promise, LocksOK
<1>13. Promise(q, held[r])
  BY <1>9, <1>10, <1>11, <1>12
     DEF Promise, LocksOK, JoinOK, AttachOK, AddsFinite, LeaveOK, DemoteOK,
         TagsOK, Joins, Pumps
<1>14. ASSUME NEW d \in Requests, d # r PROVE TakenBy(q) \cap TakenBy(req[d]) = {}
  BY <1>5, <1>9, <1>14 DEF TakenBy, RowFree, Taken
<1>15. q \in Suspension
  BY <1>9 DEF Suspension
<1>16. Becomes(r, q, held[r])
  BY <1>2, <1>5, <1>14, <1>15 DEF Becomes
<1> QED BY <1>5, <1>13, <1>16, Quiet

\* A demotion locks the account.
LEMMA DemoteInv ==
    ASSUME Inv, NEW r \in Requests, NEW u \in Users, Demote(r, u)
    PROVE  Inv'
<1> DEFINE q == [pc |-> "demote_members", job |-> None, user |-> u]
           ids == held[r] \cup {User(u)}
<1>1. /\ req' = [req EXCEPT ![r] = q] /\ held' = [held EXCEPT ![r] = ids]
      /\ UNCHANGED rows /\ UNCHANGED byHand /\ Lockable(r, {User(u)})
  BY DEF Demote, Suspend, Locks
<1>2. held[r] \subseteq Lock /\ Fits(r, held[r])
  BY Facts
<1>3. ids \subseteq Lock /\ Fits(r, ids)
  BY <1>1, <1>2, LockTypes, LockNames, MoreLocks
<1>4. q \in Suspension
  BY DEF Suspension, DemoteState
<1>5. Promise(q, ids)
  BY DEF Promise, LocksOK, JoinOK, AttachOK, AddsFinite, LeaveOK, DetachOK, DemoteOK,
         TagsOK, DeleteOK, Joins, Pumps, Deletes
<1>6. TakenBy(q) = {}
  BY DEF TakenBy
<1>7. Becomes(r, q, ids)
  <2> HIDE DEF q, ids
  <2> QED BY <1>1, <1>3, <1>4, <1>6 DEF Becomes
<1> HIDE DEF q, ids
<1> QED BY <1>1, <1>5, <1>7, Quiet

\* A demotion lists the stints and locks their classes.
LEMMA DemoteMembersInv ==
    ASSUME Inv, NEW r \in Requests, DemoteMembers(r)
    PROVE  Inv'
<1>1. PICK a : a = req[r]
  OBVIOUS
<1>2. /\ a \in Suspension /\ a.pc = "demote_members" /\ Promise(a, held[r])
      /\ held[r] \subseteq Lock /\ Fits(r, held[r])
  BY <1>1, Facts DEF DemoteMembers
<1>3. a \in DemoteState
  BY <1>2, Shapes
<1>4. a.user \in Users
  BY <1>3 DEF DemoteState
<1> DEFINE cs == {c \in Classes : <<c, a.user>> \in member}
           q == [pc |-> "demote_roster", job |-> None, user |-> a.user, left |-> cs]
           more == {Class(c) : c \in cs}
           ids == held[r] \cup more
<1>5. /\ req' = [req EXCEPT ![r] = q] /\ held' = [held EXCEPT ![r] = ids]
      /\ UNCHANGED rows /\ UNCHANGED byHand /\ Lockable(r, more)
  BY <1>1 DEF DemoteMembers, Suspend, Locks
<1>6. more \subseteq Lock /\ PlanUpdate \notin more /\ PlanShare \notin more
  <2>1. \A x \in more : \E c \in Classes : x = Class(c)
    OBVIOUS
  <2> HIDE DEF more
  <2> QED BY <2>1, LockTypes, LockNames
<1>7. \A c \in cs : Class(c) \in ids
  OBVIOUS
<1>8. q \in RosterState /\ q.pc = "demote_roster" /\ q.job = None /\ q.user = a.user
      /\ q.left = cs
  BY <1>4 DEF RosterState
<1>9. DemoteOK(q)
  BY DEF DemoteOK
<1> HIDE DEF more
<1>10. ids \subseteq Lock /\ Fits(r, ids)
  BY <1>2, <1>5, <1>6, MoreLocks
<1>11. User(a.user) \in ids
  BY <1>2 DEF Promise, LocksOK
<1> HIDE DEF q, ids, cs
<1>12. Promise(q, ids)
  BY <1>7, <1>8, <1>9, <1>11
     DEF Promise, LocksOK, JoinOK, AttachOK, AddsFinite, LeaveOK, DetachOK,
         TagsOK, DeleteOK, Joins, Pumps, Deletes
<1>13. TakenBy(q) = {} /\ q \in Suspension
  BY <1>8 DEF TakenBy, Suspension
<1>14. Becomes(r, q, ids)
  BY <1>5, <1>10, <1>13 DEF Becomes
<1> QED BY <1>5, <1>12, <1>14, Quiet

-----------------------------------------------------------------------------
(* By hand, and the blueprint's requests, as far as they write no row. *)

\* An enrolment by hand reads the pair.
LEMMA EnrollInv ==
    ASSUME Inv, NEW r \in Requests, NEW i \in Instances, NEW u \in Users, Enroll(r, i, u)
    PROVE  Inv'
<1>1. PICK pc \in {"disown", "place"} :
         Suspend(r, [pc |-> pc, job |-> None, inst |-> i, user |-> u])
  BY DEF Enroll
<1>2. UNCHANGED rows /\ UNCHANGED <<held, byHand>>
  BY DEF Enroll
<1>3. held[r] \subseteq Lock /\ Fits(r, held[r]) /\ held \in [Requests -> SUBSET Lock]
  BY Facts
<1> DEFINE q == [pc |-> pc, job |-> None, inst |-> i, user |-> u]
<1>4. q \in HandState /\ q.pc = pc /\ q.job = None
  BY DEF HandState
<1>5. req' = [req EXCEPT ![r] = q] /\ held' = [held EXCEPT ![r] = held[r]]
  BY <1>1, <1>2, <1>3 DEF Suspend
<1> HIDE DEF q
<1>6. q \in Suspension /\ ~Deletes(q)
  BY <1>4 DEF Suspension, Deletes
<1>7. Promise(q, held[r]) /\ TakenBy(q) = {}
  BY <1>4, <1>6, Nothing
<1>8. Becomes(r, q, held[r])
  BY <1>3, <1>5, <1>6, <1>7 DEF Becomes
<1> QED BY <1>2, <1>7, <1>8, Quiet

\* An edit or a delete of the blueprint reads its row.
LEMMA ReadBlueprintInv ==
    ASSUME Inv, NEW r \in Requests, NEW pc \in {"set_courses", "claim_plan"},
           NEW list \in SUBSET Courses, ReadBlueprint(r, pc, list)
    PROVE  Inv'
<1>1. /\ held[r] \subseteq Lock /\ Fits(r, held[r]) /\ held \in [Requests -> SUBSET Lock]
      /\ TypeOK
  BY Facts
<1>2. plan.courses \in SUBSET Courses
  BY <1>1 DEF TypeOK
<1> DEFINE q == [pc |-> pc, job |-> None, read |-> plan.courses, list |-> list]
<1>3. q \in PlanState /\ q.pc = pc /\ q.job = None
  BY <1>2 DEF PlanState
<1>4. /\ req' = [req EXCEPT ![r] = q] /\ held' = [held EXCEPT ![r] = held[r]]
      /\ UNCHANGED rows /\ UNCHANGED byHand
  BY <1>1 DEF ReadBlueprint, Suspend
<1> HIDE DEF q
<1>5. q \in Suspension /\ ~Deletes(q)
  BY <1>3 DEF Suspension, Deletes
<1>6. Promise(q, held[r]) /\ TakenBy(q) = {}
  BY <1>3, <1>5, Nothing
<1>7. Becomes(r, q, held[r])
  BY <1>1, <1>4, <1>5, <1>6 DEF Becomes
<1> QED BY <1>4, <1>6, <1>7, Quiet

\* A request that is answered and keeps its locks.
LEMMA Answered ==
    ASSUME Inv, NEW r \in Requests, Suspend(r, Idle), UNCHANGED rows,
           UNCHANGED <<held, byHand>>
    PROVE  Inv'
<1>1. held[r] \subseteq Lock /\ Fits(r, held[r]) /\ held \in [Requests -> SUBSET Lock]
  BY Facts
<1>2. Promise(Idle, held[r]) /\ TakenBy(Idle) = {}
  BY IdleIs, Nothing
<1>3. Becomes(r, Idle, held[r])
  BY <1>1, <1>2, IdleIs DEF Becomes, Suspend
<1> QED BY <1>2, <1>3, Quiet

\* A job in hand: it deletes no blueprint, or DeleteOK holds of it.
LEMMA JobPromise ==
    ASSUME NEW q, NEW ids, q.pc \in {"list", "job", "sourced"}, DeleteOK(q, ids)
    PROVE  Promise(q, ids) /\ TakenBy(q) = {}
BY DEF Promise, LocksOK, JoinOK, AttachOK, AddsFinite, LeaveOK, DetachOK, DemoteOK, TagsOK,
       Joins, Pumps, TakenBy

\* A request goes on with its job.
LEMMA JobInv ==
    ASSUME Inv, NEW r \in Requests, NEW q \in JobState, Suspend(r, q), UNCHANGED rows,
           UNCHANGED <<held, byHand>>, DeleteOK(q, held[r])
    PROVE  Inv'
<1>1. held[r] \subseteq Lock /\ Fits(r, held[r]) /\ held \in [Requests -> SUBSET Lock]
  BY Facts
<1>2. q.pc \in {"list", "job", "sourced"} /\ q \in Suspension
  BY DEF JobState, Suspension
<1>3. Promise(q, held[r]) /\ TakenBy(q) = {}
  BY <1>2, JobPromise
<1>4. Becomes(r, q, held[r])
  BY <1>1, <1>2, <1>3 DEF Becomes, Suspend
<1> QED BY <1>3, <1>4, Quiet

\* A delete claims the blueprint.
LEMMA ClaimBlueprintInv ==
    ASSUME Inv, NEW r \in Requests, ClaimBlueprint(r)
    PROVE  Inv'
<1>1. UNCHANGED rows /\ UNCHANGED byHand
  BY DEF ClaimBlueprint
<1>2. CASE Suspend(r, Idle) /\ UNCHANGED held
  BY <1>1, <1>2, Answered
<1>3. CASE ~(Suspend(r, Idle) /\ UNCHANGED held)
  <2> DEFINE job == [kind |-> "delete", list |-> {}, todo |-> {}]
             q == [pc |-> "sourced", job |-> job]
             ids == held[r] \cup {PlanUpdate}
  <2>1. /\ req' = [req EXCEPT ![r] = q] /\ held' = [held EXCEPT ![r] = ids]
        /\ Lockable(r, {PlanUpdate, PlanShare}) /\ Standing
    BY <1>3 DEF ClaimBlueprint, Suspend, Locks, PumpOf
  <2>2. held[r] \subseteq Lock /\ Fits(r, held[r])
    BY Facts
  <2>3. ids \subseteq Lock /\ Fits(r, ids)
    BY <2>1, <2>2, LockTypes DEF Fits, Lockable
  <2>4. job \in Job
    BY DEF Job
  <2>5. q \in JobState /\ q.pc = "sourced" /\ q.job = job /\ q.job.list = {}
    BY <2>4 DEF JobState
  <2>6. DeleteOK(q, ids)
    <3>1. PlanUpdate \in ids
      OBVIOUS
    <3> HIDE DEF q, ids
    <3> QED BY <2>1, <2>5, <3>1 DEF DeleteOK
  <2> HIDE DEF q, ids, job
  <2>7. Promise(q, ids) /\ TakenBy(q) = {}
    BY <2>5, <2>6, JobPromise
  <2>8. Becomes(r, q, ids)
    BY <2>1, <2>3, <2>5, <2>7 DEF Becomes, Suspension
  <2> QED BY <1>1, <2>7, <2>8, Quiet
<1> QED BY <1>2, <1>3

\* A sweep lists the pairs: for a delete, all that carry the tag.
LEMMA SourcedLinksInv ==
    ASSUME Inv, NEW r \in Requests, SourcedLinks(r)
    PROVE  Inv'
<1>1. PICK a : a = req[r]
  OBVIOUS
<1>2. /\ a \in Suspension /\ a.pc = "sourced" /\ Promise(a, held[r]) /\ TypeOK /\ Store
  BY <1>1, Facts DEF SourcedLinks
<1>3. a \in JobState /\ a.job \in Job /\ DeleteOK(a, held[r])
  BY <1>2, Shapes DEF JobState, Promise
<1> DEFINE found == {j \in Instances : /\ On(j) /\ inst[j].source = plan.id
                                       /\ Standing /\ inst[j].course \notin a.job.list}
           todo == {<<inst[i].class, inst[i].course>> : i \in found}
           job == [a.job EXCEPT !.todo = todo]
           q == [pc |-> "job", job |-> job]
<1>4. Suspend(r, q) /\ UNCHANGED rows /\ UNCHANGED <<held, byHand>>
  BY <1>1 DEF SourcedLinks
<1>5. \A i \in Instances : On(i) /\ inst[i].source = plan.id /\ Standing
                           /\ inst[i].course \notin a.job.list
         => <<inst[i].class, inst[i].course>> \in todo
  OBVIOUS
<1>6. todo \subseteq Classes \X Courses
  BY <1>2 DEF Store, LinksOK, On, Born
<1> HIDE DEF todo
<1>7. /\ job \in Job /\ job.kind = a.job.kind /\ job.list = a.job.list /\ job.todo = todo
  BY <1>3, <1>6 DEF Job
<1> HIDE DEF job
<1>8. q \in JobState /\ q.pc = "job" /\ q.job = job
  BY <1>7 DEF JobState
<1> HIDE DEF q
<1>9. DeleteOK(q, held[r])
  <2> SUFFICES ASSUME Deletes(q)
               PROVE  /\ job.list = {} /\ PlanUpdate \in held[r] /\ Standing
                      /\ \A i \in Instances : On(i) /\ inst[i].source = plan.id =>
                            <<inst[i].class, inst[i].course>> \in job.todo
    BY <1>8 DEF DeleteOK
  <2>1. Deletes(a)
    BY <1>3, <1>7, <1>8, PumpAssumption DEF Deletes
  <2> QED BY <1>3, <1>5, <1>7, <2>1 DEF DeleteOK
<1> QED BY <1>4, <1>8, <1>9, JobInv

\* A pair is done: no tagged instance is left of it, or it is being detached.
LEMMA DropLinkInv ==
    ASSUME Inv, NEW r \in Requests, DropLink(r)
    PROVE  Inv'
<1>1. PICK a : a = req[r]
  OBVIOUS
<1>2. /\ a \in Suspension /\ a.pc = "job" /\ Promise(a, held[r]) /\ TypeOK /\ Store
  BY <1>1, Facts DEF DropLink
<1>3. a \in JobState /\ a.job \in Job /\ DeleteOK(a, held[r]) /\ a.job # None
  BY <1>2, Shapes, PumpAssumption DEF JobState, Promise
<1>4. PICK p \in a.job.todo :
         LET job == [a.job EXCEPT !.todo = a.job.todo \ {p}]
             found == {i \in InstancesOf(p[1]) :
                          inst[i].course = p[2] /\ OwnsLink(i, plan.id)}
         IN IF found = {} THEN /\ Suspend(r, [a EXCEPT !.job = job])
                               /\ UNCHANGED rows /\ UNCHANGED <<held, byHand>>
            ELSE \E i \in found : DetachBegins(r, i, job)
  BY <1>1 DEF DropLink
<1> DEFINE job == [a.job EXCEPT !.todo = a.job.todo \ {p}]
           found == {i \in InstancesOf(p[1]) :
                        inst[i].course = p[2] /\ OwnsLink(i, plan.id)}
           q == [a EXCEPT !.job = job]
<1>5. /\ found = {} => Suspend(r, q) /\ UNCHANGED rows /\ UNCHANGED <<held, byHand>>
      /\ found # {} => \E i \in found : DetachBegins(r, i, job)
  BY <1>4
<1>6. /\ job \in Job /\ job.kind = a.job.kind /\ job.list = a.job.list
      /\ job.todo = a.job.todo \ {p}
  BY <1>3 DEF Job
<1> HIDE DEF job
<1>7. p \in Classes \X Courses
  BY <1>3 DEF Job
<1>8. q \in JobState /\ q.pc = "job" /\ q.job = job
  BY <1>2, <1>3, <1>6 DEF JobState
<1>9. plan.id # None
  BY <1>2, PumpAssumption DEF TypeOK
<1>10. \A i \in found : i \in Instances /\ On(i) /\ inst[i].source = plan.id
                        /\ inst[i].class = p[1] /\ inst[i].course = p[2]
  BY <1>9 DEF InstancesOf, OwnsLink
<1>11. \A i \in Instances : On(i) /\ inst[i].source = plan.id
                            /\ <<inst[i].class, inst[i].course>> = p => i \in found
  BY <1>7 DEF InstancesOf, OwnsLink
<1> HIDE DEF found, q
<1>12. CASE found = {}
  <2>1. DeleteOK(q, held[r])
    <3> SUFFICES ASSUME Deletes(q)
                 PROVE  /\ job.list = {} /\ PlanUpdate \in held[r] /\ Standing
                        /\ \A i \in Instances : On(i) /\ inst[i].source = plan.id =>
                              <<inst[i].class, inst[i].course>> \in job.todo
      BY <1>8 DEF DeleteOK
    <3>1. Deletes(a)
      BY <1>3, <1>6, <1>8 DEF Deletes
    <3> QED BY <1>2, <1>3, <1>6, <1>11, <1>12, <3>1 DEF DeleteOK
  <2> QED BY <1>5, <1>8, <1>12, <2>1, JobInv
<1>13. CASE found # {}
  <2>1. PICK i \in found : DetachBegins(r, i, job)
    BY <1>5, <1>13
  <2>2. i \in Instances /\ On(i) /\ inst[i].source # None
    BY <1>9, <1>10
  <2> DEFINE s == [pc |-> "sweep", job |-> job, inst |-> i]
  <2>3. s.pc = "sweep" /\ s.job = job /\ s.inst = i
    OBVIOUS
  <2> HIDE DEF s
  <2>4. DeleteOK(s, held[r])
    <3> SUFFICES ASSUME Deletes(s)
                 PROVE  /\ job.list = {} /\ PlanUpdate \in held[r] /\ Standing
                        /\ \A j \in Instances : On(j) /\ inst[j].source = plan.id =>
                              <<inst[j].class, inst[j].course>> \in job.todo \/ i = j
      BY <2>3 DEF DeleteOK
    <3>1. Deletes(a)
      BY <1>3, <1>6, <2>3 DEF Deletes
    <3>2. ASSUME NEW j \in Instances, On(j), inst[j].source = plan.id
          PROVE  <<inst[j].class, inst[j].course>> \in job.todo \/ i = j
      <4>1. <<inst[j].class, inst[j].course>> \in a.job.todo
        BY <1>2, <1>3, <3>1, <3>2 DEF DeleteOK
      <4>2. CASE <<inst[j].class, inst[j].course>> = p
        <5>1. inst[j].class = p[1] /\ inst[j].course = p[2]
          BY <4>2
        <5> QED BY <1>2, <1>10, <2>2, <3>2, <5>1 DEF Store, LinksOK
      <4> QED BY <1>6, <4>1, <4>2
    <3> QED BY <1>3, <1>6, <3>1, <3>2 DEF DeleteOK
  <2> QED BY <1>6, <2>1, <2>2, <2>4, DetachBeginsInv DEF s
<1> QED BY <1>12, <1>13

\* A pump lists the classes of the grade.
LEMMA ListForGradeInv ==
    ASSUME Inv, NEW r \in Requests, ListForGrade(r)
    PROVE  Inv'
<1>1. PICK a : a = req[r]
  OBVIOUS
<1>2. a \in Suspension /\ a.pc = "list" /\ Promise(a, held[r])
  BY <1>1, Facts DEF ListForGrade
<1>3. a \in JobState /\ a.job \in Job /\ ~Deletes(a) /\ a.job # None
  BY <1>2, Shapes, PumpAssumption DEF JobState, Promise, DeleteOK
<1> DEFINE todo == ClassesThere \X a.job.list
           job == [a.job EXCEPT !.todo = todo]
           q == [pc |-> "job", job |-> job]
<1>4. Suspend(r, q) /\ UNCHANGED rows /\ UNCHANGED <<held, byHand>>
  BY <1>1 DEF ListForGrade
<1>5. todo \subseteq Classes \X Courses
  BY <1>3 DEF Job, ClassesThere
<1> HIDE DEF todo
<1>6. job \in Job /\ job.kind = a.job.kind
  BY <1>3, <1>5 DEF Job
<1> HIDE DEF job
<1>7. q \in JobState /\ q.job = job
  BY <1>6 DEF JobState
<1> HIDE DEF q
<1>8. DeleteOK(q, held[r])
  BY <1>3, <1>6, <1>7 DEF DeleteOK, Deletes
<1> QED BY <1>4, <1>7, <1>8, JobInv

\* A pump begins an attach of its own.
LEMMA ApplyCourseInv ==
    ASSUME Inv, NEW r \in Requests, ApplyCourse(r)
    PROVE  Inv'
<1>1. PICK a : a = req[r]
  OBVIOUS
<1>2. /\ a \in Suspension /\ a.pc = "job" /\ TypeOK /\ Fits(r, held[r])
      /\ a.job.kind = "pump" /\ Lockable(r, {PlanUpdate})
  BY <1>1, Facts DEF ApplyCourse, Claim
<1>3. a \in JobState /\ a.job \in Job
  BY <1>2, Shapes DEF JobState
<1>4. CASE Suspend(r, Idle) /\ UNCHANGED rows /\ UNCHANGED <<held, byHand>>
  BY <1>4, Answered
<1>5. CASE ~(Suspend(r, Idle) /\ UNCHANGED rows /\ UNCHANGED <<held, byHand>>)
  <2>1. PICK p \in a.job.todo :
           /\ Standing
           /\ AttachBegins(r, p[1], p[2], plan.id,
                           [a.job EXCEPT !.todo = a.job.todo \ {p}], {PlanShare})
    BY <1>1, <1>5 DEF ApplyCourse, Claim
  <2> DEFINE job == [a.job EXCEPT !.todo = a.job.todo \ {p}]
  <2>2. job \in Job /\ job.kind = "pump"
    BY <1>2, <1>3 DEF Job
  <2>3. AttachBegins(r, p[1], p[2], plan.id, job, {PlanShare})
    BY <2>1
  <2> HIDE DEF job
  <2>4. p[1] \in Classes /\ p[2] \in Courses
    BY <1>3 DEF Job
  <2>5. plan.id \in Nat
    BY <1>2 DEF TypeOK
  <2>6. Fits(r, held[r] \cup {PlanShare})
    BY <1>2 DEF Fits, Lockable, PlanShare, PlanUpdate
  <2>7. TagOK(plan.id, held[r] \cup {PlanShare}) /\ {PlanShare} \subseteq Lock
    BY <2>1, LockTypes DEF TagOK
  <2> QED BY <2>2, <2>3, <2>4, <2>5, <2>6, <2>7, AttachBeginsInv
<1> QED BY <1>4, <1>5

\* A transaction is rolled back.
LEMMA DropInv ==
    ASSUME Inv, NEW r \in Requests, Drop(r)
    PROVE  Inv'
<1>1. Promise(Idle, {}) /\ TakenBy(Idle) = {}
  BY IdleIs, Nothing
<1>2. Becomes(r, Idle, {})
  BY <1>1, IdleIs DEF Becomes, Suspend, Fits, Drop
<1>3. UNCHANGED rows /\ UNCHANGED byHand
  BY DEF Drop
<1> QED BY <1>1, <1>2, <1>3, Quiet

-----------------------------------------------------------------------------
(* Steps that write rows: what they share. *)

MemberCounts == \A c \in Classes : group[c].class_member_count = Cardinality(MembersOf(c))
CourseCounts ==
    /\ \A c \in Classes : group[c].class_course_count = Cardinality(InstancesOf(c))
    /\ \A k \in Courses :
          attached[k] = Cardinality({i \in Instances : On(i) /\ inst[i].course = k})
RosterCounts == \A i \in Instances : inst[i].enrollment_count = Cardinality(RosterOf(i))

\* CountsExact, counter by counter.
LEMMA Parts ==
    /\ CountsExact <=> MemberCounts /\ CourseCounts /\ RosterCounts
    /\ CountsExact' <=> MemberCounts' /\ CourseCounts' /\ RosterCounts'
BY DEF CountsExact, MemberCounts, CourseCounts, RosterCounts

\* The store, part by part, after a step.
LEMMA StoreNext ==
    ASSUME LinksOK', RosterOK', MembersStudy', Tagged', PairsEnrolled', NoEnrolmentOutlives',
           MemberCounts', CourseCounts', RosterCounts'
    PROVE  Store'
BY Parts DEF Store

\* What the invariant says of the rows.
LEMMA RowFacts ==
    ASSUME Inv
    PROVE  /\ RowTypes /\ LinksOK /\ RosterOK /\ MembersStudy /\ Tagged /\ PairsEnrolled
           /\ NoEnrolmentOutlives /\ MemberCounts /\ CourseCounts /\ RosterCounts
BY Parts DEF Inv, TypeOK, RowTypes, Store

\* A step of no request.
LEMMA Alone ==
    ASSUME Inv, UNCHANGED <<held, req>>, RowTypes', Store',
           \A d \in Requests : Spares(held[d], TakenBy(req[d]))
    PROVE  Inv'
<1>1. TypeOK /\ Store /\ Exclusive /\ TakenOnce /\ Promises
  BY DEF Inv
<1>2. req \in [Requests -> Suspension] /\ held \in [Requests -> SUBSET Lock]
  BY <1>1 DEF TypeOK
<1>3. TypeOK'
  BY <1>2 DEF TypeOK, RowTypes
<1>4. Exclusive' /\ TakenOnce'
  BY <1>1 DEF Exclusive, TakenOnce, Taken
<1>5. ASSUME NEW d \in Requests PROVE Promise(req[d], held[d])'
  <2>1. PICK a, b : a = req[d] /\ b = held[d]
    OBVIOUS
  <2>2. a \in Suspension /\ Promise(a, b) /\ Spares(b, TakenBy(a))
    BY <1>1, <1>2, <2>1 DEF Promises
  <2>3. Promise(a, b)'
    BY <1>1, <2>2, Frame
  <2>4. a = req'[d] /\ b = held'[d]
    BY <2>1
  <2> QED BY <2>3, <2>4
<1>6. Promises'
  BY <1>5 DEF Promises
<1> QED BY <1>3, <1>4, <1>6 DEF Inv

\* A state that relies on nothing, after any step.
LEMMA NothingNext ==
    ASSUME NEW q, NEW ids, q.pc \in {"idle", "list", "job", "sourced", "set_courses",
                                     "claim_plan", "disown", "place"},
           ~Deletes(q)
    PROVE  Promise(q, ids)' /\ TakenBy(q) = {}
BY DEF Promise, LocksOK, JoinOK, AttachOK, AddsFinite, LeaveOK, DetachOK, DemoteOK, TagsOK,
       DeleteOK, Joins, Pumps, TakenBy, Deletes

\* What the others hold, the actor does not.
LEMMA Apart ==
    ASSUME Inv, NEW r \in Requests, NEW d \in Requests, d # r
    PROVE  /\ \A u : User(u) \in held[r] => User(u) \notin held[d]
           /\ \A c : Class(c) \in held[r] => Class(c) \notin held[d]
           /\ \A i : Instance(i) \in held[r] => Instance(i) \notin held[d]
           /\ PlanUpdate \in held[r] => PlanUpdate \notin held[d] /\ PlanShare \notin held[d]
           /\ PlanShare \in held[r] => PlanUpdate \notin held[d]
           /\ TakenBy(req[r]) \cap TakenBy(req[d]) = {}
<1>1. held[r] \cap held[d] \subseteq {PlanShare}
  BY DEF Inv, Exclusive
<1>2. /\ PlanUpdate \in held[r] => PlanShare \notin held[d]
      /\ PlanUpdate \in held[d] => PlanShare \notin held[r]
  BY DEF Inv, Exclusive
<1>3. TakenBy(req[r]) \cap TakenBy(req[d]) = {}
  BY DEF Inv, TakenOnce, Taken, TakenBy
<1> QED BY <1>1, <1>2, <1>3, LockNames DEF PlanUpdate, PlanShare

\* One element less is one less.
LEMMA Minus ==
    ASSUME NEW S, IsFiniteSet(S), NEW x \in S
    PROVE  /\ IsFiniteSet(S \ {x}) /\ Cardinality(S) \in Nat
           /\ Cardinality(S \ {x}) = Less(Cardinality(S))
<1>1. /\ IsFiniteSet(S \ {x}) /\ Cardinality(S) \in Nat
      /\ Cardinality(S \ {x}) = Cardinality(S) - 1 /\ Cardinality(S \ {x}) \in Nat
  BY FS_RemoveElement, FS_CardinalityType
<1> QED BY <1>1 DEF Less

\* One element more is one more.
LEMMA Plus ==
    ASSUME NEW S, IsFiniteSet(S), NEW x, x \notin S
    PROVE  /\ IsFiniteSet(S \cup {x}) /\ Cardinality(S) \in Nat
           /\ Cardinality(S \cup {x}) = Cardinality(S) + 1
BY FS_AddElement, FS_CardinalityType

\* What is counted is finite.
LEMMA Finite ==
    ASSUME RosterOK
    PROVE  /\ \A i : IsFiniteSet(RosterOf(i))
           /\ \A c : IsFiniteSet(MembersOf(c))
           /\ \A c : IsFiniteSet(InstancesOf(c))
           /\ \A k : IsFiniteSet({i \in Instances : On(i) /\ inst[i].course = k})
<1>1. ASSUME NEW i PROVE IsFiniteSet(RosterOf(i))
  BY FS_Subset DEF RosterOK, RosterOf
<1>2. ASSUME NEW c PROVE IsFiniteSet(MembersOf(c))
  BY FS_Subset, PumpAssumption DEF MembersOf
<1>3. ASSUME NEW c PROVE IsFiniteSet(InstancesOf(c))
  BY FS_Subset, PumpAssumption DEF InstancesOf
<1>4. ASSUME NEW k PROVE IsFiniteSet({i \in Instances : On(i) /\ inst[i].course = k})
  BY FS_Subset, PumpAssumption
<1> QED BY <1>1, <1>2, <1>3, <1>4

\* Counts of rows a step does not touch.
LEMMA KeepsMemberCounts ==
    ASSUME MemberCounts, UNCHANGED member,
           \A c \in Classes : group'[c].class_member_count = group[c].class_member_count
    PROVE  MemberCounts'
BY DEF MemberCounts, MembersOf

\* Links a step does not touch.
LEMMA KeepsCourseCounts ==
    ASSUME CourseCounts, UNCHANGED attached,
           \A i \in Instances : /\ inst'[i].status = inst[i].status
                                /\ inst'[i].class = inst[i].class
                                /\ inst'[i].course = inst[i].course,
           \A c \in Classes : group'[c].class_course_count = group[c].class_course_count
    PROVE  CourseCounts'
<1>1. ASSUME NEW c PROVE InstancesOf(c)' = InstancesOf(c)
  BY DEF InstancesOf, On
<1>2. ASSUME NEW k
      PROVE  {i \in Instances : On(i)' /\ inst'[i].course = k}
              = {i \in Instances : On(i) /\ inst[i].course = k}
  BY DEF On
<1>3. \A c \in Classes : group'[c].class_course_count = Cardinality(InstancesOf(c)')
  BY <1>1 DEF CourseCounts
<1>4. \A k \in Courses :
         attached'[k] = Cardinality({i \in Instances : On(i)' /\ inst'[i].course = k})
  BY <1>2 DEF CourseCounts
<1> QED BY <1>3, <1>4 DEF CourseCounts, InstancesOf, On

-----------------------------------------------------------------------------
(* The account and the class. *)

\* An account becomes a student again.
LEMMA MakeStudentInv ==
    ASSUME Inv, NEW u \in Users, MakeStudent(u)
    PROVE  Inv'
<1>1. /\ RowTypes /\ LinksOK /\ RosterOK /\ MembersStudy /\ Tagged /\ PairsEnrolled
      /\ NoEnrolmentOutlives /\ MemberCounts /\ CourseCounts /\ RosterCounts
  BY RowFacts
<1>2. /\ student' = student \cup {u} /\ UNCHANGED <<held, req>>
      /\ UNCHANGED <<group, member, inst, attached, enr, byHand, plan, planned>>
  BY DEF MakeStudent, blueprint
<1>3. RowTypes'
  BY <1>1, <1>2 DEF RowTypes
<1>4. LinksOK' /\ RosterOK' /\ Tagged'
  BY <1>1, <1>2 DEF LinksOK, RosterOK, Tagged, Pair, On, Born, Standing
<1>5. MembersStudy' /\ NoEnrolmentOutlives'
  BY <1>1, <1>2 DEF MembersStudy, NoEnrolmentOutlives, On
<1>6. PairsEnrolled'
  BY <1>1, <1>2 DEF PairsEnrolled, MembersOf, InstancesOf, On, Enrolled, Pair
<1>7. MemberCounts' /\ CourseCounts' /\ RosterCounts'
  BY <1>1, <1>2 DEF MemberCounts, CourseCounts, RosterCounts, MembersOf, InstancesOf, On,
                    RosterOf
<1>8. Store'
  BY <1>4, <1>5, <1>6, <1>7, StoreNext
<1>9. ASSUME NEW d \in Requests PROVE Spares(held[d], TakenBy(req[d]))
  BY <1>2 DEF Spares, SparesMembers, SparesLinks, SparesRoster, SparesPlan, On, Born
<1> QED BY <1>2, <1>3, <1>8, <1>9, Alone

\* A class is created, empty.
LEMMA CreateClassInv ==
    ASSUME Inv, NEW c \in Classes, CreateClass(c)
    PROVE  Inv'
<1>1. /\ RowTypes /\ LinksOK /\ RosterOK /\ MembersStudy /\ Tagged /\ PairsEnrolled
      /\ NoEnrolmentOutlives /\ MemberCounts /\ CourseCounts /\ RosterCounts
  BY RowFacts
<1>2. /\ group' = [group EXCEPT ![c].status = "there"] /\ UNCHANGED <<held, req>>
      /\ UNCHANGED <<student, member, inst, attached, enr, byHand, plan, planned>>
  BY DEF CreateClass, blueprint
<1>3. \A x \in Classes : /\ group'[x].class_member_count = group[x].class_member_count
                         /\ group'[x].class_course_count = group[x].class_course_count
  BY <1>1, <1>2 DEF RowTypes
<1>4. RowTypes'
  BY <1>1, <1>2 DEF RowTypes
<1>5. LinksOK' /\ RosterOK' /\ Tagged'
  BY <1>1, <1>2 DEF LinksOK, RosterOK, Tagged, Pair, On, Born, Standing
<1>6. MembersStudy' /\ NoEnrolmentOutlives'
  BY <1>1, <1>2 DEF MembersStudy, NoEnrolmentOutlives, On
<1>7. PairsEnrolled'
  BY <1>1, <1>2 DEF PairsEnrolled, MembersOf, InstancesOf, On, Enrolled, Pair
<1>8. MemberCounts' /\ CourseCounts' /\ RosterCounts'
  BY <1>1, <1>2, <1>3, KeepsMemberCounts, KeepsCourseCounts DEF RosterCounts, RosterOf
<1>9. Store'
  BY <1>5, <1>6, <1>7, <1>8, StoreNext
<1>10. ASSUME NEW d \in Requests PROVE Spares(held[d], TakenBy(req[d]))
  BY <1>2 DEF Spares, SparesMembers, SparesLinks, SparesRoster, SparesPlan, On, Born
<1> QED BY <1>2, <1>4, <1>9, <1>10, Alone

\* A class without members has no tagged row to hand over.
LEMMA DeleteClassInv ==
    ASSUME Inv, NEW c \in Classes, DeleteClass(c)
    PROVE  Inv'
<1>1. /\ RowTypes /\ LinksOK /\ RosterOK /\ MembersStudy /\ Tagged /\ PairsEnrolled
      /\ NoEnrolmentOutlives /\ MemberCounts /\ CourseCounts /\ RosterCounts
  BY RowFacts
<1>2. /\ group' = [group EXCEPT ![c].status = "gone"] /\ UNCHANGED <<held, req>>
      /\ UNCHANGED <<student, member, inst, attached, byHand, plan, planned>>
      /\ enr' = {IF e.source = c THEN [e EXCEPT !.source = None] ELSE e : e \in enr}
      /\ group[c].class_member_count = 0
  BY DEF DeleteClass, blueprint
<1>3. MembersOf(c) = {}
  <2>1. IsFiniteSet(MembersOf(c)) /\ Cardinality(MembersOf(c)) = 0
    BY <1>1, <1>2, Finite DEF MemberCounts
  <2> QED BY <2>1, FS_EmptySet
<1>4. \A e \in enr : e.source # c
  BY <1>1, <1>3, PumpAssumption DEF NoEnrolmentOutlives, MembersOf, RowTypes, Enrolment
<1>5. enr' = enr
  BY <1>2, <1>4
<1>6. \A x \in Classes : /\ group'[x].class_member_count = group[x].class_member_count
                         /\ group'[x].class_course_count = group[x].class_course_count
  BY <1>1, <1>2 DEF RowTypes
<1>7. RowTypes'
  BY <1>1, <1>2, <1>5 DEF RowTypes
<1>8. LinksOK' /\ RosterOK' /\ Tagged'
  BY <1>1, <1>2, <1>5 DEF LinksOK, RosterOK, Tagged, Pair, On, Born, Standing
<1>9. MembersStudy' /\ NoEnrolmentOutlives'
  BY <1>1, <1>2, <1>5 DEF MembersStudy, NoEnrolmentOutlives, On
<1>10. PairsEnrolled'
  BY <1>1, <1>2, <1>5 DEF PairsEnrolled, MembersOf, InstancesOf, On, Enrolled, Pair
<1>11. MemberCounts' /\ CourseCounts' /\ RosterCounts'
  BY <1>1, <1>2, <1>5, <1>6, KeepsMemberCounts, KeepsCourseCounts DEF RosterCounts, RosterOf
<1>12. Store'
  BY <1>8, <1>9, <1>10, <1>11, StoreNext
<1>13. ASSUME NEW d \in Requests PROVE Spares(held[d], TakenBy(req[d]))
  BY <1>2, <1>5 DEF Spares, SparesMembers, SparesLinks, SparesRoster, SparesPlan, On, Born
<1> QED BY <1>2, <1>7, <1>12, <1>13, Alone

-----------------------------------------------------------------------------
(* The blueprint's row. *)

\* A step that writes only the blueprint's row.
LEMMA PlanOnly ==
    ASSUME Inv, UNCHANGED <<student, group, member, inst, attached, enr, byHand>>,
           plan' \in [id : Nat, courses : SUBSET Courses], planned' \in Nat, Tagged'
    PROVE  /\ RowTypes' /\ Store'
           /\ \A ids, taken : SparesPlan(ids) => Spares(ids, taken)
<1>1. /\ RowTypes /\ LinksOK /\ RosterOK /\ MembersStudy /\ PairsEnrolled
      /\ NoEnrolmentOutlives /\ MemberCounts /\ CourseCounts /\ RosterCounts
  BY RowFacts
<1>2. RowTypes'
  BY <1>1 DEF RowTypes
<1>3. LinksOK' /\ RosterOK'
  BY <1>1 DEF LinksOK, RosterOK, Pair, On, Born
<1>4. MembersStudy' /\ NoEnrolmentOutlives'
  BY <1>1 DEF MembersStudy, NoEnrolmentOutlives, On
<1>5. PairsEnrolled'
  BY <1>1 DEF PairsEnrolled, MembersOf, InstancesOf, On, Enrolled, Pair
<1>6. MemberCounts' /\ CourseCounts' /\ RosterCounts'
  BY <1>1 DEF MemberCounts, CourseCounts, RosterCounts, MembersOf, InstancesOf, On, RosterOf
<1>7. Store'
  BY <1>3, <1>4, <1>5, <1>6, StoreNext
<1>8. ASSUME NEW ids, NEW taken PROVE SparesPlan(ids) => Spares(ids, taken)
  BY DEF Spares, SparesMembers, SparesLinks, SparesRoster, On, Born
<1> QED BY <1>2, <1>7, <1>8

\* A blueprint with a new id: no tag names it yet.
LEMMA CreateBlueprintInv ==
    ASSUME Inv, NEW r \in Requests, NEW list \in SUBSET Courses, CreateBlueprint(r, list)
    PROVE  Inv'
<1>1. RowTypes /\ Tagged
  BY RowFacts
<1>2. /\ ~Standing /\ planned' = planned + 1 /\ plan' = [id |-> planned + 1, courses |-> list]
      /\ UNCHANGED <<student, group, member, inst, attached, enr, byHand>> /\ UNCHANGED held
  BY DEF CreateBlueprint
<1>3. plan' \in [id : Nat, courses : SUBSET Courses] /\ planned' \in Nat
  BY <1>1, <1>2 DEF RowTypes
<1>4. Tagged'
  BY <1>1, <1>2 DEF Tagged, On
<1>5. RowTypes' /\ Store' /\ \A ids, taken : SparesPlan(ids) => Spares(ids, taken)
  BY <1>2, <1>3, <1>4, PlanOnly
<1>6. ASSUME NEW d \in Requests PROVE Spares(held[d], TakenBy(req[d]))
  BY <1>2, <1>5 DEF SparesPlan
<1> DEFINE q == [pc |-> "list", job |-> PumpOf(list)]
<1>7. PumpOf(list) \in Job /\ PumpOf(list).kind = "pump"
  BY DEF Job, PumpOf
<1>8. q \in JobState /\ q.pc = "list" /\ q.job = PumpOf(list)
  BY <1>7 DEF JobState
<1>9. held[r] \subseteq Lock /\ Fits(r, held[r]) /\ held \in [Requests -> SUBSET Lock]
  BY Facts
<1>10. req' = [req EXCEPT ![r] = q] /\ held' = [held EXCEPT ![r] = held[r]]
  BY <1>2, <1>9 DEF CreateBlueprint, Suspend
<1> HIDE DEF q
<1>11. q \in Suspension /\ ~Deletes(q)
  BY <1>7, <1>8 DEF Suspension, Deletes
<1>12. Promise(q, held[r])' /\ TakenBy(q) = {}
  <2>1. PICK ids : ids = held[r]
    OBVIOUS
  <2>2. Promise(q, ids)' /\ TakenBy(q) = {}
    BY <1>8, <1>11, NothingNext
  <2> QED BY <1>2, <2>1, <2>2
<1>13. Becomes(r, q, held[r])
  BY <1>9, <1>10, <1>11, <1>12 DEF Becomes
<1>14. PICK ids : ids = held[r]
  OBVIOUS
<1>15. Promise(q, ids)' /\ Becomes(r, q, ids)
  BY <1>2, <1>12, <1>13, <1>14
<1> QED BY <1>5, <1>6, <1>15, Steps

\* An edit keeps the id, so the tags stand.
LEMMA SetCoursesInv ==
    ASSUME Inv, NEW r \in Requests, SetCourses(r)
    PROVE  Inv'
<1>1. PICK a : a = req[r]
  OBVIOUS
<1>2. /\ a \in Suspension /\ a.pc = "set_courses"
      /\ held[r] \subseteq Lock /\ Fits(r, held[r]) /\ held \in [Requests -> SUBSET Lock]
  BY <1>1, Facts DEF SetCourses
<1>3. a \in PlanState
  BY <1>2, Shapes
<1>4. a.list \in SUBSET Courses
  BY <1>3 DEF PlanState
<1>5. UNCHANGED <<student, group, member, inst, attached, planned, enr, held, byHand>>
  BY DEF SetCourses
<1>6. CASE Suspend(r, Idle) /\ UNCHANGED plan
  BY <1>5, <1>6, Answered DEF rows
<1>7. CASE ~(Suspend(r, Idle) /\ UNCHANGED plan)
  <2> DEFINE job == [kind |-> "edit", list |-> a.list, todo |-> {}]
             q == [pc |-> "sourced", job |-> job]
  <2>1. /\ plan' = [plan EXCEPT !.courses = a.list] /\ Suspend(r, q)
    BY <1>1, <1>7 DEF SetCourses, PumpOf
  <2>2. RowTypes /\ Tagged
    BY RowFacts
  <2>3. /\ plan' \in [id : Nat, courses : SUBSET Courses] /\ plan'.id = plan.id
        /\ planned' \in Nat
    BY <1>4, <1>5, <2>1, <2>2 DEF RowTypes
  <2>4. Tagged'
    BY <1>5, <2>2, <2>3 DEF Tagged, On, Standing
  <2>5. RowTypes' /\ Store' /\ \A ids, taken : SparesPlan(ids) => Spares(ids, taken)
    BY <1>5, <2>3, <2>4, PlanOnly
  <2>6. ASSUME NEW d \in Requests PROVE Spares(held[d], TakenBy(req[d]))
    BY <2>3, <2>5 DEF SparesPlan
  <2>7. job \in Job /\ job.kind = "edit"
    BY <1>4 DEF Job
  <2> HIDE DEF job
  <2>8. q \in JobState /\ q.pc = "sourced" /\ q.job = job
    BY <2>7 DEF JobState
  <2> HIDE DEF q
  <2>9. q \in Suspension /\ ~Deletes(q)
    BY <2>7, <2>8 DEF Suspension, Deletes
  <2>10. PICK ids : ids = held[r]
    OBVIOUS
  <2>11. Promise(q, ids)' /\ TakenBy(q) = {}
    BY <2>8, <2>9, NothingNext
  <2>12. Becomes(r, q, ids)
    BY <1>2, <1>5, <2>1, <2>9, <2>10, <2>11 DEF Becomes, Suspend
  <2> QED BY <2>5, <2>6, <2>11, <2>12, Steps
<1> QED BY <1>6, <1>7

\* A delete that has swept what the blueprint tagged takes its row.
LEMMA SweepDoneInv ==
    ASSUME Inv, NEW r \in Requests, SweepDone(r)
    PROVE  Inv'
<1>1. PICK a : a = req[r]
  OBVIOUS
<1>2. /\ a \in Suspension /\ a.pc = "job" /\ Promise(a, held[r]) /\ a.job.todo = {}
      /\ held[r] \subseteq Lock /\ Fits(r, held[r]) /\ held \in [Requests -> SUBSET Lock]
  BY <1>1, Facts DEF SweepDone
<1>3. a \in JobState /\ a.job \in Job /\ a.job # None /\ DeleteOK(a, held[r])
  BY <1>2, Shapes, PumpAssumption DEF JobState, Promise
<1>4. UNCHANGED <<student, group, member, inst, attached, planned, enr, byHand>>
  BY DEF SweepDone
<1>5. CASE a.job.kind = "edit"
  <2> DEFINE job == [a.job EXCEPT !.kind = "pump"]
             q == [pc |-> "list", job |-> job]
  <2>1. Suspend(r, q) /\ UNCHANGED <<plan, held>>
    BY <1>1, <1>5 DEF SweepDone
  <2>2. job \in Job /\ job.kind = "pump"
    BY <1>3 DEF Job
  <2> HIDE DEF job
  <2>3. q \in JobState /\ q.job = job
    BY <2>2 DEF JobState
  <2> HIDE DEF q
  <2>4. DeleteOK(q, held[r])
    BY <2>2, <2>3 DEF DeleteOK, Deletes
  <2> QED BY <1>4, <2>1, <2>3, <2>4, JobInv DEF rows
<1>6. CASE a.job.kind = "pump"
  <2>1. Suspend(r, Idle) /\ UNCHANGED <<plan, held>>
    BY <1>1, <1>6 DEF SweepDone
  <2> QED BY <1>4, <2>1, Answered DEF rows
<1>7. CASE a.job.kind = "delete"
  <2>1. /\ plan' = [id |-> 0, courses |-> {}] /\ Suspend(r, Idle)
        /\ held' = [held EXCEPT ![r] = {}]
    BY <1>1, <1>7 DEF SweepDone
  <2>2. RowTypes /\ Tagged
    BY RowFacts
  <2>3. plan' \in [id : Nat, courses : SUBSET Courses] /\ planned' \in Nat
    BY <1>4, <2>1, <2>2 DEF RowTypes
  <2>4. /\ PlanUpdate \in held[r]
        /\ \A i \in Instances : ~(On(i) /\ inst[i].source = plan.id)
    BY <1>2, <1>3, <1>7 DEF DeleteOK, Deletes
  <2>5. Tagged'
    BY <1>4, <2>2, <2>4 DEF Tagged, On
  <2>6. RowTypes' /\ Store' /\ \A ids, taken : SparesPlan(ids) => Spares(ids, taken)
    BY <1>4, <2>3, <2>5, PlanOnly
  <2>7. ASSUME NEW d \in Requests, d # r PROVE Spares(held[d], TakenBy(req[d]))
    <3>1. PlanUpdate \notin held[d] /\ PlanShare \notin held[d]
      BY <2>4, <2>7, Apart
    <3> QED BY <2>6, <3>1 DEF SparesPlan
  <2>8. Promise(Idle, {})' /\ TakenBy(Idle) = {}
    BY IdleIs, NothingNext
  <2>9. Becomes(r, Idle, {})
    BY <2>1, <2>8, IdleIs DEF Becomes, Suspend, Fits
  <2> QED BY <2>6, <2>7, <2>8, <2>9, Steps
<1> QED BY <1>3, <1>5, <1>6, <1>7 DEF Job

-----------------------------------------------------------------------------
(* By hand. *)

\* A request that is answered as its statement commits.
LEMMA AnsweredWrites ==
    ASSUME Inv, NEW r \in Requests, Suspend(r, Idle), UNCHANGED held, RowTypes', Store',
           \A d \in Requests : d # r => Spares(held[d], TakenBy(req[d]))
    PROVE  Inv'
<1>1. held[r] \subseteq Lock /\ Fits(r, held[r]) /\ held \in [Requests -> SUBSET Lock]
  BY Facts
<1>2. PICK ids : ids = held[r]
  OBVIOUS
<1>3. Promise(Idle, ids)' /\ TakenBy(Idle) = {}
  BY IdleIs, NothingNext
<1>4. Becomes(r, Idle, ids)
  BY <1>1, <1>2, <1>3, IdleIs DEF Becomes, Suspend
<1> QED BY <1>3, <1>4, Steps

\* A row comes off its class; the pair stays enrolled.
LEMMA DisownIfPumpedInv ==
    ASSUME Inv, NEW r \in Requests, DisownIfPumped(r)
    PROVE  Inv'
<1>1. /\ RowTypes /\ LinksOK /\ RosterOK /\ MembersStudy /\ Tagged /\ PairsEnrolled
      /\ NoEnrolmentOutlives /\ MemberCounts /\ CourseCounts /\ RosterCounts
  BY RowFacts
<1>2. PICK p :
         /\ enr' = {IF Pair(e) = p THEN [e EXCEPT !.source = None] ELSE e : e \in enr}
         /\ Suspend(r, Idle)
         /\ UNCHANGED <<student, group, member, inst, attached, held, byHand, plan, planned>>
  BY DEF DisownIfPumped, blueprint
<1> DEFINE Disown(e) == IF Pair(e) = p THEN [e EXCEPT !.source = None] ELSE e
<1>3. \A e \in enr : /\ Disown(e) \in enr' /\ Disown(e) \in Enrolment
                     /\ Disown(e).inst = e.inst /\ Disown(e).user = e.user
                     /\ Disown(e).source = None \/ Disown(e) = e
  BY <1>1, <1>2 DEF RowTypes, Enrolment
<1>4. \A f \in enr' : \E e \in enr : f = Disown(e)
  BY <1>2
<1> HIDE DEF Disown
<1>5. \A e \in enr : Pair(Disown(e)) = Pair(e)
  BY <1>3 DEF Pair
<1>6. RowTypes'
  BY <1>1, <1>2, <1>3, <1>4 DEF RowTypes
<1>7. LinksOK' /\ Tagged' /\ MembersStudy'
  BY <1>1, <1>2 DEF LinksOK, Tagged, MembersStudy, On, Born, Standing
<1>8. RosterOK'
  <2>1. IsFiniteSet(enr')
    <3>1. CASE \E x \in enr : Pair(x) = p
      <4>1. PICK x \in enr : Pair(x) = p
        BY <3>1
      <4>2. \A e \in enr : e # x => Disown(e) = e
        BY <1>1, <4>1 DEF RosterOK, Disown
      <4>3. enr' \subseteq enr \cup {Disown(x)}
        BY <1>4, <4>2
      <4>4. IsFiniteSet(enr \cup {Disown(x)})
        BY <1>1, FS_AddElement DEF RosterOK
      <4> QED BY <4>3, <4>4, FS_Subset
    <3>2. CASE ~\E x \in enr : Pair(x) = p
      <4>1. enr' \subseteq enr
        BY <1>4, <3>2 DEF Disown
      <4> QED BY <1>1, <4>1, FS_Subset DEF RosterOK
    <3> QED BY <3>1, <3>2
  <2>2. ASSUME NEW f \in enr', NEW g \in enr', Pair(f) = Pair(g) PROVE f = g
    <3>1. PICK e \in enr : f = Disown(e)
      BY <1>4
    <3>2. PICK x \in enr : g = Disown(x)
      BY <1>4
    <3>3. e = x
      BY <1>1, <1>5, <2>2, <3>1, <3>2 DEF RosterOK
    <3> QED BY <3>1, <3>2, <3>3
  <2>3. ASSUME NEW f \in enr', f.source # None PROVE inst'[f.inst].class = f.source
    BY <1>1, <1>2, <1>3, <1>4, <2>3 DEF RosterOK
  <2> QED BY <2>1, <2>2, <2>3 DEF RosterOK, Pair
<1>9. PairsEnrolled'
  <2>1. \A x : Enrolled(x) => Enrolled(x)'
    <3>1. ASSUME NEW x, NEW e \in enr, Pair(e) = x PROVE \E f \in enr' : Pair(f) = x
      BY <1>3, <1>5, <3>1
    <3> QED BY <3>1 DEF Enrolled, Pair
  <2> QED BY <1>1, <1>2, <2>1 DEF PairsEnrolled, MembersOf, InstancesOf, On
<1>10. NoEnrolmentOutlives'
  <2>1. ASSUME NEW f \in enr'
        PROVE  /\ inst'[f.inst].status = "there" /\ f.user \in student'
               /\ f.source # None => <<f.source, f.user>> \in member'
    <3>1. PICK e \in enr : f = Disown(e)
      BY <1>4
    <3>2. f.inst = e.inst /\ f.user = e.user /\ (f.source = None \/ f = e)
      BY <1>3, <3>1
    <3> QED BY <1>1, <1>2, <3>2 DEF NoEnrolmentOutlives, On
  <2> QED BY <2>1 DEF NoEnrolmentOutlives, On
<1>11. MemberCounts' /\ CourseCounts'
  BY <1>1, <1>2 DEF MemberCounts, CourseCounts, MembersOf, InstancesOf, On
<1>12. RosterCounts'
  <2>1. ASSUME NEW i \in Instances
        PROVE  Cardinality(RosterOf(i)') = Cardinality(RosterOf(i))
    <3>1. CASE \E e \in RosterOf(i) : Pair(e) = p
      <4>1. PICK e \in RosterOf(i) : Pair(e) = p
        BY <3>1
      <4>2. e \in enr /\ e.inst = i /\ IsFiniteSet(RosterOf(i))
        BY <1>1, <4>1, Finite DEF RosterOf
      <4>3. \A x \in enr : x # e => Disown(x) = x
        BY <1>1, <4>1, <4>2 DEF RosterOK, Disown
      <4>4. RosterOf(i)' = (RosterOf(i) \ {e}) \cup {Disown(e)}
        <5>1. \A f : f \in enr' /\ f.inst = i <=>
                        f = Disown(e) \/ (f \in enr /\ f.inst = i /\ f # e)
          BY <1>3, <1>4, <4>2, <4>3
        <5> QED BY <5>1 DEF RosterOf
      <4>5. Disown(e) \notin RosterOf(i) \ {e}
        BY <1>1, <1>5, <4>2 DEF RosterOK, RosterOf
      <4>6. /\ IsFiniteSet(RosterOf(i) \ {e}) /\ Cardinality(RosterOf(i)) \in Nat
            /\ Cardinality(RosterOf(i) \ {e}) = Cardinality(RosterOf(i)) - 1
        BY <4>1, <4>2, FS_RemoveElement, FS_CardinalityType
      <4>7. Cardinality((RosterOf(i) \ {e}) \cup {Disown(e)}) = Cardinality(RosterOf(i))
        <5>1. Cardinality((RosterOf(i) \ {e}) \cup {Disown(e)})
                = Cardinality(RosterOf(i) \ {e}) + 1
          BY <4>5, <4>6, FS_AddElement
        <5> QED BY <5>1, <4>6
      <4> QED BY <4>4, <4>7
    <3>2. CASE ~\E e \in RosterOf(i) : Pair(e) = p
      <4>1. \A e \in enr : e.inst = i => Disown(e) = e
        BY <3>2 DEF RosterOf, Disown
      <4>2. RosterOf(i)' = RosterOf(i)
        BY <1>3, <1>4, <4>1 DEF RosterOf
      <4> QED BY <4>2
    <3> QED BY <3>1, <3>2
  <2>2. \A i \in Instances : inst'[i].enrollment_count = Cardinality(RosterOf(i)')
    BY <1>1, <1>2, <2>1 DEF RosterCounts
  <2> QED BY <2>2 DEF RosterCounts, RosterOf
<1>13. Store'
  BY <1>7, <1>8, <1>9, <1>10, <1>11, <1>12, StoreNext
<1>14. ASSUME NEW ids, NEW taken PROVE Spares(ids, taken)
  <2>1. SparesMembers(ids) /\ SparesLinks(ids) /\ SparesPlan(ids)
    BY <1>2 DEF SparesMembers, SparesLinks, SparesPlan, On, Born
  <2>2. SparesRoster(ids, taken)
    BY <1>2, <1>3, <1>4, <1>5 DEF SparesRoster
  <2> QED BY <2>1, <2>2 DEF Spares
<1> QED BY <1>2, <1>6, <1>13, <1>14, AnsweredWrites

\* A step that moves roster counters only leaves the links as they are.
KeepsLinks ==
    \A i \in Instances :
        /\ inst'[i].status = inst[i].status /\ inst'[i].class = inst[i].class
        /\ inst'[i].course = inst[i].course /\ inst'[i].source = inst[i].source

\* A step that keeps every link.
LEMMA LinksKept ==
    ASSUME Inv, KeepsLinks, UNCHANGED <<plan, planned>>
    PROVE  /\ LinksOK' /\ Tagged'
           /\ \A ids : SparesLinks(ids) /\ SparesPlan(ids)
           /\ \A c : InstancesOf(c)' = InstancesOf(c)
<1>1. LinksOK /\ Tagged
  BY RowFacts
<1>2. LinksOK'
  BY <1>1 DEF KeepsLinks, LinksOK, On, Born
<1>3. Tagged'
  BY <1>1 DEF KeepsLinks, Tagged, On, Standing
<1>4. \A ids : SparesLinks(ids) /\ SparesPlan(ids)
  BY DEF KeepsLinks, SparesLinks, SparesPlan, On, Born
<1>5. \A c : InstancesOf(c)' = InstancesOf(c)
  BY DEF KeepsLinks, InstancesOf, On
<1> QED BY <1>2, <1>3, <1>4, <1>5

\* A row by hand, under the locks of its student and its instance.
LEMMA PlaceInv ==
    ASSUME Inv, NEW r \in Requests, Place(r)
    PROVE  Inv'
<1>1. /\ RowTypes /\ LinksOK /\ RosterOK /\ MembersStudy /\ Tagged /\ PairsEnrolled
      /\ NoEnrolmentOutlives /\ MemberCounts /\ CourseCounts /\ RosterCounts
  BY RowFacts
<1>2. PICK a : a = req[r]
  OBVIOUS
<1>3. a \in Suspension /\ a.pc = "place"
  BY <1>2, Facts DEF Place
<1>4. a \in HandState
  BY <1>3, Shapes
<1>5. PICK i, u : i = a.inst /\ u = a.user
  OBVIOUS
<1>6. i \in Instances /\ u \in Users
  BY <1>4, <1>5 DEF HandState
<1>7. /\ ~Enrolled(<<i, u>>) => Lockable(r, {User(u), Instance(i)})
      /\ IF ~Enrolled(<<i, u>>) /\ u \in student /\ On(i)
         THEN /\ enr' = enr \cup {[inst |-> i, user |-> u, source |-> None]}
              /\ inst' = [inst EXCEPT ![i].enrollment_count = @ + 1]
              /\ byHand' = byHand \ {<<i, u>>}
         ELSE UNCHANGED <<enr, inst, byHand>>
      /\ Suspend(r, Idle)
      /\ UNCHANGED <<student, group, member, attached, held, plan, planned>>
  BY <1>2, <1>5 DEF Place, blueprint
<1>8. CASE UNCHANGED <<enr, inst, byHand>>
  BY <1>7, <1>8, Answered DEF rows
<1>9. CASE ~UNCHANGED <<enr, inst, byHand>>
  <2>1. PICK e : e = [inst |-> i, user |-> u, source |-> None]
    OBVIOUS
  <2>2. /\ ~Enrolled(<<i, u>>) /\ u \in student /\ On(i)
        /\ Lockable(r, {User(u), Instance(i)})
        /\ enr' = enr \cup {e}
        /\ inst' = [inst EXCEPT ![i].enrollment_count = inst[i].enrollment_count + 1]
        /\ byHand' = byHand \ {<<i, u>>}
    BY <1>7, <1>9, <2>1
  <2>3. /\ e \in Enrolment /\ e.inst = i /\ e.user = u /\ e.source = None
        /\ Pair(e) = <<i, u>>
    BY <1>6, <2>1 DEF Enrolment, Pair
  <2>4. \A f \in enr : Pair(f) # Pair(e)
    BY <2>2, <2>3 DEF Enrolled
  <2>5. KeepsLinks
    BY <1>1, <1>6, <2>2 DEF KeepsLinks, RowTypes
  <2>6. /\ LinksOK' /\ Tagged' /\ \A ids : SparesLinks(ids) /\ SparesPlan(ids)
        /\ \A c : InstancesOf(c)' = InstancesOf(c)
    BY <1>7, <2>5, LinksKept
  <2>7. RowTypes'
    <3>1. inst' \in [Instances -> [status : {"unborn", "there", "gone"},
                 class : Classes \cup {None}, course : Courses \cup {None},
                 source : Nat \cup {None}, enrollment_count : Nat]]
      BY <1>1, <1>6, <2>2 DEF RowTypes
    <3>2. enr' \subseteq Enrolment /\ byHand' \subseteq Instances \X Users
      BY <1>1, <2>2, <2>3 DEF RowTypes
    <3> QED BY <1>1, <1>7, <3>1, <3>2 DEF RowTypes
  <2>8. RosterOK'
    <3>1. IsFiniteSet(enr')
      BY <1>1, <2>2, FS_AddElement DEF RosterOK
    <3>2. \A f, g \in enr' : Pair(f) = Pair(g) => f = g
      BY <1>1, <2>2, <2>4 DEF RosterOK
    <3>3. \A f \in enr' : f.source # None => inst'[f.inst].class = f.source
      BY <1>1, <2>2, <2>3, <2>5 DEF RosterOK, KeepsLinks, RowTypes, Enrolment
    <3> QED BY <3>1, <3>2, <3>3 DEF RosterOK, Pair
  <2>9. MembersStudy'
    BY <1>1, <1>7 DEF MembersStudy
  <2>10. PairsEnrolled'
    <3>1. \A p : Enrolled(p) \/ p \in byHand => Enrolled(p)' \/ p \in byHand'
      BY <2>2, <2>3 DEF Enrolled, Pair
    <3>2. \A c : MembersOf(c)' = MembersOf(c)
      BY <1>7 DEF MembersOf
    <3> QED BY <1>1, <2>6, <3>1, <3>2 DEF PairsEnrolled
  <2>11. NoEnrolmentOutlives'
    <3>1. ASSUME NEW f \in enr'
          PROVE  /\ inst'[f.inst].status = "there" /\ f.user \in student'
                 /\ f.source # None => <<f.source, f.user>> \in member'
      BY <1>1, <1>6, <1>7, <2>2, <2>3, <2>5
         DEF NoEnrolmentOutlives, On, KeepsLinks, RowTypes, Enrolment
    <3> QED BY <3>1 DEF NoEnrolmentOutlives, On
  <2>12. MemberCounts'
    BY <1>1, <1>7, KeepsMemberCounts
  <2>13. CourseCounts'
    BY <1>1, <1>7, <2>5, KeepsCourseCounts DEF KeepsLinks
  <2>14. RosterCounts'
    <3>1. ASSUME NEW j \in Instances
          PROVE  inst'[j].enrollment_count = Cardinality(RosterOf(j)')
      <4>1. CASE j = i
        <5>1. RosterOf(j)' = RosterOf(j) \cup {e} /\ e \notin RosterOf(j)
          BY <2>2, <2>3, <2>4, <4>1 DEF RosterOf
        <5>2. IsFiniteSet(RosterOf(j))
          BY <1>1, Finite
        <5>3. Cardinality(RosterOf(j) \cup {e}) = Cardinality(RosterOf(j)) + 1
          BY <5>1, <5>2, Plus
        <5>4. inst'[j].enrollment_count = inst[j].enrollment_count + 1
          BY <1>1, <1>6, <2>2, <4>1 DEF RowTypes
        <5> QED BY <1>1, <5>1, <5>3, <5>4 DEF RosterCounts
      <4>2. CASE j # i
        <5>1. RosterOf(j)' = RosterOf(j)
          BY <2>2, <2>3, <4>2 DEF RosterOf
        <5>2. inst'[j].enrollment_count = inst[j].enrollment_count
          BY <1>1, <1>6, <2>2, <4>2 DEF RowTypes
        <5> QED BY <1>1, <5>1, <5>2 DEF RosterCounts
      <4> QED BY <4>1, <4>2
    <3> QED BY <3>1 DEF RosterCounts, RosterOf
  <2>15. Store'
    BY <2>6, <2>8, <2>9, <2>10, <2>11, <2>12, <2>13, <2>14, StoreNext
  <2>16. ASSUME NEW d \in Requests, d # r PROVE Spares(held[d], TakenBy(req[d]))
    <3>1. Instance(i) \notin held[d]
      BY <2>2, <2>16 DEF Lockable
    <3>2. SparesMembers(held[d])
      BY <1>7 DEF SparesMembers
    <3>3. SparesRoster(held[d], TakenBy(req[d]))
      BY <2>2, <2>3, <3>1 DEF SparesRoster
    <3> QED BY <2>6, <3>2, <3>3 DEF Spares
  <2> QED BY <1>7, <2>7, <2>15, <2>16, AnsweredWrites
<1> QED BY <1>8, <1>9

\* A row goes by hand, and the history says so.
LEMMA UnenrollInv ==
    ASSUME Inv, NEW i \in Instances, NEW u \in Users, Unenroll(i, u)
    PROVE  Inv'
<1>1. /\ RowTypes /\ LinksOK /\ RosterOK /\ MembersStudy /\ Tagged /\ PairsEnrolled
      /\ NoEnrolmentOutlives /\ MemberCounts /\ CourseCounts /\ RosterCounts
  BY RowFacts
<1>2. /\ Enrolled(<<i, u>>)
      /\ \A d \in Requests : <<i, u>> \notin Taken(d) /\ Instance(i) \notin held[d]
      /\ enr' = {e \in enr : Pair(e) # <<i, u>>}
      /\ inst' = [inst EXCEPT ![i].enrollment_count = Less(inst[i].enrollment_count)]
      /\ byHand' = byHand \cup {<<i, u>>}
      /\ UNCHANGED <<student, group, member, attached, held, req, plan, planned>>
  BY DEF Unenroll, blueprint
<1>3. PICK e \in enr : Pair(e) = <<i, u>>
  BY <1>2 DEF Enrolled
<1>4. e.inst = i /\ e.user = u /\ enr' = enr \ {e}
  BY <1>1, <1>2, <1>3 DEF Pair, RosterOK
<1>5. KeepsLinks
  BY <1>1, <1>2 DEF KeepsLinks, RowTypes
<1>6. /\ LinksOK' /\ Tagged' /\ \A ids : SparesLinks(ids) /\ SparesPlan(ids)
      /\ \A c : InstancesOf(c)' = InstancesOf(c)
  BY <1>2, <1>5, LinksKept
<1>7. RowTypes'
  BY <1>1, <1>2 DEF RowTypes, Less
<1>8. RosterOK'
  <2>1. IsFiniteSet(enr')
    BY <1>1, <1>4, FS_Subset DEF RosterOK
  <2>2. \A f, g \in enr' : Pair(f) = Pair(g) => f = g
    BY <1>1, <1>4 DEF RosterOK
  <2>3. \A f \in enr' : f.source # None => inst'[f.inst].class = f.source
    BY <1>1, <1>4, <1>5 DEF RosterOK, KeepsLinks, RowTypes, Enrolment
  <2> QED BY <2>1, <2>2, <2>3 DEF RosterOK, Pair
<1>9. MembersStudy'
  BY <1>1, <1>2 DEF MembersStudy
<1>10. PairsEnrolled'
  <2>1. \A p : Enrolled(p) \/ p \in byHand => Enrolled(p)' \/ p \in byHand'
    BY <1>2 DEF Enrolled, Pair
  <2>2. \A c : MembersOf(c)' = MembersOf(c)
    BY <1>2 DEF MembersOf
  <2> QED BY <1>1, <1>6, <2>1, <2>2 DEF PairsEnrolled
<1>11. NoEnrolmentOutlives'
  <2>1. ASSUME NEW f \in enr'
        PROVE  /\ inst'[f.inst].status = "there" /\ f.user \in student'
               /\ f.source # None => <<f.source, f.user>> \in member'
    BY <1>1, <1>2, <1>4, <1>5 DEF NoEnrolmentOutlives, On, KeepsLinks, RowTypes, Enrolment
  <2> QED BY <2>1 DEF NoEnrolmentOutlives, On
<1>12. MemberCounts'
  BY <1>1, <1>2, KeepsMemberCounts
<1>13. CourseCounts'
  BY <1>1, <1>2, <1>5, KeepsCourseCounts DEF KeepsLinks
<1>14. RosterCounts'
  <2>1. ASSUME NEW j \in Instances
        PROVE  inst'[j].enrollment_count = Cardinality(RosterOf(j)')
    <3>1. CASE j = i
      <4>1. RosterOf(j)' = RosterOf(j) \ {e} /\ e \in RosterOf(j)
        BY <1>4, <3>1 DEF RosterOf
      <4>2. IsFiniteSet(RosterOf(j))
        BY <1>1, Finite
      <4>3. Cardinality(RosterOf(j) \ {e}) = Less(Cardinality(RosterOf(j)))
        BY <4>1, <4>2, Minus
      <4>4. inst'[j].enrollment_count = Less(inst[j].enrollment_count)
        BY <1>1, <1>2, <3>1 DEF RowTypes
      <4>5. inst[j].enrollment_count = Cardinality(RosterOf(j))
        BY <1>1 DEF RosterCounts
      <4> QED BY <4>1, <4>3, <4>4, <4>5
    <3>2. CASE j # i
      <4>1. RosterOf(j)' = RosterOf(j)
        BY <1>4, <3>2 DEF RosterOf
      <4>2. inst'[j].enrollment_count = inst[j].enrollment_count
        BY <1>1, <1>2, <3>2 DEF RowTypes
      <4> QED BY <1>1, <4>1, <4>2 DEF RosterCounts
    <3> QED BY <3>1, <3>2
  <2> QED BY <2>1 DEF RosterCounts, RosterOf
<1>15. Store'
  BY <1>6, <1>8, <1>9, <1>10, <1>11, <1>12, <1>13, <1>14, StoreNext
<1>16. ASSUME NEW d \in Requests PROVE Spares(held[d], TakenBy(req[d]))
  <2>1. <<i, u>> \notin TakenBy(req[d])
    BY <1>2 DEF Taken, TakenBy
  <2>2. SparesMembers(held[d])
    BY <1>2 DEF SparesMembers
  <2>3. SparesRoster(held[d], TakenBy(req[d]))
    BY <1>2, <2>1 DEF SparesRoster
  <2> QED BY <1>6, <2>2, <2>3 DEF Spares
<1> QED BY <1>2, <1>7, <1>15, <1>16, Alone

-----------------------------------------------------------------------------
(* The commits. *)

\* The shape of a commit.
LEMMA CommitInv ==
    ASSUME Inv, NEW r \in Requests, ~Deletes(req[r]), req[r].job \in Job \cup {None}, Ends(r),
           RowTypes', Store',
           \A d \in Requests : d # r => Spares(held[d], TakenBy(req[d]))
    PROVE  Inv'
<1>1. PICK q : q = GoesOn(req[r].job)
  OBVIOUS
<1>2. q \in Suspension /\ q.pc \in {"idle", "job"} /\ ~Deletes(q)
  BY <1>1, IdleIs DEF GoesOn, Suspension, JobState, Deletes
<1>3. Promise(q, {})' /\ TakenBy(q) = {}
  BY <1>2, NothingNext
<1>4. Becomes(r, q, {})
  BY <1>1, <1>2, <1>3 DEF Becomes, Ends, Suspend, Deletes, Fits
<1> QED BY <1>3, <1>4, Steps

\* The rows a pump adds, on instances it has locked, under its class's name.
LEMMA RosterGrows ==
    ASSUME Inv, NEW c \in Classes, NEW add, NEW new, add \subseteq Enrolment, IsFiniteSet(add),
           \A e \in add : e.source = c,
           \A e : e \in new <=> e \in add /\ ~Enrolled(Pair(e)),
           enr' = enr \cup new,
           \A p : p \in byHand' <=> p \in byHand /\ \A e \in new : Pair(e) # p
    PROVE  /\ new \subseteq Enrolment /\ IsFiniteSet(new) /\ IsFiniteSet(enr')
           /\ enr' \subseteq Enrolment /\ byHand' \subseteq byHand
           /\ \A f, g \in enr' : Pair(f) = Pair(g) => f = g
           /\ \A f \in enr' : f \in enr \/ (f \in new /\ f \in add /\ f.source = c)
           /\ \A p : Enrolled(p) \/ p \in byHand => Enrolled(p)' \/ p \in byHand'
           /\ \A e \in add : Enrolled(Pair(e))'
           /\ \A p \in byHand : p \in byHand' \/ \E f \in enr' : Pair(f) = p
           /\ new \cap enr = {}
<1>1. RowTypes /\ RosterOK
  BY RowFacts
<1>2. new \subseteq Enrolment /\ new \subseteq add /\ enr' \subseteq Enrolment
  BY <1>1 DEF RowTypes
<1>3. IsFiniteSet(new) /\ IsFiniteSet(enr')
  BY <1>1, <1>2, FS_Subset, FS_Union DEF RosterOK
<1>4. \A f \in new : \A e \in enr : Pair(f) # Pair(e)
  BY DEF Enrolled
<1>5. ASSUME NEW f \in enr', NEW g \in enr', Pair(f) = Pair(g) PROVE f = g
  <2>1. CASE f \in enr /\ g \in enr
    BY <1>1, <1>5, <2>1 DEF RosterOK
  <2>2. CASE f \in new /\ g \in new
    <3>1. f.inst = g.inst /\ f.user = g.user /\ f.source = g.source
      BY <1>2, <1>5, <2>2 DEF Pair
    <3> QED BY <1>2, <2>2, <3>1 DEF Enrolment
  <2> QED BY <1>4, <1>5, <2>1, <2>2
<1>7. \A p \in byHand : p \in byHand' \/ \E f \in new : Pair(f) = p
  OBVIOUS
<1>8. \A p \in byHand : p \in byHand' \/ \E f \in enr' : Pair(f) = p
  BY <1>7
<1>9. \A p : Enrolled(p) \/ p \in byHand => Enrolled(p)' \/ p \in byHand'
  BY <1>8 DEF Enrolled, Pair
<1>10. ASSUME NEW e \in add PROVE Enrolled(Pair(e))'
  <2>1. \E f \in enr' : Pair(f) = Pair(e)
    BY DEF Enrolled
  <2> QED BY <2>1 DEF Enrolled, Pair
<1>11. \A f \in enr' : f \in enr \/ (f \in new /\ f \in add /\ f.source = c)
  OBVIOUS
<1>12. new \cap enr = {} /\ byHand' \subseteq byHand
  BY <1>4
<1> QED BY <1>2, <1>3, <1>5, <1>8, <1>9, <1>10, <1>11, <1>12

\* A join lands: the stint with every pair it owes.
LEMMA JoinCommitInv ==
    ASSUME Inv, NEW r \in Requests, PumpCommit(r), Joins(req[r])
    PROVE  Inv'
<1>1. /\ RowTypes /\ LinksOK /\ RosterOK /\ MembersStudy /\ Tagged /\ PairsEnrolled
      /\ NoEnrolmentOutlives /\ MemberCounts /\ CourseCounts /\ RosterCounts
  BY RowFacts
<1>2. PICK a : a = req[r]
  OBVIOUS
<1>3. a \in Suspension /\ a.pc = "enroll" /\ Promise(a, held[r]) /\ a.todo = {} /\ Joins(a)
  BY <1>2, Facts DEF PumpCommit
<1>4. a \in EnrollState /\ ~Deletes(a) /\ ~Attaches(a)
  BY <1>3, Shapes DEF Promise, DeleteOK, Joins
<1>5. PICK c, u : c = a.of.class /\ u = a.of.user
  OBVIOUS
<1>6. /\ u \in student /\ <<c, u>> \notin member /\ a.of.pc = "member_product"
      /\ \A i \in InstancesOf(c) : Due(a, <<i, u>>)
      /\ \A e \in a.add : /\ e.user = u /\ e.source = c /\ On(e.inst)
                          /\ inst[e.inst].class = c /\ Instance(e.inst) \in held[r]
  BY <1>3, <1>5 DEF Promise, JoinOK
<1>7. /\ c \in Classes /\ u \in Users /\ a.add \subseteq Enrolment
      /\ a.job \in Job \cup {None}
  BY <1>4, <1>5, <1>6, PumpShape
<1>8. Class(c) \in held[r] /\ User(u) \in held[r] /\ IsFiniteSet(a.add)
  BY <1>3, <1>5 DEF Promise, LocksOK, AddsFinite
<1>9. PICK new : new = {e \in a.add : ~Enrolled(Pair(e))}
  OBVIOUS
<1> DEFINE Counted(i) == [inst[i] EXCEPT !.enrollment_count =
                             inst[i].enrollment_count + Cardinality({e \in new : e.inst = i})]
<1>10. /\ enr' = enr \cup new /\ byHand' = byHand \ {Pair(e) : e \in new}
       /\ inst' = [i \in Instances |-> Counted(i)]
       /\ group' = [group EXCEPT ![c].class_member_count = group[c].class_member_count + 1]
       /\ member' = member \cup {<<c, u>>}
       /\ Ends(r) /\ UNCHANGED <<attached, student, plan, planned>>
  BY <1>2, <1>4, <1>5, <1>9 DEF PumpCommit, blueprint
<1>11. /\ new \subseteq Enrolment /\ IsFiniteSet(new) /\ IsFiniteSet(enr')
       /\ enr' \subseteq Enrolment /\ byHand' \subseteq byHand
       /\ \A f, g \in enr' : Pair(f) = Pair(g) => f = g
       /\ \A f \in enr' : f \in enr \/ (f \in new /\ f \in a.add /\ f.source = c)
       /\ \A p : Enrolled(p) \/ p \in byHand => Enrolled(p)' \/ p \in byHand'
       /\ \A e \in a.add : Enrolled(Pair(e))'
       /\ \A p \in byHand : p \in byHand' \/ \E f \in enr' : Pair(f) = p
       /\ new \cap enr = {}
  <2>1. /\ \A e \in a.add : e.source = c
        /\ \A e : e \in new <=> e \in a.add /\ ~Enrolled(Pair(e))
        /\ enr' = enr \cup new
        /\ \A p : p \in byHand' <=> p \in byHand /\ \A e \in new : Pair(e) # p
    BY <1>6, <1>9, <1>10
  <2> HIDE DEF Counted
  <2> QED BY <1>7, <1>8, <2>1, RosterGrows
<1>12. \A i \in Instances : IsFiniteSet({e \in new : e.inst = i})
                            /\ Cardinality({e \in new : e.inst = i}) \in Nat
  <2>1. ASSUME NEW i \in Instances PROVE IsFiniteSet({e \in new : e.inst = i})
    BY <1>11, FS_Subset
  <2> QED BY <2>1, FS_CardinalityType
<1>13. ASSUME NEW i \in Instances
       PROVE  inst'[i].enrollment_count
                = inst[i].enrollment_count + Cardinality({e \in new : e.inst = i})
  <2>1. PICK n : n = Cardinality({e \in new : e.inst = i})
    OBVIOUS
  <2>2. inst'[i] = [inst[i] EXCEPT !.enrollment_count = inst[i].enrollment_count + n]
    BY <1>10, <2>1
  <2>3. "enrollment_count" \in DOMAIN inst[i]
    BY <1>1 DEF RowTypes
  <2> HIDE DEF Counted
  <2> QED BY <2>1, <2>2, <2>3
<1>14. inst' \in [Instances -> [status : {"unborn", "there", "gone"},
                 class : Classes \cup {None}, course : Courses \cup {None},
                 source : Nat \cup {None}, enrollment_count : Nat]]
  <2>1. ASSUME NEW i \in Instances
        PROVE  Counted(i) \in [status : {"unborn", "there", "gone"},
                 class : Classes \cup {None}, course : Courses \cup {None},
                 source : Nat \cup {None}, enrollment_count : Nat]
    <3>1. PICK n \in Nat : n = Cardinality({e \in new : e.inst = i})
      BY <1>12
    <3>2. Counted(i) = [inst[i] EXCEPT !.enrollment_count = inst[i].enrollment_count + n]
      BY <3>1
    <3> HIDE DEF Counted
    <3> QED BY <1>1, <3>1, <3>2 DEF RowTypes
  <2> HIDE DEF Counted
  <2> QED BY <1>10, <2>1
<1>15. KeepsLinks
  BY <1>1, <1>10 DEF KeepsLinks, RowTypes
<1> HIDE DEF Counted
<1>16. /\ LinksOK' /\ Tagged' /\ \A ids : SparesLinks(ids) /\ SparesPlan(ids)
       /\ \A x : InstancesOf(x)' = InstancesOf(x)
  BY <1>10, <1>15, LinksKept
<1>17. RowTypes'
  <2>1. group' \in [Classes -> [status : {"unborn", "there", "gone"},
                               class_member_count : Nat, class_course_count : Nat]]
    BY <1>1, <1>7, <1>10 DEF RowTypes
  <2>2. /\ member' \subseteq Classes \X Users /\ enr' \subseteq Enrolment
        /\ byHand' \subseteq Instances \X Users
    BY <1>1, <1>7, <1>10, <1>11 DEF RowTypes
  <2> QED BY <1>1, <1>10, <1>14, <2>1, <2>2 DEF RowTypes
<1>18. RosterOK'
  <2>1. \A f \in enr' : f.source # None => inst'[f.inst].class = f.source
    BY <1>1, <1>6, <1>11, <1>15 DEF RosterOK, KeepsLinks, RowTypes, Enrolment
  <2> QED BY <1>11, <2>1 DEF RosterOK, Pair
<1>19. MembersStudy'
  BY <1>1, <1>6, <1>10 DEF MembersStudy
<1>20. PairsEnrolled'
  <2>1. ASSUME NEW x \in Classes, NEW y \in MembersOf(x)', NEW i \in InstancesOf(x)'
        PROVE  Enrolled(<<i, y>>)' \/ <<i, y>> \in byHand'
    <3>1. i \in InstancesOf(x)
      BY <1>16
    <3>2. CASE <<x, y>> \in member
      <4>1. y \in MembersOf(x)
        BY <3>2 DEF MembersOf
      <4>2. Enrolled(<<i, y>>) \/ <<i, y>> \in byHand
        BY <1>1, <3>1, <4>1 DEF PairsEnrolled
      <4> QED BY <1>11, <4>2
    <3>3. CASE <<x, y>> \notin member
      <4>1. x = c /\ y = u
        BY <1>10, <3>3 DEF MembersOf
      <4>2. (\E e \in a.add : Pair(e) = <<i, u>>) \/ Enrolled(<<i, u>>) \/ <<i, u>> \in byHand
        BY <1>3, <1>6, <3>1, <4>1 DEF Due
      <4> QED BY <1>11, <4>1, <4>2
    <3> QED BY <3>2, <3>3
  <2> QED BY <2>1 DEF PairsEnrolled
<1>21. NoEnrolmentOutlives'
  <2>1. ASSUME NEW f \in enr'
        PROVE  /\ inst'[f.inst].status = "there" /\ f.user \in student'
               /\ f.source # None => <<f.source, f.user>> \in member'
    BY <1>1, <1>6, <1>10, <1>11, <1>15
       DEF NoEnrolmentOutlives, On, KeepsLinks, RowTypes, Enrolment
  <2> QED BY <2>1 DEF NoEnrolmentOutlives, On
<1>22. MemberCounts'
  <2>1. ASSUME NEW x \in Classes
        PROVE  group'[x].class_member_count = Cardinality(MembersOf(x)')
    <3>1. CASE x = c
      <4>1. MembersOf(x)' = MembersOf(x) \cup {u} /\ u \notin MembersOf(x)
        BY <1>6, <1>7, <1>10, <3>1 DEF MembersOf
      <4>2. IsFiniteSet(MembersOf(x))
        BY <1>1, Finite
      <4>3. Cardinality(MembersOf(x) \cup {u}) = Cardinality(MembersOf(x)) + 1
        BY <4>1, <4>2, Plus
      <4>4. group'[x].class_member_count = group[x].class_member_count + 1
        BY <1>1, <1>7, <1>10, <3>1 DEF RowTypes
      <4> QED BY <1>1, <4>1, <4>3, <4>4 DEF MemberCounts
    <3>2. CASE x # c
      <4>1. MembersOf(x)' = MembersOf(x)
        BY <1>10, <3>2 DEF MembersOf
      <4>2. group'[x].class_member_count = group[x].class_member_count
        BY <1>1, <1>7, <1>10, <3>2 DEF RowTypes
      <4> QED BY <1>1, <4>1, <4>2 DEF MemberCounts
    <3> QED BY <3>1, <3>2
  <2> QED BY <2>1 DEF MemberCounts, MembersOf
<1>23. CourseCounts'
  <2>1. \A x \in Classes : group'[x].class_course_count = group[x].class_course_count
    BY <1>1, <1>7, <1>10 DEF RowTypes
  <2> QED BY <1>1, <1>10, <1>15, <2>1, KeepsCourseCounts DEF KeepsLinks
<1>24. RosterCounts'
  <2>1. ASSUME NEW i \in Instances
        PROVE  inst'[i].enrollment_count = Cardinality(RosterOf(i)')
    <3>1. PICK S : S = {e \in new : e.inst = i}
      OBVIOUS
    <3>2. RosterOf(i)' = RosterOf(i) \cup S /\ RosterOf(i) \cap S = {}
      BY <1>10, <1>11, <3>1 DEF RosterOf
    <3>3. IsFiniteSet(RosterOf(i)) /\ IsFiniteSet(S)
      BY <1>1, <1>12, <3>1, Finite
    <3>4. Cardinality(RosterOf(i) \cup S) = Cardinality(RosterOf(i)) + Cardinality(S)
      <4>1. /\ Cardinality(RosterOf(i) \cup S)
                 = Cardinality(RosterOf(i)) + Cardinality(S) - Cardinality(RosterOf(i) \cap S)
        BY <3>3, FS_Union
      <4>2. Cardinality(RosterOf(i) \cap S) = 0
        BY <3>2, FS_EmptySet
      <4>3. Cardinality(RosterOf(i)) \in Nat /\ Cardinality(S) \in Nat
        BY <3>3, FS_CardinalityType
      <4> QED BY <4>1, <4>2, <4>3
    <3> QED BY <1>1, <1>13, <3>1, <3>2, <3>4 DEF RosterCounts
  <2> QED BY <2>1 DEF RosterCounts, RosterOf
<1>25. Store'
  BY <1>16, <1>18, <1>19, <1>20, <1>21, <1>22, <1>23, <1>24, StoreNext
<1>26. ASSUME NEW d \in Requests, d # r PROVE Spares(held[d], TakenBy(req[d]))
  <2>1. /\ Class(c) \notin held[d] /\ User(u) \notin held[d]
        /\ \A e \in a.add : Instance(e.inst) \notin held[d]
    BY <1>6, <1>8, <1>26, Apart
  <2>2. SparesMembers(held[d])
    BY <1>10, <2>1 DEF SparesMembers
  <2>3. SparesRoster(held[d], TakenBy(req[d]))
    <3>1. enr \subseteq enr'
      BY <1>10
    <3>2. \A f \in enr' : f \in enr \/ (f \in a.add /\ f.source = c)
      BY <1>11
    <3> QED BY <1>11, <2>1, <3>1, <3>2 DEF SparesRoster
  <2> QED BY <1>16, <2>2, <2>3 DEF Spares
<1> QED BY <1>2, <1>4, <1>7, <1>10, <1>17, <1>25, <1>26, CommitInv

\* An attach lands: the instance with its whole roster.
LEMMA AttachCommitInv ==
    ASSUME Inv, NEW r \in Requests, PumpCommit(r), Pumps(req[r])
    PROVE  Inv'
<1>1. /\ RowTypes /\ LinksOK /\ RosterOK /\ MembersStudy /\ Tagged /\ PairsEnrolled
      /\ NoEnrolmentOutlives /\ MemberCounts /\ CourseCounts /\ RosterCounts
  BY RowFacts
<1>2. PICK a : a = req[r]
  OBVIOUS
<1>3. a \in Suspension /\ a.pc = "enroll" /\ Promise(a, held[r]) /\ a.todo = {} /\ Pumps(a)
  BY <1>2, Facts DEF PumpCommit
<1>4. a \in EnrollState /\ ~Deletes(a) /\ Attaches(a)
  BY <1>3, Shapes DEF Promise, DeleteOK, Pumps
<1>5. PICK c, k, n, tag : c = a.of.class /\ k = a.of.course /\ n = a.of.inst
                          /\ tag = a.of.source
  OBVIOUS
<1>6. /\ ~Born(n) /\ \A i \in InstancesOf(c) : inst[i].course # k
      /\ \A u \in MembersOf(c) : Due(a, <<n, u>>)
      /\ \A e \in a.add : e.inst = n /\ e.source = c /\ e.user \in MembersOf(c)
  BY <1>3, <1>5 DEF Promise, AttachOK, NewLink
<1>7. /\ c \in Classes /\ k \in Courses /\ n \in Instances /\ tag \in Nat \cup {None}
      /\ a.add \subseteq Enrolment /\ a.job \in Job \cup {None}
  BY <1>4, <1>5, PumpShape
<1>8. /\ Class(c) \in held[r] /\ Instance(n) \in held[r] /\ IsFiniteSet(a.add)
      /\ TagOK(tag, held[r])
  BY <1>3, <1>5 DEF Promise, LocksOK, AddsFinite, TagsOK
<1>9. PICK new : new = {e \in a.add : ~Enrolled(Pair(e))}
  OBVIOUS
<1>10. PICK row : row = [status |-> "there", class |-> c, course |-> k, source |-> tag,
                         enrollment_count |-> Cardinality(new)]
  OBVIOUS
<1>11. /\ enr' = enr \cup new /\ byHand' = byHand \ {Pair(e) : e \in new}
       /\ inst' = [i \in Instances |-> IF i = n THEN row ELSE inst[i]]
       /\ group' = [group EXCEPT ![c].class_course_count = group[c].class_course_count + 1]
       /\ attached' = [attached EXCEPT ![k] = attached[k] + 1]
       /\ Ends(r) /\ UNCHANGED <<member, student, plan, planned>>
  BY <1>2, <1>4, <1>5, <1>9, <1>10 DEF PumpCommit, blueprint
<1>12. /\ new \subseteq Enrolment /\ IsFiniteSet(new) /\ IsFiniteSet(enr')
       /\ enr' \subseteq Enrolment /\ byHand' \subseteq byHand
       /\ \A f, g \in enr' : Pair(f) = Pair(g) => f = g
       /\ \A f \in enr' : f \in enr \/ (f \in new /\ f \in a.add /\ f.source = c)
       /\ \A p : Enrolled(p) \/ p \in byHand => Enrolled(p)' \/ p \in byHand'
       /\ \A e \in a.add : Enrolled(Pair(e))'
       /\ \A p \in byHand : p \in byHand' \/ \E f \in enr' : Pair(f) = p
       /\ new \cap enr = {}
  <2>1. /\ \A e \in a.add : e.source = c
        /\ \A e : e \in new <=> e \in a.add /\ ~Enrolled(Pair(e))
        /\ enr' = enr \cup new
        /\ \A p : p \in byHand' <=> p \in byHand /\ \A e \in new : Pair(e) # p
    BY <1>6, <1>9, <1>11
  <2> QED BY <1>7, <1>8, <2>1, RosterGrows
<1>13. /\ row.status = "there" /\ row.class = c /\ row.course = k /\ row.source = tag
       /\ row.enrollment_count = Cardinality(new) /\ Cardinality(new) \in Nat
       /\ row \in [status : {"unborn", "there", "gone"},
                   class : Classes \cup {None}, course : Courses \cup {None},
                   source : Nat \cup {None}, enrollment_count : Nat]
  <2>1. Cardinality(new) \in Nat
    BY <1>12, FS_CardinalityType
  <2> QED BY <1>7, <1>10, <2>1
<1>14. /\ inst'[n] = row
       /\ \A i \in Instances : i # n => inst'[i] = inst[i]
  BY <1>7, <1>11
<1>15. RowTypes'
  <2>1. group' \in [Classes -> [status : {"unborn", "there", "gone"},
                               class_member_count : Nat, class_course_count : Nat]]
    BY <1>1, <1>7, <1>11 DEF RowTypes
  <2>2. inst' \in [Instances -> [status : {"unborn", "there", "gone"},
                   class : Classes \cup {None}, course : Courses \cup {None},
                   source : Nat \cup {None}, enrollment_count : Nat]]
    BY <1>1, <1>11, <1>13 DEF RowTypes
  <2>3. /\ attached' \in [Courses -> Nat] /\ enr' \subseteq Enrolment
        /\ byHand' \subseteq Instances \X Users
    BY <1>1, <1>7, <1>11, <1>12 DEF RowTypes
  <2> QED BY <1>1, <1>11, <2>1, <2>2, <2>3 DEF RowTypes
<1>16. \A e \in enr : e.inst \in Instances /\ e.inst # n
  BY <1>1, <1>6 DEF NoEnrolmentOutlives, On, Born, RowTypes, Enrolment
<1>17. \A x : InstancesOf(x)' = IF x = c THEN InstancesOf(x) \cup {n} ELSE InstancesOf(x)
  BY <1>6, <1>7, <1>13, <1>14 DEF InstancesOf, On, Born
<1>18. n \notin InstancesOf(c)
  BY <1>6 DEF InstancesOf, On, Born
<1>19. LinksOK'
  <2>1. \A i \in Instances : inst'[i].status # "unborn" =>
           inst'[i].class \in Classes /\ inst'[i].course \in Courses
    BY <1>1, <1>7, <1>13, <1>14 DEF LinksOK, Born
  <2>2. ASSUME NEW i \in Instances, NEW j \in Instances, inst'[i].status = "there",
               inst'[j].status = "there", inst'[i].class = inst'[j].class,
               inst'[i].course = inst'[j].course
        PROVE  i = j
    BY <1>1, <1>6, <1>13, <1>14, <2>2 DEF LinksOK, On, InstancesOf
  <2> QED BY <2>1, <2>2 DEF LinksOK, Born, On
<1>20. Tagged'
  BY <1>1, <1>8, <1>11, <1>13, <1>14 DEF Tagged, On, Standing, TagOK
<1>21. RosterOK'
  <2>1. \A f \in enr' : f.source # None => inst'[f.inst].class = f.source
    BY <1>1, <1>6, <1>12, <1>13, <1>14, <1>16 DEF RosterOK
  <2> QED BY <1>12, <2>1 DEF RosterOK, Pair
<1>22. MembersStudy'
  BY <1>1, <1>11 DEF MembersStudy
<1>23. \A x : MembersOf(x)' = MembersOf(x)
  BY <1>11 DEF MembersOf
<1>24. PairsEnrolled'
  <2>1. ASSUME NEW x \in Classes, NEW y \in MembersOf(x), NEW i \in InstancesOf(x)'
        PROVE  Enrolled(<<i, y>>)' \/ <<i, y>> \in byHand'
    <3>1. CASE i \in InstancesOf(x)
      <4>1. Enrolled(<<i, y>>) \/ <<i, y>> \in byHand
        BY <1>1, <3>1 DEF PairsEnrolled
      <4> QED BY <1>12, <4>1
    <3>2. CASE i \notin InstancesOf(x)
      <4>1. x = c /\ i = n
        BY <1>17, <3>2
      <4>2. (\E e \in a.add : Pair(e) = <<n, y>>) \/ Enrolled(<<n, y>>) \/ <<n, y>> \in byHand
        BY <1>3, <1>6, <4>1 DEF Due
      <4> QED BY <1>12, <4>1, <4>2
    <3> QED BY <3>1, <3>2
  <2> QED BY <1>23, <2>1 DEF PairsEnrolled
<1>25. NoEnrolmentOutlives'
  <2>1. ASSUME NEW f \in enr'
        PROVE  /\ inst'[f.inst].status = "there" /\ f.user \in student'
               /\ f.source # None => <<f.source, f.user>> \in member'
    <3>1. CASE f \in enr
      BY <1>1, <1>11, <1>14, <1>16, <3>1 DEF NoEnrolmentOutlives, On
    <3>2. CASE f \notin enr
      <4>1. f.inst = n /\ f.source = c /\ f.user \in Users /\ <<c, f.user>> \in member
        BY <1>6, <1>12, <3>2 DEF MembersOf
      <4>2. f.user \in student
        BY <1>1, <1>7, <4>1 DEF MembersStudy
      <4> QED BY <1>11, <1>13, <1>14, <4>1, <4>2
    <3> QED BY <3>1, <3>2
  <2> QED BY <2>1 DEF NoEnrolmentOutlives, On
<1>26. MemberCounts'
  <2>1. \A x \in Classes : group'[x].class_member_count = group[x].class_member_count
    BY <1>1, <1>7, <1>11 DEF RowTypes
  <2> QED BY <1>1, <1>11, <2>1, KeepsMemberCounts
<1>27. CourseCounts'
  <2>1. ASSUME NEW x \in Classes
        PROVE  group'[x].class_course_count = Cardinality(InstancesOf(x)')
    <3>1. CASE x = c
      <4>1. IsFiniteSet(InstancesOf(x))
        BY <1>1, Finite
      <4>2. Cardinality(InstancesOf(x) \cup {n}) = Cardinality(InstancesOf(x)) + 1
        BY <1>18, <3>1, <4>1, Plus
      <4>3. group'[x].class_course_count = group[x].class_course_count + 1
        BY <1>1, <1>7, <1>11, <3>1 DEF RowTypes
      <4> QED BY <1>1, <1>17, <3>1, <4>2, <4>3 DEF CourseCounts
    <3>2. CASE x # c
      <4>1. group'[x].class_course_count = group[x].class_course_count
        BY <1>1, <1>7, <1>11, <3>2 DEF RowTypes
      <4> QED BY <1>1, <1>17, <3>2, <4>1 DEF CourseCounts
    <3> QED BY <3>1, <3>2
  <2>2. ASSUME NEW x \in Courses
        PROVE  attached'[x]
                 = Cardinality({i \in Instances : inst'[i].status = "there"
                                                  /\ inst'[i].course = x})
    <3>1. PICK S : S = {i \in Instances : On(i) /\ inst[i].course = x}
      OBVIOUS
    <3>2. PICK T : T = {i \in Instances : inst'[i].status = "there" /\ inst'[i].course = x}
      OBVIOUS
    <3>3. IsFiniteSet(S) /\ attached[x] = Cardinality(S)
      BY <1>1, <3>1, Finite DEF CourseCounts
    <3>4. CASE x = k
      <4>1. T = S \cup {n} /\ n \notin S
        BY <1>6, <1>7, <1>13, <1>14, <3>1, <3>2, <3>4 DEF On, Born
      <4>2. Cardinality(S \cup {n}) = Cardinality(S) + 1
        BY <3>3, <4>1, Plus
      <4>3. attached'[x] = attached[x] + 1
        BY <1>1, <1>7, <1>11, <3>4 DEF RowTypes
      <4> QED BY <3>2, <3>3, <4>1, <4>2, <4>3
    <3>5. CASE x # k
      <4>1. T = S
        BY <1>6, <1>7, <1>13, <1>14, <3>1, <3>2, <3>5 DEF On, Born
      <4>2. attached'[x] = attached[x]
        BY <1>1, <1>7, <1>11, <3>5 DEF RowTypes
      <4> QED BY <3>2, <3>3, <4>1, <4>2
    <3> QED BY <3>4, <3>5
  <2> QED BY <2>1, <2>2 DEF CourseCounts, InstancesOf, On
<1>28. RosterCounts'
  <2>1. ASSUME NEW i \in Instances
        PROVE  inst'[i].enrollment_count = Cardinality(RosterOf(i)')
    <3>1. CASE i = n
      <4>1. RosterOf(i)' = new
        BY <1>6, <1>11, <1>12, <1>16, <3>1, <1>9 DEF RosterOf
      <4> QED BY <1>13, <1>14, <3>1, <4>1
    <3>2. CASE i # n
      <4>1. RosterOf(i)' = RosterOf(i)
        BY <1>6, <1>11, <1>12, <3>2 DEF RosterOf
      <4> QED BY <1>1, <1>14, <3>2, <4>1 DEF RosterCounts
    <3> QED BY <3>1, <3>2
  <2> QED BY <2>1 DEF RosterCounts, RosterOf
<1>29. Store'
  BY <1>19, <1>20, <1>21, <1>22, <1>24, <1>25, <1>26, <1>27, <1>28, StoreNext
<1>30. ASSUME NEW d \in Requests, d # r PROVE Spares(held[d], TakenBy(req[d]))
  <2>1. /\ Class(c) \notin held[d] /\ Instance(n) \notin held[d]
        /\ tag = None \/ PlanUpdate \notin held[d]
    BY <1>8, <1>30, Apart DEF TagOK
  <2>2. SparesMembers(held[d])
    BY <1>11 DEF SparesMembers
  <2>3. SparesLinks(held[d])
    BY <1>6, <1>13, <1>14, <2>1 DEF SparesLinks, On, Born
  <2>4. SparesRoster(held[d], TakenBy(req[d]))
    <3>1. enr \subseteq enr'
      BY <1>11
    <3>2. \A f \in enr' : f \in enr \/ (f.inst = n /\ f.source = c)
      BY <1>6, <1>12
    <3> QED BY <1>12, <2>1, <3>1, <3>2 DEF SparesRoster
  <2>5. SparesPlan(held[d])
    BY <1>11 DEF SparesPlan
  <2> QED BY <2>2, <2>3, <2>4, <2>5 DEF Spares
<1> QED BY <1>2, <1>4, <1>7, <1>11, <1>15, <1>29, <1>30, CommitInv

\* A pump lands.
LEMMA PumpCommitInv ==
    ASSUME Inv, NEW r \in Requests, PumpCommit(r)
    PROVE  Inv'
BY JoinCommitInv, AttachCommitInv DEF PumpCommit, Joins, Pumps

\* A leave lands: the stint goes with every row the class wrote for it.
LEMMA DropCommitInv ==
    ASSUME Inv, NEW r \in Requests, DropCommit(r)
    PROVE  Inv'
<1>1. /\ RowTypes /\ LinksOK /\ RosterOK /\ MembersStudy /\ Tagged /\ PairsEnrolled
      /\ NoEnrolmentOutlives /\ MemberCounts /\ CourseCounts /\ RosterCounts
  BY RowFacts
<1>2. PICK a : a = req[r]
  OBVIOUS
<1>3. a \in Suspension /\ a.pc = "release" /\ Promise(a, held[r]) /\ a.list = {}
  BY <1>2, Facts DEF DropCommit
<1>4. a \in ReleaseState
  BY <1>3, Shapes
<1>5. PICK c, u : c = a.class /\ u = a.user
  OBVIOUS
<1>6. /\ a.job = None /\ c \in Classes /\ u \in Users
      /\ a.del \subseteq Instances \X Users /\ a.back \subseteq Instances
  BY <1>4, <1>5 DEF ReleaseState
<1>7. /\ <<c, u>> \in member
      /\ \A e \in enr : e.user = u /\ e.source = c => <<e.inst, u>> \in a.del
      /\ \A i \in a.back : <<i, u>> \in a.del /\ Instance(i) \in held[r]
      /\ \A p \in a.del : /\ p[1] \in a.back /\ p[2] = u /\ Enrolled(p)
                          /\ inst[p[1]].class = c
  BY <1>3, <1>5 DEF Promise, LeaveOK
<1>8. Class(c) \in held[r] /\ User(u) \in held[r]
  BY <1>3, <1>5 DEF Promise, LocksOK
<1>9. /\ member' = member \ {<<c, u>>}
      /\ group' = [group EXCEPT ![c].class_member_count = Less(group[c].class_member_count)]
      /\ enr' = {e \in enr : Pair(e) \notin a.del}
      /\ inst' = [i \in Instances |->
            IF i \in a.back /\ On(i)
            THEN [inst[i] EXCEPT !.enrollment_count = Less(inst[i].enrollment_count)]
            ELSE inst[i]]
      /\ Ends(r) /\ UNCHANGED <<student, attached, byHand, plan, planned>>
  BY <1>2, <1>5 DEF DropCommit, blueprint
<1>10. \A e \in enr : Pair(e) = <<e.inst, e.user>> /\ e \in Enrolment
  BY <1>1 DEF Pair, RowTypes
<1>11. KeepsLinks
  BY <1>1, <1>9 DEF KeepsLinks, RowTypes
<1>12. /\ LinksOK' /\ Tagged' /\ \A ids : SparesLinks(ids) /\ SparesPlan(ids)
       /\ \A x : InstancesOf(x)' = InstancesOf(x)
  BY <1>9, <1>11, LinksKept
<1>13. RowTypes'
  <2>1. group' \in [Classes -> [status : {"unborn", "there", "gone"},
                               class_member_count : Nat, class_course_count : Nat]]
    BY <1>1, <1>6, <1>9 DEF RowTypes, Less
  <2>2. inst' \in [Instances -> [status : {"unborn", "there", "gone"},
                   class : Classes \cup {None}, course : Courses \cup {None},
                   source : Nat \cup {None}, enrollment_count : Nat]]
    BY <1>1, <1>9 DEF RowTypes, Less
  <2>3. member' \subseteq Classes \X Users /\ enr' \subseteq Enrolment
    BY <1>1, <1>9 DEF RowTypes
  <2> QED BY <1>1, <1>9, <2>1, <2>2, <2>3 DEF RowTypes
<1>14. RosterOK'
  <2>1. IsFiniteSet(enr')
    BY <1>1, <1>9, FS_Subset DEF RosterOK
  <2>2. \A f, g \in enr' : Pair(f) = Pair(g) => f = g
    BY <1>1, <1>9 DEF RosterOK
  <2>3. \A f \in enr' : f.source # None => inst'[f.inst].class = f.source
    BY <1>1, <1>9, <1>11 DEF RosterOK, KeepsLinks, RowTypes, Enrolment
  <2> QED BY <2>1, <2>2, <2>3 DEF RosterOK, Pair
<1>15. MembersStudy'
  BY <1>1, <1>9 DEF MembersStudy
<1>16. PairsEnrolled'
  <2>1. ASSUME NEW x \in Classes, NEW y \in MembersOf(x)', NEW i \in InstancesOf(x)'
        PROVE  Enrolled(<<i, y>>)' \/ <<i, y>> \in byHand'
    <3>1. i \in InstancesOf(x) /\ y \in MembersOf(x) /\ <<x, y>> # <<c, u>>
      BY <1>9, <1>12 DEF MembersOf
    <3>2. Enrolled(<<i, y>>) \/ <<i, y>> \in byHand
      BY <1>1, <3>1 DEF PairsEnrolled
    <3>3. <<i, y>> \notin a.del
      <4>1. inst[i].class = x
        BY <3>1 DEF InstancesOf
      <4>2. ASSUME <<i, y>> \in a.del PROVE FALSE
        <5>1. PICK p \in a.del : p = <<i, y>>
          BY <4>2
        <5>2. p[1] = i /\ p[2] = y
          BY <5>1
        <5>3. y = u /\ x = c
          BY <1>7, <4>1, <5>2
        <5> QED BY <3>1, <5>3
      <4> QED BY <4>2
    <3>4. Enrolled(<<i, y>>) => Enrolled(<<i, y>>)'
      BY <1>9, <3>3 DEF Enrolled, Pair
    <3> QED BY <1>9, <3>2, <3>4
  <2> QED BY <2>1 DEF PairsEnrolled
<1>17. NoEnrolmentOutlives'
  <2>1. ASSUME NEW f \in enr'
        PROVE  /\ inst'[f.inst].status = "there" /\ f.user \in student'
               /\ f.source # None => <<f.source, f.user>> \in member'
    <3>1. f \in enr /\ <<f.inst, f.user>> \notin a.del /\ f.inst \in Instances
      BY <1>9, <1>10 DEF Enrolment
    <3>2. f.source # None => <<f.source, f.user>> \in member
      BY <1>1, <3>1 DEF NoEnrolmentOutlives
    <3>3. ~(f.source = c /\ f.user = u)
      BY <1>7, <3>1
    <3>4. inst'[f.inst].status = "there" /\ f.user \in student'
      BY <1>1, <1>9, <1>11, <3>1 DEF NoEnrolmentOutlives, On, KeepsLinks
    <3> QED BY <1>9, <3>2, <3>3, <3>4
  <2> QED BY <2>1 DEF NoEnrolmentOutlives, On
<1>18. MemberCounts'
  <2>1. ASSUME NEW x \in Classes
        PROVE  group'[x].class_member_count = Cardinality(MembersOf(x)')
    <3>1. CASE x = c
      <4>1. MembersOf(x)' = MembersOf(x) \ {u} /\ u \in MembersOf(x)
        BY <1>6, <1>7, <1>9, <3>1 DEF MembersOf
      <4>2. IsFiniteSet(MembersOf(x))
        BY <1>1, Finite
      <4>3. Cardinality(MembersOf(x) \ {u}) = Less(Cardinality(MembersOf(x)))
        BY <4>1, <4>2, Minus
      <4>4. group'[x].class_member_count = Less(group[x].class_member_count)
        BY <1>1, <1>6, <1>9, <3>1 DEF RowTypes
      <4>5. group[x].class_member_count = Cardinality(MembersOf(x))
        BY <1>1 DEF MemberCounts
      <4> QED BY <4>1, <4>3, <4>4, <4>5
    <3>2. CASE x # c
      <4>1. MembersOf(x)' = MembersOf(x)
        BY <1>9, <3>2 DEF MembersOf
      <4>2. group'[x].class_member_count = group[x].class_member_count
        BY <1>1, <1>6, <1>9, <3>2 DEF RowTypes
      <4> QED BY <1>1, <4>1, <4>2 DEF MemberCounts
    <3> QED BY <3>1, <3>2
  <2> QED BY <2>1 DEF MemberCounts, MembersOf
<1>19. CourseCounts'
  <2>1. \A x \in Classes : group'[x].class_course_count = group[x].class_course_count
    BY <1>1, <1>6, <1>9 DEF RowTypes
  <2> QED BY <1>1, <1>9, <1>11, <2>1, KeepsCourseCounts DEF KeepsLinks
<1>20. RosterCounts'
  <2>1. ASSUME NEW i \in Instances
        PROVE  inst'[i].enrollment_count = Cardinality(RosterOf(i)')
    <3>1. CASE i \in a.back
      <4>1. Enrolled(<<i, u>>)
        BY <1>7, <3>1
      <4>2. PICK e \in enr : Pair(e) = <<i, u>>
        BY <4>1 DEF Enrolled
      <4>3. e.inst = i /\ e.user = u /\ On(i)
        BY <1>1, <4>2 DEF Pair, NoEnrolmentOutlives
      <4>4. \A p \in a.del : p[2] = u /\ p = <<p[1], p[2]>>
        BY <1>6, <1>7
      <4>5. RosterOf(i)' = RosterOf(i) \ {e} /\ e \in RosterOf(i)
        <5>1. ASSUME NEW f \in enr, f.inst = i
              PROVE  Pair(f) \in a.del <=> f = e
          <6>1. Pair(f) = <<i, f.user>>
            BY <1>10, <5>1
          <6>2. Pair(f) \in a.del => f.user = u
            BY <4>4, <6>1
          <6>3. f.user = u => f = e
            BY <1>1, <4>2, <6>1 DEF RosterOK
          <6>4. Pair(e) \in a.del
            BY <1>7, <3>1, <4>2
          <6> QED BY <6>2, <6>3, <6>4
        <5> QED BY <1>9, <4>2, <4>3, <5>1 DEF RosterOf
      <4>6. IsFiniteSet(RosterOf(i))
        BY <1>1, Finite
      <4>7. Cardinality(RosterOf(i) \ {e}) = Less(Cardinality(RosterOf(i)))
        BY <4>5, <4>6, Minus
      <4>8. inst'[i].enrollment_count = Less(inst[i].enrollment_count)
        BY <1>1, <1>9, <3>1, <4>3 DEF RowTypes
      <4>9. inst[i].enrollment_count = Cardinality(RosterOf(i))
        BY <1>1 DEF RosterCounts
      <4> QED BY <4>5, <4>7, <4>8, <4>9
    <3>2. CASE i \notin a.back
      <4>1. RosterOf(i)' = RosterOf(i)
        <5>1. ASSUME NEW f \in enr, f.inst = i PROVE Pair(f) \notin a.del
          <6>1. Pair(f)[1] = i
            BY <1>10, <5>1
          <6> QED BY <1>7, <3>2, <6>1
        <5> QED BY <1>9, <5>1 DEF RosterOf
      <4>2. inst'[i].enrollment_count = inst[i].enrollment_count
        BY <1>9, <3>2
      <4> QED BY <1>1, <4>1, <4>2 DEF RosterCounts
    <3> QED BY <3>1, <3>2
  <2> QED BY <2>1 DEF RosterCounts, RosterOf
<1>21. Store'
  BY <1>12, <1>14, <1>15, <1>16, <1>17, <1>18, <1>19, <1>20, StoreNext
<1>22. ASSUME NEW d \in Requests, d # r PROVE Spares(held[d], TakenBy(req[d]))
  <2>1. /\ Class(c) \notin held[d] /\ User(u) \notin held[d]
        /\ TakenBy(a) \cap TakenBy(req[d]) = {}
    BY <1>2, <1>8, <1>22, Apart
  <2>2. TakenBy(a) = a.del
    BY <1>3 DEF TakenBy
  <2>3. SparesMembers(held[d])
    BY <1>9, <2>1 DEF SparesMembers
  <2>4. SparesRoster(held[d], TakenBy(req[d]))
    <3>1. ASSUME NEW e \in enr, \A f \in enr' : Pair(f) # Pair(e)
          PROVE  Pair(e) \notin TakenBy(req[d]) /\ User(e.user) \notin held[d]
      <4>1. Pair(e) \in a.del
        BY <1>9, <3>1
      <4>2. Pair(e)[2] = e.user
        BY <1>10
      <4>3. e.user = u
        BY <1>7, <4>1, <4>2
      <4> QED BY <2>1, <2>2, <4>1, <4>3
    <3>2. enr' \subseteq enr /\ byHand' = byHand
      BY <1>9
    <3> QED BY <3>1, <3>2 DEF SparesRoster
  <2> QED BY <1>12, <2>3, <2>4 DEF Spares
<1>23. ~Deletes(a)
  BY <1>6 DEF Deletes
<1> QED BY <1>2, <1>6, <1>9, <1>13, <1>21, <1>22, <1>23, CommitInv

\* The instance goes with its roster; a blueprint's delete has one link less to sweep.
LEMMA DetachCommitInv ==
    ASSUME Inv, NEW r \in Requests, DetachCommit(r)
    PROVE  Inv'
<1>1. /\ RowTypes /\ LinksOK /\ RosterOK /\ MembersStudy /\ Tagged /\ PairsEnrolled
      /\ NoEnrolmentOutlives /\ MemberCounts /\ CourseCounts /\ RosterCounts
  BY RowFacts
<1>2. PICK a : a = req[r]
  OBVIOUS
<1>3. /\ a \in Suspension /\ a.pc = "detach_count" /\ Promise(a, held[r])
      /\ Fits(r, held[r]) /\ held[r] \subseteq Lock
  BY <1>2, Facts DEF DetachCommit
<1>4. a \in DetachState
  BY <1>3, Shapes
<1>5. PICK n, c, k : n = a.inst /\ c = inst[n].class /\ k = inst[n].course
  OBVIOUS
<1>6. a.job \in Job \cup {None} /\ n \in Instances /\ a.del \subseteq Instances \X Users
  BY <1>4, <1>5 DEF DetachState
<1>7. /\ On(n) /\ Instance(n) \in held[r]
      /\ \A p \in a.del : p[1] = n /\ Enrolled(p)
      /\ \A e \in RosterOf(n) : Pair(e) \in a.del
      /\ DeleteOK(a, held[r])
  BY <1>3, <1>5 DEF Promise, DetachOK, LocksOK
<1>8. c \in Classes /\ k \in Courses
  BY <1>1, <1>5, <1>6, <1>7 DEF LinksOK, On, Born
<1>9. /\ enr' = {e \in enr : Pair(e) \notin a.del}
      /\ inst' = [inst EXCEPT ![n].status = "gone", ![n].enrollment_count = 0]
      /\ group' = [group EXCEPT ![c].class_course_count = Less(group[c].class_course_count)]
      /\ attached' = [attached EXCEPT ![k] = Less(attached[k])]
      /\ Ends(r) /\ UNCHANGED <<student, member, byHand, plan, planned>>
  BY <1>2, <1>5 DEF DetachCommit, blueprint
<1>10. /\ inst'[n].status = "gone" /\ inst'[n].enrollment_count = 0
       /\ inst'[n].class = inst[n].class /\ inst'[n].course = inst[n].course
       /\ inst'[n].source = inst[n].source
       /\ \A i \in Instances : i # n => inst'[i] = inst[i]
  BY <1>1, <1>6, <1>9 DEF RowTypes
<1>11. ASSUME NEW e \in enr PROVE Pair(e) \in a.del <=> e.inst = n
  <2>1. Pair(e)[1] = e.inst
    BY DEF Pair
  <2> QED BY <1>7, <2>1 DEF RosterOf
<1>12. \A e : e \in enr' <=> e \in enr /\ e.inst # n
  BY <1>9, <1>11
<1>13. RowTypes'
  <2>1. group' \in [Classes -> [status : {"unborn", "there", "gone"},
                               class_member_count : Nat, class_course_count : Nat]]
    <3>1. group[c].class_course_count \in Nat
      BY <1>1, <1>8 DEF RowTypes
    <3>2. Less(group[c].class_course_count) \in Nat
      BY <3>1 DEF Less
    <3> QED BY <1>1, <1>8, <1>9, <3>2 DEF RowTypes
  <2>2. inst' \in [Instances -> [status : {"unborn", "there", "gone"},
                   class : Classes \cup {None}, course : Courses \cup {None},
                   source : Nat \cup {None}, enrollment_count : Nat]]
    <3>1. PICK mid : mid = [inst EXCEPT ![n].status = "gone"]
      OBVIOUS
    <3>2. mid \in [Instances -> [status : {"unborn", "there", "gone"},
                   class : Classes \cup {None}, course : Courses \cup {None},
                   source : Nat \cup {None}, enrollment_count : Nat]]
      BY <1>1, <1>6, <3>1 DEF RowTypes
    <3>3. inst' = [mid EXCEPT ![n].enrollment_count = 0]
      BY <1>9, <3>1
    <3> QED BY <1>6, <3>2, <3>3
  <2>3. attached' \in [Courses -> Nat] /\ enr' \subseteq Enrolment
    BY <1>1, <1>8, <1>9 DEF RowTypes, Less
  <2> QED BY <1>1, <1>9, <2>1, <2>2, <2>3 DEF RowTypes
<1>14. \A x : InstancesOf(x)' = IF x = c THEN InstancesOf(x) \ {n} ELSE InstancesOf(x)
  BY <1>5, <1>6, <1>10 DEF InstancesOf, On
<1>15. LinksOK'
  <2>1. \A i \in Instances : inst'[i].status # "unborn" =>
           inst'[i].class \in Classes /\ inst'[i].course \in Courses
    BY <1>1, <1>5, <1>8, <1>10 DEF LinksOK, Born
  <2>2. ASSUME NEW i \in Instances, NEW j \in Instances, inst'[i].status = "there",
               inst'[j].status = "there", inst'[i].class = inst'[j].class,
               inst'[i].course = inst'[j].course
        PROVE  i = j
    BY <1>1, <1>10, <2>2 DEF LinksOK, On
  <2> QED BY <2>1, <2>2 DEF LinksOK, Born, On
<1>16. Tagged'
  BY <1>1, <1>9, <1>10 DEF Tagged, On, Standing
<1>17. RosterOK'
  <2>1. IsFiniteSet(enr')
    BY <1>1, <1>9, FS_Subset DEF RosterOK
  <2>2. \A f, g \in enr' : Pair(f) = Pair(g) => f = g
    BY <1>1, <1>12 DEF RosterOK
  <2>3. \A f \in enr' : f.source # None => inst'[f.inst].class = f.source
    BY <1>1, <1>10, <1>12 DEF RosterOK, RowTypes, Enrolment
  <2> QED BY <2>1, <2>2, <2>3 DEF RosterOK, Pair
<1>18. MembersStudy'
  BY <1>1, <1>9 DEF MembersStudy
<1>19. PairsEnrolled'
  <2>1. ASSUME NEW x \in Classes, NEW y \in MembersOf(x)', NEW i \in InstancesOf(x)'
        PROVE  Enrolled(<<i, y>>)' \/ <<i, y>> \in byHand'
    <3>1. i \in InstancesOf(x) /\ y \in MembersOf(x)
      BY <1>9, <1>14 DEF MembersOf
    <3>2. i # n
      BY <1>10 DEF InstancesOf, On
    <3>3. Enrolled(<<i, y>>) \/ <<i, y>> \in byHand
      BY <1>1, <3>1 DEF PairsEnrolled
    <3>4. ASSUME NEW e \in enr, Pair(e) = <<i, y>> PROVE Enrolled(<<i, y>>)'
      <4>1. e.inst = i
        BY <3>4 DEF Pair
      <4>2. e \in enr'
        BY <1>12, <3>2, <4>1
      <4> QED BY <3>4, <4>2 DEF Enrolled, Pair
    <3> QED BY <1>9, <3>3, <3>4 DEF Enrolled
  <2> QED BY <2>1 DEF PairsEnrolled
<1>20. NoEnrolmentOutlives'
  <2>1. ASSUME NEW f \in enr'
        PROVE  /\ inst'[f.inst].status = "there" /\ f.user \in student'
               /\ f.source # None => <<f.source, f.user>> \in member'
    <3>1. f \in enr /\ f.inst # n /\ f.inst \in Instances
      BY <1>1, <1>12 DEF RowTypes, Enrolment
    <3> QED BY <1>1, <1>9, <1>10, <3>1 DEF NoEnrolmentOutlives, On
  <2> QED BY <2>1 DEF NoEnrolmentOutlives, On
<1>21. MemberCounts'
  <2>1. \A x \in Classes : group'[x].class_member_count = group[x].class_member_count
    BY <1>1, <1>8, <1>9 DEF RowTypes
  <2> QED BY <1>1, <1>9, <2>1, KeepsMemberCounts
<1>22. CourseCounts'
  <2>1. ASSUME NEW x \in Classes
        PROVE  group'[x].class_course_count = Cardinality(InstancesOf(x)')
    <3>1. CASE x = c
      <4>1. IsFiniteSet(InstancesOf(x)) /\ n \in InstancesOf(x)
        BY <1>1, <1>5, <1>6, <1>7, <3>1, Finite DEF InstancesOf
      <4>2. Cardinality(InstancesOf(x) \ {n}) = Less(Cardinality(InstancesOf(x)))
        BY <4>1, Minus
      <4>3. group'[x].class_course_count = Less(group[x].class_course_count)
        BY <1>1, <1>8, <1>9, <3>1 DEF RowTypes
      <4>4. group[x].class_course_count = Cardinality(InstancesOf(x))
        BY <1>1 DEF CourseCounts
      <4> QED BY <1>14, <3>1, <4>2, <4>3, <4>4
    <3>2. CASE x # c
      <4>1. group'[x].class_course_count = group[x].class_course_count
        BY <1>1, <1>8, <1>9, <3>2 DEF RowTypes
      <4> QED BY <1>1, <1>14, <3>2, <4>1 DEF CourseCounts
    <3> QED BY <3>1, <3>2
  <2>2. ASSUME NEW x \in Courses
        PROVE  attached'[x]
                 = Cardinality({i \in Instances : inst'[i].status = "there"
                                                  /\ inst'[i].course = x})
    <3>1. PICK S : S = {i \in Instances : On(i) /\ inst[i].course = x}
      OBVIOUS
    <3>2. PICK T : T = {i \in Instances : inst'[i].status = "there" /\ inst'[i].course = x}
      OBVIOUS
    <3>3. IsFiniteSet(S) /\ attached[x] = Cardinality(S)
      BY <1>1, <3>1, Finite DEF CourseCounts
    <3>4. CASE x = k
      <4>1. T = S \ {n} /\ n \in S
        BY <1>5, <1>6, <1>7, <1>10, <3>1, <3>2, <3>4 DEF On
      <4>2. Cardinality(S \ {n}) = Less(Cardinality(S))
        BY <3>3, <4>1, Minus
      <4>3. attached'[x] = Less(attached[x])
        BY <1>1, <1>8, <1>9, <3>4 DEF RowTypes
      <4> QED BY <3>2, <3>3, <4>1, <4>2, <4>3
    <3>5. CASE x # k
      <4>1. T = S
        BY <1>5, <1>6, <1>10, <3>1, <3>2, <3>5 DEF On
      <4>2. attached'[x] = attached[x]
        BY <1>1, <1>8, <1>9, <3>5 DEF RowTypes
      <4> QED BY <3>2, <3>3, <4>1, <4>2
    <3> QED BY <3>4, <3>5
  <2> QED BY <2>1, <2>2 DEF CourseCounts, InstancesOf, On
<1>23. RosterCounts'
  <2>1. ASSUME NEW i \in Instances
        PROVE  inst'[i].enrollment_count = Cardinality(RosterOf(i)')
    <3>1. CASE i = n
      <4>1. RosterOf(i)' = {}
        BY <1>12, <3>1 DEF RosterOf
      <4>2. Cardinality(RosterOf(i)') = 0
        BY <4>1, FS_EmptySet
      <4> QED BY <1>10, <3>1, <4>2
    <3>2. CASE i # n
      <4>1. RosterOf(i)' = RosterOf(i)
        BY <1>12, <3>2 DEF RosterOf
      <4> QED BY <1>1, <1>10, <3>2, <4>1 DEF RosterCounts
    <3> QED BY <3>1, <3>2
  <2> QED BY <2>1 DEF RosterCounts, RosterOf
<1>24. Store'
  BY <1>15, <1>16, <1>17, <1>18, <1>19, <1>20, <1>21, <1>22, <1>23, StoreNext
<1>25. ASSUME NEW d \in Requests, d # r PROVE Spares(held[d], TakenBy(req[d]))
  <2>1. Instance(n) \notin held[d] /\ TakenBy(a) \cap TakenBy(req[d]) = {}
    BY <1>2, <1>7, <1>25, Apart
  <2>2. TakenBy(a) = a.del
    BY <1>3 DEF TakenBy
  <2>3. SparesMembers(held[d])
    BY <1>9 DEF SparesMembers
  <2>4. SparesLinks(held[d])
    BY <1>7, <1>10, <2>1 DEF SparesLinks, On, Born
  <2>5. SparesRoster(held[d], TakenBy(req[d]))
    <3>1. ASSUME NEW e \in enr, \A f \in enr' : Pair(f) # Pair(e)
          PROVE  Pair(e) \notin TakenBy(req[d]) /\ inst'[e.inst].status # "there"
      <4>1. e.inst = n
        BY <1>12, <3>1
      <4> QED BY <1>10, <1>11, <2>1, <2>2, <4>1
    <3>2. enr' \subseteq enr /\ byHand' = byHand
      BY <1>9
    <3> QED BY <3>1, <3>2 DEF SparesRoster
  <2>6. SparesPlan(held[d])
    BY <1>9 DEF SparesPlan
  <2> QED BY <2>3, <2>4, <2>5, <2>6 DEF Spares
<1>26. CASE ~Deletes(a)
  BY <1>2, <1>6, <1>9, <1>13, <1>24, <1>25, <1>26, CommitInv
<1>27. CASE Deletes(a)
  <2>1. /\ a.job # None /\ a.job.kind = "delete" /\ a.job \in Job
    BY <1>6, <1>27 DEF Deletes
  <2> DEFINE q == [pc |-> "job", job |-> a.job]
  <2>2. q \in JobState /\ q.pc = "job" /\ q.job = a.job
    BY <2>1 DEF JobState
  <2>3. req' = [req EXCEPT ![r] = q] /\ held' = [held EXCEPT ![r] = {PlanUpdate}]
    BY <1>2, <1>9, <2>1 DEF Ends, GoesOn, Suspend
  <2>4. /\ a.job.list = {} /\ PlanUpdate \in held[r] /\ Standing
        /\ \A i \in Instances : On(i) /\ inst[i].source = plan.id =>
              <<inst[i].class, inst[i].course>> \in a.job.todo \/ i = n
    BY <1>3, <1>5, <1>7, <1>27 DEF DeleteOK
  <2> HIDE DEF q
  <2>5. PICK ids : ids = {PlanUpdate}
    OBVIOUS
  <2>6. DeleteOK(q, ids)'
    <3>1. \A i \in Instances : inst'[i].status = "there" /\ inst'[i].source = plan'.id =>
             <<inst'[i].class, inst'[i].course>> \in a.job.todo
      BY <1>9, <1>10, <2>4 DEF On
    <3>2. PlanUpdate \in ids /\ Standing'
      BY <1>9, <2>4, <2>5 DEF Standing
    <3> QED BY <2>2, <2>4, <3>1, <3>2 DEF DeleteOK, Deletes, On
  <2>7. Promise(q, ids)' /\ TakenBy(q) = {}
    BY <2>2, <2>6 DEF Promise, LocksOK, JoinOK, AttachOK, AddsFinite, LeaveOK, DetachOK,
                      DemoteOK, TagsOK, Joins, Pumps, TakenBy
  <2>8. ids \subseteq Lock /\ Fits(r, ids)
    BY <1>3, <2>4, <2>5, LockTypes, FewerLocks
  <2>9. Becomes(r, q, ids)
    BY <2>2, <2>3, <2>5, <2>7, <2>8 DEF Becomes, Suspension
  <2> QED BY <1>13, <1>24, <1>25, <2>7, <2>9, Steps
<1> QED BY <1>26, <1>27

\* A demotion lands: the role, the stints and all of the student's rows go.
LEMMA DemoteCommitInv ==
    ASSUME Inv, NEW r \in Requests, DemoteCommit(r)
    PROVE  Inv'
<1>1. /\ RowTypes /\ LinksOK /\ RosterOK /\ MembersStudy /\ Tagged /\ PairsEnrolled
      /\ NoEnrolmentOutlives /\ MemberCounts /\ CourseCounts /\ RosterCounts
  BY RowFacts
<1>2. PICK a : a = req[r]
  OBVIOUS
<1>3. a \in Suspension /\ a.pc = "demote_roster" /\ Promise(a, held[r])
  BY <1>2, Facts DEF DemoteCommit
<1>4. a \in RosterState
  BY <1>3, Shapes
<1>5. PICK u, left : u = a.user /\ left = a.left
  OBVIOUS
<1>6. a.job = None /\ u \in Users /\ left \subseteq Classes
  BY <1>4, <1>5 DEF RosterState
<1>7. /\ left = {c \in Classes : <<c, u>> \in member}
      /\ User(u) \in held[r] /\ \A c \in left : Class(c) \in held[r]
  BY <1>3, <1>5 DEF Promise, DemoteOK, LocksOK
<1>8. PICK on : on = {e.inst : e \in {f \in enr : f.user = u}}
  OBVIOUS
<1>9. /\ \A e \in enr : e.user = u => RowFree(r, Pair(e))
      /\ enr' = enr \ {e \in enr : e.user = u}
      /\ inst' = [i \in Instances |->
            IF i \in on
            THEN [inst[i] EXCEPT !.enrollment_count = Less(inst[i].enrollment_count)]
            ELSE inst[i]]
      /\ member' = member \ (left \X {u})
      /\ group' = [c \in Classes |->
            IF c \in left
            THEN [group[c] EXCEPT !.class_member_count = Less(group[c].class_member_count)]
            ELSE group[c]]
      /\ student' = student \ {u}
      /\ Ends(r) /\ UNCHANGED <<attached, byHand, plan, planned>>
  BY <1>2, <1>5, <1>8 DEF DemoteCommit, blueprint
<1>10. /\ \A i : i \in on <=> \E e \in enr : e.inst = i /\ e.user = u
       /\ \A e : e \in enr' <=> e \in enr /\ e.user # u
  BY <1>8, <1>9
<1>11. \A c, y : <<c, y>> \in member' <=> <<c, y>> \in member /\ y # u
  BY <1>1, <1>7, <1>9 DEF RowTypes
<1>12. KeepsLinks
  BY <1>1, <1>9 DEF KeepsLinks, RowTypes
<1>13. /\ LinksOK' /\ Tagged' /\ \A ids : SparesLinks(ids) /\ SparesPlan(ids)
       /\ \A x : InstancesOf(x)' = InstancesOf(x)
  BY <1>9, <1>12, LinksKept
<1>14. RowTypes'
  <2>1. group' \in [Classes -> [status : {"unborn", "there", "gone"},
                               class_member_count : Nat, class_course_count : Nat]]
    BY <1>1, <1>9 DEF RowTypes, Less
  <2>2. inst' \in [Instances -> [status : {"unborn", "there", "gone"},
                   class : Classes \cup {None}, course : Courses \cup {None},
                   source : Nat \cup {None}, enrollment_count : Nat]]
    BY <1>1, <1>9 DEF RowTypes, Less
  <2>3. member' \subseteq Classes \X Users /\ enr' \subseteq Enrolment /\ student' \subseteq Users
    BY <1>1, <1>9 DEF RowTypes
  <2> QED BY <1>1, <1>9, <2>1, <2>2, <2>3 DEF RowTypes
<1>15. RosterOK'
  <2>1. IsFiniteSet(enr')
    BY <1>1, <1>9, FS_Subset DEF RosterOK
  <2>2. \A f, g \in enr' : Pair(f) = Pair(g) => f = g
    BY <1>1, <1>10 DEF RosterOK
  <2>3. \A f \in enr' : f.source # None => inst'[f.inst].class = f.source
    BY <1>1, <1>10, <1>12 DEF RosterOK, KeepsLinks, RowTypes, Enrolment
  <2> QED BY <2>1, <2>2, <2>3 DEF RosterOK, Pair
<1>16. MembersStudy'
  BY <1>1, <1>9, <1>11 DEF MembersStudy
<1>17. PairsEnrolled'
  <2>1. ASSUME NEW x \in Classes, NEW y \in MembersOf(x)', NEW i \in InstancesOf(x)'
        PROVE  Enrolled(<<i, y>>)' \/ <<i, y>> \in byHand'
    <3>1. i \in InstancesOf(x) /\ y \in MembersOf(x) /\ y # u
      BY <1>11, <1>13 DEF MembersOf
    <3>2. Enrolled(<<i, y>>) \/ <<i, y>> \in byHand
      BY <1>1, <3>1 DEF PairsEnrolled
    <3>3. ASSUME NEW e \in enr, Pair(e) = <<i, y>> PROVE Enrolled(<<i, y>>)'
      <4>1. e.user = y
        BY <3>3 DEF Pair
      <4>2. e \in enr'
        BY <1>10, <3>1, <4>1
      <4> QED BY <3>3, <4>2 DEF Enrolled, Pair
    <3> QED BY <1>9, <3>2, <3>3 DEF Enrolled
  <2> QED BY <2>1 DEF PairsEnrolled
<1>18. NoEnrolmentOutlives'
  <2>1. ASSUME NEW f \in enr'
        PROVE  /\ inst'[f.inst].status = "there" /\ f.user \in student'
               /\ f.source # None => <<f.source, f.user>> \in member'
    <3>1. f \in enr /\ f.user # u /\ f.inst \in Instances
      BY <1>1, <1>10 DEF RowTypes, Enrolment
    <3>2. /\ On(f.inst) /\ f.user \in student
          /\ f.source # None => <<f.source, f.user>> \in member
      BY <1>1, <3>1 DEF NoEnrolmentOutlives
    <3> QED BY <1>9, <1>11, <1>12, <3>1, <3>2 DEF On, KeepsLinks
  <2> QED BY <2>1 DEF NoEnrolmentOutlives, On
<1>19. MemberCounts'
  <2>1. ASSUME NEW x \in Classes
        PROVE  group'[x].class_member_count = Cardinality(MembersOf(x)')
    <3>1. CASE x \in left
      <4>1. MembersOf(x)' = MembersOf(x) \ {u} /\ u \in MembersOf(x)
        BY <1>6, <1>7, <1>11, <3>1 DEF MembersOf
      <4>2. IsFiniteSet(MembersOf(x))
        BY <1>1, Finite
      <4>3. Cardinality(MembersOf(x) \ {u}) = Less(Cardinality(MembersOf(x)))
        BY <4>1, <4>2, Minus
      <4>4. group'[x].class_member_count = Less(group[x].class_member_count)
        BY <1>1, <1>9, <3>1 DEF RowTypes
      <4>5. group[x].class_member_count = Cardinality(MembersOf(x))
        BY <1>1 DEF MemberCounts
      <4> QED BY <4>1, <4>3, <4>4, <4>5
    <3>2. CASE x \notin left
      <4>1. MembersOf(x)' = MembersOf(x)
        BY <1>7, <1>11, <3>2 DEF MembersOf
      <4>2. group'[x].class_member_count = group[x].class_member_count
        BY <1>9, <3>2
      <4> QED BY <1>1, <4>1, <4>2 DEF MemberCounts
    <3> QED BY <3>1, <3>2
  <2> QED BY <2>1 DEF MemberCounts, MembersOf
<1>20. CourseCounts'
  <2>1. \A x \in Classes : group'[x].class_course_count = group[x].class_course_count
    BY <1>1, <1>9 DEF RowTypes
  <2> QED BY <1>1, <1>9, <1>12, <2>1, KeepsCourseCounts DEF KeepsLinks
<1>21. RosterCounts'
  <2>1. ASSUME NEW i \in Instances
        PROVE  inst'[i].enrollment_count = Cardinality(RosterOf(i)')
    <3>1. CASE i \in on
      <4>1. PICK e \in enr : e.inst = i /\ e.user = u
        BY <1>10, <3>1
      <4>2. RosterOf(i)' = RosterOf(i) \ {e} /\ e \in RosterOf(i)
        <5>1. ASSUME NEW f \in enr, f.inst = i, f.user = u PROVE f = e
          BY <1>1, <4>1, <5>1 DEF RosterOK, Pair
        <5> QED BY <1>10, <4>1, <5>1 DEF RosterOf
      <4>3. IsFiniteSet(RosterOf(i))
        BY <1>1, Finite
      <4>4. Cardinality(RosterOf(i) \ {e}) = Less(Cardinality(RosterOf(i)))
        BY <4>2, <4>3, Minus
      <4>5. inst'[i].enrollment_count = Less(inst[i].enrollment_count)
        BY <1>1, <1>9, <3>1 DEF RowTypes
      <4>6. inst[i].enrollment_count = Cardinality(RosterOf(i))
        BY <1>1 DEF RosterCounts
      <4> QED BY <4>2, <4>4, <4>5, <4>6
    <3>2. CASE i \notin on
      <4>1. RosterOf(i)' = RosterOf(i)
        BY <1>10, <3>2 DEF RosterOf
      <4>2. inst'[i].enrollment_count = inst[i].enrollment_count
        BY <1>9, <3>2
      <4> QED BY <1>1, <4>1, <4>2 DEF RosterCounts
    <3> QED BY <3>1, <3>2
  <2> QED BY <2>1 DEF RosterCounts, RosterOf
<1>22. Store'
  BY <1>13, <1>15, <1>16, <1>17, <1>18, <1>19, <1>20, <1>21, StoreNext
<1>23. ASSUME NEW d \in Requests, d # r PROVE Spares(held[d], TakenBy(req[d]))
  <2>1. User(u) \notin held[d] /\ \A c \in left : Class(c) \notin held[d]
    BY <1>7, <1>23, Apart
  <2>2. SparesMembers(held[d])
    <3>1. ASSUME NEW c \in Classes, NEW y \in Users, Class(c) \in held[d] \/ User(y) \in held[d]
          PROVE  <<c, y>> \in member' <=> <<c, y>> \in member
      BY <1>7, <1>11, <2>1, <3>1
    <3>2. ASSUME NEW y \in Users, User(y) \in held[d], y \in student PROVE y \in student'
      BY <1>9, <2>1, <3>2
    <3> QED BY <3>1, <3>2 DEF SparesMembers
  <2>3. SparesRoster(held[d], TakenBy(req[d]))
    <3>1. ASSUME NEW e \in enr, \A f \in enr' : Pair(f) # Pair(e)
          PROVE  Pair(e) \notin TakenBy(req[d]) /\ User(e.user) \notin held[d]
      <4>1. e.user = u
        BY <1>10, <3>1
      <4>2. Pair(e) \notin TakenBy(req[d])
        BY <1>9, <1>23, <4>1 DEF RowFree, Taken, TakenBy
      <4> QED BY <2>1, <4>1, <4>2
    <3>2. enr' \subseteq enr /\ byHand' = byHand
      BY <1>9
    <3> QED BY <3>1, <3>2 DEF SparesRoster
  <2> QED BY <1>13, <2>2, <2>3 DEF Spares
<1>24. ~Deletes(a)
  BY <1>6 DEF Deletes
<1> QED BY <1>2, <1>6, <1>9, <1>14, <1>22, <1>23, <1>24, CommitInv

-----------------------------------------------------------------------------
(* The invariant. *)

\* Nothing is there at first.
LEMMA InitInv == Init => Inv
<1> SUFFICES ASSUME Init PROVE Inv
  OBVIOUS
<1>1. /\ student = Users /\ member = {} /\ enr = {} /\ byHand = {}
      /\ plan = [id |-> 0, courses |-> {}] /\ planned = 0
      /\ attached = [k \in Courses |-> 0]
      /\ held = [r \in Requests |-> {}] /\ req = [r \in Requests |-> Idle]
  BY DEF Init
<1>2. \A c \in Classes : /\ group[c].status = "unborn"
                         /\ group[c].class_member_count = 0
                         /\ group[c].class_course_count = 0
  BY DEF Init
<1>3. \A i \in Instances : inst[i].status = "unborn" /\ inst[i].enrollment_count = 0
  BY DEF Init
<1>4. \A i \in Instances : ~On(i) /\ ~Born(i)
  BY <1>3 DEF On, Born
<1>5. TypeOK
  <2>1. group \in [Classes -> [status : {"unborn", "there", "gone"},
                              class_member_count : Nat, class_course_count : Nat]]
    BY DEF Init
  <2>2. inst \in [Instances -> [status : {"unborn", "there", "gone"},
                   class : Classes \cup {None}, course : Courses \cup {None},
                   source : Nat \cup {None}, enrollment_count : Nat]]
    BY DEF Init
  <2>3. /\ attached \in [Courses -> Nat]
        /\ plan \in [id : Nat, courses : SUBSET Courses] /\ planned \in Nat
    BY <1>1
  <2>4. held \in [Requests -> SUBSET Lock] /\ req \in [Requests -> Suspension]
    BY <1>1, IdleIs
  <2> QED BY <1>1, <2>1, <2>2, <2>3, <2>4 DEF TypeOK
<1>6. CountsExact
  <2>1. \A c \in Classes : MembersOf(c) = {} /\ InstancesOf(c) = {}
    BY <1>1, <1>4 DEF MembersOf, InstancesOf
  <2>2. \A k \in Courses : {i \in Instances : On(i) /\ inst[i].course = k} = {}
    BY <1>4
  <2>3. \A i \in Instances : RosterOf(i) = {}
    BY <1>1 DEF RosterOf
  <2>4. Cardinality({}) = 0
    BY FS_EmptySet
  <2>5. \A k \in Courses : attached[k] = 0
    BY <1>1
  <2> QED BY <1>2, <1>3, <2>1, <2>2, <2>3, <2>4, <2>5 DEF CountsExact
<1>7. Store
  <2>1. LinksOK /\ Tagged /\ PairsEnrolled
    BY <1>1, <1>4 DEF LinksOK, Tagged, PairsEnrolled, MembersOf
  <2>2. RosterOK /\ MembersStudy /\ NoEnrolmentOutlives
    BY <1>1, FS_EmptySet DEF RosterOK, MembersStudy, NoEnrolmentOutlives
  <2> QED BY <1>6, <2>1, <2>2 DEF Store
<1>8. Exclusive
  BY <1>1 DEF Exclusive
<1>9. \A r \in Requests : req[r] = Idle
  BY <1>1
<1>10. TakenOnce
  BY <1>9, IdleIs DEF TakenOnce, Taken
<1>11. Promises
  <2>1. ASSUME NEW ids PROVE Promise(Idle, ids)
    BY IdleIs, Nothing
  <2> QED BY <1>9, <2>1 DEF Promises
<1> QED BY <1>5, <1>7, <1>8, <1>10, <1>11 DEF Inv

\* No step leaves the invariant.
LEMMA StepInv == Inv /\ [Next]_vars => Inv'
<1> SUFFICES ASSUME Inv, [Next]_vars PROVE Inv'
  OBVIOUS
<1>1. ASSUME NEW r \in Requests, Grow(r) PROVE Inv'
  <2>1. CASE \E c \in Classes, u \in Users : AddMember(r, c, u)
    BY <2>1, AddMemberInv
  <2>2. CASE \E c \in Classes, k \in Courses : AttachCourse(r, c, k)
    BY <2>2, AttachCourseInv
  <2>3. CASE MemberSeat(r)
    BY <2>3, MemberSeatInv
  <2>4. CASE MemberProduct(r)
    BY <2>4, MemberProductInv
  <2>5. CASE CourseSeat(r)
    BY <2>5, CourseSeatInv
  <2>6. CASE CourseCount(r)
    BY <2>6, CourseCountInv
  <2>7. CASE CourseProduct(r)
    BY <2>7, CourseProductInv
  <2>8. CASE EnrollPair(r)
    BY <2>8, EnrollPairInv
  <2>9. CASE PumpCommit(r)
    BY <2>9, PumpCommitInv
  <2> QED BY <1>1, <2>1, <2>2, <2>3, <2>4, <2>5, <2>6, <2>7, <2>8, <2>9 DEF Grow
<1>2. ASSUME NEW r \in Requests, Shrink(r) PROVE Inv'
  <2>1. CASE \E c \in Classes, u \in Users : DropMember(r, c, u)
    BY <2>1, DropMemberInv
  <2>2. CASE DropCount(r)
    BY <2>2, DropCountInv
  <2>3. CASE DropRead(r)
    BY <2>3, DropReadInv
  <2>4. CASE Release(r)
    BY <2>4, ReleaseInv
  <2>5. CASE DropCommit(r)
    BY <2>5, DropCommitInv
  <2>6. CASE \E i \in Instances : DetachCourse(r, i)
    BY <2>6, DetachCourseInv
  <2>7. CASE SweepInstance(r)
    BY <2>7, SweepInstanceInv
  <2>8. CASE DetachCommit(r)
    BY <2>8, DetachCommitInv
  <2>9. CASE \E u \in Users : Demote(r, u)
    BY <2>9, DemoteInv
  <2>10. CASE DemoteMembers(r)
    BY <2>10, DemoteMembersInv
  <2>11. CASE DemoteCommit(r)
    BY <2>11, DemoteCommitInv
  <2> QED BY <1>2, <2>1, <2>2, <2>3, <2>4, <2>5, <2>6, <2>7, <2>8, <2>9, <2>10, <2>11
          DEF Shrink
<1>3. ASSUME NEW r \in Requests, Hand(r) PROVE Inv'
  <2>1. CASE \E i \in Instances, u \in Users : Enroll(r, i, u)
    BY <2>1, EnrollInv
  <2>2. CASE DisownIfPumped(r)
    BY <2>2, DisownIfPumpedInv
  <2>3. CASE Place(r)
    BY <2>3, PlaceInv
  <2> QED BY <1>3, <2>1, <2>2, <2>3 DEF Hand
<1>4. ASSUME NEW r \in Requests, Blueprint(r) PROVE Inv'
  <2>1. CASE \E list \in Lists : CreateBlueprint(r, list)
    BY <2>1, CreateBlueprintInv, PumpAssumption
  <2>2. CASE \E list \in Lists : ReadBlueprint(r, "set_courses", list)
    BY <2>2, ReadBlueprintInv, PumpAssumption
  <2>3. CASE ReadBlueprint(r, "claim_plan", {})
    BY <2>3, ReadBlueprintInv
  <2>4. CASE SetCourses(r)
    BY <2>4, SetCoursesInv
  <2>5. CASE ClaimBlueprint(r)
    BY <2>5, ClaimBlueprintInv
  <2>6. CASE SourcedLinks(r)
    BY <2>6, SourcedLinksInv
  <2>7. CASE DropLink(r)
    BY <2>7, DropLinkInv
  <2>8. CASE SweepDone(r)
    BY <2>8, SweepDoneInv
  <2>9. CASE ListForGrade(r)
    BY <2>9, ListForGradeInv
  <2>10. CASE ApplyCourse(r)
    BY <2>10, ApplyCourseInv
  <2> QED BY <1>4, <2>1, <2>2, <2>3, <2>4, <2>5, <2>6, <2>7, <2>8, <2>9, <2>10
          DEF Blueprint
<1>5. ASSUME NEW r \in Requests, Drop(r) PROVE Inv'
  BY <1>5, DropInv
<1>6. ASSUME NEW i \in Instances, NEW u \in Users, Unenroll(i, u) PROVE Inv'
  BY <1>6, UnenrollInv
<1>7. ASSUME NEW u \in Users, MakeStudent(u) PROVE Inv'
  BY <1>7, MakeStudentInv
<1>8. ASSUME NEW c \in Classes, CreateClass(c) \/ DeleteClass(c) PROVE Inv'
  BY <1>8, CreateClassInv, DeleteClassInv
<1>9. ASSUME UNCHANGED vars PROVE Inv'
  <2>1. UNCHANGED rows /\ UNCHANGED byHand /\ UNCHANGED <<held, req>>
    BY <1>9 DEF vars, rows
  <2>2. RowTypes' /\ Store'
    BY <2>1, StillStore DEF Inv
  <2>3. \A d \in Requests : Spares(held[d], TakenBy(req[d]))
    BY <2>1, Still
  <2> QED BY <2>1, <2>2, <2>3, Alone
<1> QED BY <1>1, <1>2, <1>3, <1>4, <1>5, <1>6, <1>7, <1>8, <1>9 DEF Next

\* What is relied on in every state: the rows agree with one another and with what each
\* suspended transaction has read.
THEOREM InvSafe == Spec => []Inv
BY InitInv, StepInv, PTL DEF Spec

\* Every variable keeps its shape.
THEOREM TypeSafe == Spec => []TypeOK
<1>1. Inv => TypeOK
  BY DEF Inv
<1> QED BY <1>1, InvSafe, PTL

\* However joins, attaches, leaves, detaches and demotions interleave, and wherever they are
\* cut off, a class's members are enrolled in all of its instances (add_member_sourced,
\* attach_course, enroll_pairs).
THEOREM PairsSafe == Spec => []PairsEnrolled
<1>1. Inv => PairsEnrolled
  BY DEF Inv, Store
<1> QED BY <1>1, InvSafe, PTL

\* No row stays behind a stint, a role or an instance that went (drop_member, set_role_cascade,
\* detach_course).
THEOREM OutlivesSafe == Spec => []NoEnrolmentOutlives
<1>1. Inv => NoEnrolmentOutlives
  BY DEF Inv, Store
<1> QED BY <1>1, InvSafe, PTL

\* The counters the ceilings and the class's delete are judged on are exact (release,
\* enroll_pairs, remove, set_role_cascade).
THEOREM CountsSafe == Spec => []CountsExact
<1>1. Inv => CountsExact
  BY DEF Inv, Store
<1> QED BY <1>1, InvSafe, PTL

\* A pump and a delete side by side leave no instance in the name of a blueprint that is gone
\* (apply_courses, delete, sourced_links).
THEOREM TagsSafe == Spec => []TagsStand
<1>1. Inv => TagsStand
  BY DEF Inv, Store, Tagged, TagsStand
<1> QED BY <1>1, InvSafe, PTL

-----------------------------------------------------------------------------
(* The link an operator made. *)

\* An instance goes by the commit of its own detach and no other way.
LEMMA OnlyDetach ==
    ASSUME Inv, Next, NEW i \in Instances, On(i), inst'[i].status # "there"
    PROVE  \E r \in Requests : DetachCommit(r) /\ req[r].inst = i
<1>1. inst \in [Instances -> [status : {"unborn", "there", "gone"},
                   class : Classes \cup {None}, course : Courses \cup {None},
                   source : Nat \cup {None}, enrollment_count : Nat]]
  BY DEF Inv, TypeOK
<1>2. inst' # inst
  BY DEF On
<1>3. UNCHANGED rows => inst' = inst
  BY DEF rows
<1>4. ASSUME NEW r \in Requests, Grow(r) PROVE FALSE
  <2>1. PumpCommit(r)
    BY <1>2, <1>3, <1>4 DEF Grow, AddMember, AttachCourse, AttachBegins, MemberSeat,
       MemberProduct, CourseSeat, CourseCount, CourseProduct, EnrollPair, Abort
  <2>2. PICK q, new : q = req[r] /\ new = {e \in q.add : ~Enrolled(Pair(e))}
    OBVIOUS
  <2>3. CASE Attaches(q)
    <3>1. inst' = [j \in Instances |->
                     IF j = q.of.inst
                     THEN [status |-> "there", class |-> q.of.class,
                           course |-> q.of.course, source |-> q.of.source,
                           enrollment_count |-> Cardinality(new)]
                     ELSE inst[j]]
      BY <2>1, <2>2, <2>3 DEF PumpCommit
    <3> QED BY <3>1 DEF On
  <2>4. CASE ~Attaches(q)
    <3>1. inst' = [j \in Instances |->
                     [inst[j] EXCEPT !.enrollment_count = inst[j].enrollment_count
                         + Cardinality({e \in new : e.inst = j})]]
      BY <2>1, <2>2, <2>4 DEF PumpCommit
    <3> QED BY <1>1, <3>1 DEF On
  <2> QED BY <2>3, <2>4
<1>5. ASSUME NEW r \in Requests, Shrink(r) PROVE DetachCommit(r) /\ req[r].inst = i
  <2>1. DropCommit(r) \/ DetachCommit(r) \/ DemoteCommit(r)
    BY <1>2, <1>3, <1>5 DEF Shrink, DropMember, DropCount, DropRead, Release, DetachCourse,
       DetachBegins, SweepInstance, Demote, DemoteMembers
  <2>2. ~DropCommit(r)
    <3>1. ASSUME DropCommit(r) PROVE FALSE
      <4>1. inst'[i] = IF i \in req[r].back /\ On(i)
                       THEN [inst[i] EXCEPT !.enrollment_count =
                                Less(inst[i].enrollment_count)]
                       ELSE inst[i]
        BY <3>1 DEF DropCommit
      <4> QED BY <1>1, <4>1 DEF On
    <3> QED BY <3>1
  <2>3. ~DemoteCommit(r)
    <3>1. ASSUME DemoteCommit(r) PROVE FALSE
      <4>1. \/ inst'[i] = inst[i]
            \/ inst'[i] = [inst[i] EXCEPT !.enrollment_count =
                              Less(inst[i].enrollment_count)]
        BY <3>1 DEF DemoteCommit
      <4> QED BY <1>1, <4>1 DEF On
    <3> QED BY <3>1
  <2>4. DetachCommit(r)
    BY <2>1, <2>2, <2>3
  <2>5. inst' = [inst EXCEPT ![req[r].inst].status = "gone",
                             ![req[r].inst].enrollment_count = 0]
    BY <2>4 DEF DetachCommit
  <2>6. req[r].inst # i => inst'[i] = inst[i]
    BY <1>1, <2>5
  <2> QED BY <2>4, <2>6 DEF On
<1>6. ASSUME NEW r \in Requests, Hand(r) PROVE FALSE
  <2>1. Place(r)
    BY <1>2, <1>3, <1>6 DEF Hand, Enroll, DisownIfPumped
  <2>2. inst' = [inst EXCEPT ![req[r].inst].enrollment_count =
                                inst[req[r].inst].enrollment_count + 1]
    BY <1>2, <2>1 DEF Place
  <2> QED BY <1>1, <2>2 DEF On
<1>7. ASSUME NEW r \in Requests, Blueprint(r) PROVE FALSE
  BY <1>2, <1>3, <1>7 DEF Blueprint, CreateBlueprint, ReadBlueprint, SetCourses,
     ClaimBlueprint, SourcedLinks, DropLink, DetachBegins, SweepDone, ListForGrade,
     ApplyCourse, AttachBegins
<1>8. ASSUME NEW r \in Requests, Drop(r) PROVE FALSE
  BY <1>2, <1>3, <1>8 DEF Drop
<1>9. ASSUME NEW j \in Instances, NEW u \in Users, Unenroll(j, u) PROVE FALSE
  <2>1. inst' = [inst EXCEPT ![j].enrollment_count = Less(inst[j].enrollment_count)]
    BY <1>9 DEF Unenroll
  <2> QED BY <1>1, <2>1 DEF On
<1>10. ASSUME NEW u \in Users, MakeStudent(u) PROVE FALSE
  BY <1>2, <1>10 DEF MakeStudent
<1>11. ASSUME NEW c \in Classes, CreateClass(c) \/ DeleteClass(c) PROVE FALSE
  BY <1>2, <1>11 DEF CreateClass, DeleteClass
<1> QED BY <1>4, <1>5, <1>6, <1>7, <1>8, <1>9, <1>10, <1>11 DEF Next

\* A sweep never takes an instance an operator attached (drop_links, detach_course).
THEOREM HandSafe == Spec => HandAttachedStays
<1>1. Inv /\ [Next]_vars =>
         [\A i \in Instances :
             On(i) /\ ~On(i)' /\ inst[i].source = None =>
                 \E r \in Requests : /\ req[r].pc = "detach_count"
                                     /\ req[r].inst = i /\ req[r].job = None]_vars
  <2> SUFFICES ASSUME Inv, Next, NEW i \in Instances, On(i), ~On(i)', inst[i].source = None
               PROVE  \E r \in Requests : /\ req[r].pc = "detach_count"
                                          /\ req[r].inst = i /\ req[r].job = None
    OBVIOUS
  <2>1. inst'[i].status # "there"
    BY DEF On
  <2>2. PICK r \in Requests : DetachCommit(r) /\ req[r].inst = i
    BY <2>1, OnlyDetach
  <2>3. req[r].pc = "detach_count"
    BY <2>2 DEF DetachCommit
  <2>4. req[r].job # None => inst[i].source # None
    BY <2>2, <2>3, Facts DEF Promise, DetachOK
  <2> QED BY <2>2, <2>3, <2>4
<1> QED BY <1>1, InvSafe, PTL DEF Spec, HandAttachedStays
=============================================================================
