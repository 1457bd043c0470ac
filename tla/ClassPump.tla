----------------------------- MODULE ClassPump ------------------------------
(***************************************************************************)
(* Classes, the students in them, the courses attached to them and the     *)
(* enrolments the two imply: every live member of a class is enrolled in   *)
(* every class x course instance it carries.                               *)
(*                                                                         *)
(* Joining, leaving, attaching, detaching and a role change each run as    *)
(* one READ COMMITTED transaction of several statements.  Every statement  *)
(* is a step: it waits for the row locks it needs, sees what is committed, *)
(* and its own writes stay in the request until the commit.  A counter is  *)
(* only moved under its row's lock, so its step is applied at the commit.  *)
(*                                                                         *)
(* A grade's blueprint is a list of courses pumped into every class of the *)
(* grade, one such transaction per class and course, with the instances it *)
(* attached tagged as its own.                                             *)
(*                                                                         *)
(* Offerings, names, years and other grades are left out; so is everything *)
(* else that hangs under an instance.                                      *)
(***************************************************************************)
EXTENDS Integers, FiniteSets

CONSTANTS
    Requests,    \* requests in flight
    Classes,     \* class sections
    Users,       \* accounts, students at first
    Courses,     \* courses a class may carry
    Instances,   \* ids of class x course instances
    Lists,       \* the course lists a blueprint may be given
    MaxRows,     \* bound: blueprints ever created
    MaxMembers,  \* MAX_CLASS_MEMBERS
    MaxCourses,  \* MAX_CLASS_COURSES
    None         \* no source, no blueprint, no job

\* What a blueprint's request has still to do: the course list it sweeps or
\* pumps for and the pairs left.
Job == [kind : {"pump", "edit", "delete"}, list : SUBSET Courses,
        todo : SUBSET (Classes \X Courses)]

ASSUME PumpAssumption ==
    /\ MaxMembers \in Nat \ {0} /\ MaxCourses \in Nat \ {0}
    /\ MaxRows \in Nat /\ Lists \subseteq SUBSET Courses
    /\ IsFiniteSet(Users) /\ IsFiniteSet(Instances)
    /\ None \notin Classes /\ None \notin Nat /\ None \notin Job

VARIABLES
    student,   \* the accounts whose role is student
    group,     \* the class_group rows with their two counters
    member,    \* the live class_member stints, <<class, user>>
    inst,      \* the class_course rows with their roster counter
    attached,  \* course.class_course_count
    plan,      \* the class_blueprint row: its id, 0 for none, and its courses
    planned,   \* ids given to blueprints so far
    enr,       \* the enrollment rows
    held,      \* the rows each request has locked
    req,       \* per request, where it is suspended and what it will write
    byHand     \* history: pairs an operator took off the roster

vars == <<student, group, member, inst, attached, plan, planned, enr, held,
          req, byHand>>

blueprint == <<plan, planned>>
rows == <<student, group, member, inst, attached, plan, planned, enr>>

Idle == [pc |-> "idle", job |-> None]
Free(r) == req[r].pc = "idle"

User(u) == <<"user", u>>
Class(c) == <<"class", c>>
Instance(i) == <<"instance", i>>
Course(k) == <<"course", k>>

\* FOR UPDATE on the blueprint row keeps out FOR KEY SHARE, which is shared.
PlanUpdate == <<"plan", "update">>
PlanShare == <<"plan", "share">>

\* A statement that locks waits until no other request holds one of its rows.
Lockable(r, ids) == \A d \in Requests \ {r} : held[d] \cap ids = {}
Locks(r, ids) == held' = [held EXCEPT ![r] = @ \cup ids]
Suspend(r, q) == req' = [req EXCEPT ![r] = q]

\* An uncommitted DELETE holds the rows it took.
Taken(r) == IF req[r].pc \in {"release", "detach_count"} THEN req[r].del ELSE {}
RowFree(r, p) == \A d \in Requests \ {r} : p \notin Taken(d)

\* A transaction ends: its locks go, and the request is answered or goes on
\* with the blueprint's job it was part of, whose own claim stays.
GoesOn(job) == IF job = None THEN Idle ELSE [pc |-> "job", job |-> job]
Ends(r) ==
    LET job == req[r].job
    IN /\ Suspend(r, GoesOn(job))
       /\ held' = [held EXCEPT ![r] = IF job # None /\ job.kind = "delete"
                                      THEN {PlanUpdate} ELSE {}]

\* It is refused, or a deadlock's victim: nothing is written.
Abort(r) == Ends(r) /\ UNCHANGED rows /\ UNCHANGED byHand

There(c) == group[c].status = "there"
On(i) == inst[i].status = "there"
InstancesOf(c) == {i \in Instances : On(i) /\ inst[i].class = c}
MembersOf(c) == {u \in Users : <<c, u>> \in member}
Pair(e) == <<e.inst, e.user>>
Enrolled(p) == \E e \in enr : Pair(e) = p
RosterOf(i) == {e \in enr : e.inst = i}

Less(n) == IF n > 0 THEN n - 1 ELSE 0

-----------------------------------------------------------------------------
(* The two ways a roster grows. *)

\* early_verdicts for a member: the stint, the role under the account's lock,
\* and a course list over its ceiling.
AddMember(r, c, u) ==
    /\ Free(r) /\ There(c) /\ <<c, u>> \notin member
    /\ Lockable(r, {User(u)}) /\ u \in student
    /\ group[c].class_course_count <= MaxCourses
    /\ Locks(r, {User(u)})
    /\ Suspend(r, [pc |-> "member_seat", job |-> None, class |-> c, user |-> u])
    /\ UNCHANGED rows /\ UNCHANGED byHand

\* Variant: the seat is counted without the class row's lock.
SeatRowUnlocked(c) == {}

\* The row the conditional UPDATE of the seat locks.
SeatRow(c) == {Class(c)}

\* add_member_sourced: the seat and the stint, one statement.
MemberSeat(r) ==
    /\ req[r].pc = "member_seat"
    /\ LET q == req[r]
       IN /\ Lockable(r, SeatRow(q.class))
          /\ IF /\ There(q.class)
                /\ group[q.class].class_member_count < MaxMembers
                /\ <<q.class, q.user>> \notin member
             THEN /\ Locks(r, SeatRow(q.class))
                  /\ Suspend(r, [q EXCEPT !.pc = "member_product"])
                  /\ UNCHANGED rows /\ UNCHANGED byHand
             ELSE Abort(r)

Pumping(q, pairs) ==
    [pc |-> "enroll", job |-> q.job, of |-> q, todo |-> pairs, add |-> {}]

\* The instances the class carries, read under its lock.
MemberProduct(r) ==
    /\ req[r].pc = "member_product"
    /\ Suspend(r, Pumping(req[r], InstancesOf(req[r].class) \X {req[r].user}))
    /\ UNCHANGED rows /\ UNCHANGED <<held, byHand>>

\* early_verdicts for a course, of an operator or of a blueprint's job.
AttachBegins(r, c, k, tag, job, claim) ==
    /\ IF /\ \A i \in InstancesOf(c) : inst[i].course # k
          /\ group[c].class_member_count <= MaxMembers
       THEN /\ Suspend(r, [pc |-> "course_seat", job |-> job, class |-> c,
                           course |-> k, source |-> tag])
            /\ Locks(r, claim)
       ELSE Suspend(r, GoesOn(job)) /\ UNCHANGED held
    /\ UNCHANGED rows /\ UNCHANGED byHand

AttachCourse(r, c, k) ==
    /\ Free(r) /\ There(c)
    /\ \A i \in InstancesOf(c) : inst[i].course # k
    /\ AttachBegins(r, c, k, None, None, {})

\* attach_course: the seat and the instance row, one statement.
CourseSeat(r) ==
    /\ req[r].pc = "course_seat"
    /\ LET q == req[r]
       IN /\ Lockable(r, SeatRow(q.class))
          /\ IF /\ There(q.class)
                /\ group[q.class].class_course_count < MaxCourses
                /\ \A i \in InstancesOf(q.class) : inst[i].course # q.course
             THEN \E i \in {j \in Instances : inst[j].status = "unborn"} :
                     /\ \A d \in Requests \ {r} : Instance(i) \notin held[d]
                     /\ Locks(r, SeatRow(q.class) \cup {Instance(i)})
                     /\ Suspend(r, [pc |-> "course_count", job |-> q.job,
                                    class |-> q.class, course |-> q.course,
                                    source |-> q.source, inst |-> i])
                     /\ UNCHANGED rows /\ UNCHANGED byHand
             ELSE Abort(r)

\* The catalogue's own count of the course's instances.
CourseCount(r) ==
    /\ req[r].pc = "course_count"
    /\ Lockable(r, {Course(req[r].course)})
    /\ Locks(r, {Course(req[r].course)})
    /\ Suspend(r, [req[r] EXCEPT !.pc = "course_product"])
    /\ UNCHANGED rows /\ UNCHANGED byHand

\* The live members of the class, read under its lock.
CourseProduct(r) ==
    /\ req[r].pc = "course_product"
    /\ Suspend(r, Pumping(req[r], {req[r].inst} \X MembersOf(req[r].class)))
    /\ UNCHANGED rows /\ UNCHANGED <<held, byHand>>

\* A pump for a new course, and the instance its own transaction inserted.
Attaches(q) == q.of.pc = "course_product"
OwnInstance(q, i) == Attaches(q) /\ q.of.inst = i

\* enroll_pairs, one pair: already enrolled, or the instance's counter and the
\* row; an instance that is gone aborts the whole run.
EnrollPair(r) ==
    /\ req[r].pc = "enroll"
    /\ LET q == req[r]
       IN \E p \in q.todo :
             IF Enrolled(p)
             THEN /\ Suspend(r, [q EXCEPT !.todo = @ \ {p}])
                  /\ UNCHANGED rows /\ UNCHANGED <<held, byHand>>
             ELSE /\ Lockable(r, {Instance(p[1])})
                  /\ IF On(p[1]) \/ OwnInstance(q, p[1])
                     THEN /\ Locks(r, {Instance(p[1])})
                          /\ Suspend(r, [q EXCEPT !.todo = @ \ {p},
                                !.add = @ \cup {[inst |-> p[1], user |-> p[2],
                                                 source |-> q.of.class]}])
                          /\ UNCHANGED rows /\ UNCHANGED byHand
                     ELSE Abort(r)

\* The transaction commits: the link row, both counters and the roster.
PumpCommit(r) ==
    /\ req[r].pc = "enroll" /\ req[r].todo = {}
    /\ LET q == req[r]
           new == {e \in q.add : ~Enrolled(Pair(e))}
           Counted(i) == [inst[i] EXCEPT !.enrollment_count =
                             @ + Cardinality({e \in new : e.inst = i})]
       IN /\ enr' = enr \cup new
          /\ byHand' = byHand \ {Pair(e) : e \in new}
          /\ IF Attaches(q)
             THEN /\ inst' = [i \in Instances |->
                        IF i = q.of.inst
                        THEN [status |-> "there", class |-> q.of.class,
                              course |-> q.of.course, source |-> q.of.source,
                              enrollment_count |-> Cardinality(new)]
                        ELSE inst[i]]
                  /\ group' = [group EXCEPT ![q.of.class].class_course_count = @ + 1]
                  /\ attached' = [attached EXCEPT ![q.of.course] = @ + 1]
                  /\ UNCHANGED member
             ELSE /\ inst' = [i \in Instances |-> Counted(i)]
                  /\ group' = [group EXCEPT ![q.of.class].class_member_count = @ + 1]
                  /\ member' = member \cup {<<q.of.class, q.of.user>>}
                  /\ UNCHANGED attached
    /\ Ends(r)
    /\ UNCHANGED student /\ UNCHANGED blueprint

-----------------------------------------------------------------------------
(* The ways it shrinks. *)

\* drop_member: the account's lock, then the live stint.
DropMember(r, c, u) ==
    /\ Free(r) /\ <<c, u>> \in member
    /\ Lockable(r, {User(u)})
    /\ Locks(r, {User(u)})
    /\ Suspend(r, [pc |-> "drop_count", job |-> None, class |-> c, user |-> u])
    /\ UNCHANGED rows /\ UNCHANGED byHand

\* Variant: the seat is handed back after the sweep.
SeatBackLate(c) == {}

\* The row the seat's release locks, before the sweep reads.
SeatBack(c) == {Class(c)}

DropCount(r) ==
    /\ req[r].pc = "drop_count"
    /\ Lockable(r, SeatBack(req[r].class))
    /\ Locks(r, SeatBack(req[r].class))
    /\ Suspend(r, [req[r] EXCEPT !.pc = "drop_read"])
    /\ UNCHANGED rows /\ UNCHANGED byHand

\* The rows the class wrote for the student.
DropRead(r) ==
    /\ req[r].pc = "drop_read"
    /\ LET q == req[r]
       IN Suspend(r, [pc |-> "release", job |-> None, class |-> q.class, user |-> q.user,
                      list |-> {e.inst : e \in {f \in enr : /\ f.user = q.user
                                                            /\ f.source = q.class}},
                      del |-> {}, back |-> {}])
    /\ UNCHANGED rows /\ UNCHANGED <<held, byHand>>

\* Variant: the count is given back whether or not a row went.
GivesBackAlways(p) == TRUE

\* release gives the count back only for a row it deleted.
GivesBack(p) == Enrolled(p)

\* release, one instance.
Release(r) ==
    /\ req[r].pc = "release"
    /\ LET q == req[r]
       IN \E i \in q.list :
             LET p == <<i, q.user>>
             IN /\ RowFree(r, p)
                /\ GivesBack(p) => Lockable(r, {Instance(i)})
                /\ IF GivesBack(p) THEN Locks(r, {Instance(i)}) ELSE UNCHANGED held
                /\ Suspend(r, [q EXCEPT !.list = @ \ {i},
                      !.del = IF Enrolled(p) THEN @ \cup {p} ELSE @,
                      !.back = IF GivesBack(p) THEN @ \cup {i} ELSE @])
    /\ UNCHANGED rows /\ UNCHANGED byHand

DropCommit(r) ==
    /\ req[r].pc = "release" /\ req[r].list = {}
    /\ LET q == req[r]
       IN /\ member' = member \ {<<q.class, q.user>>}
          /\ group' = [group EXCEPT ![q.class].class_member_count = Less(@)]
          /\ enr' = {e \in enr : Pair(e) \notin q.del}
          /\ inst' = [i \in Instances |->
                IF i \in q.back /\ On(i)
                THEN [inst[i] EXCEPT !.enrollment_count = Less(@)] ELSE inst[i]]
    /\ Ends(r)
    /\ UNCHANGED <<student, attached, byHand>> /\ UNCHANGED blueprint

\* Variant: the pair is detached whoever attached it.
OwnsLinkAlways(i, tag) == TRUE

\* A blueprint's sweep takes back only an instance that carries its tag.
OwnsLink(i, tag) == tag = None \/ inst[i].source = tag

\* detach_course: the instance FOR UPDATE, found by its class and course.
DetachBegins(r, i, job) ==
    /\ Lockable(r, {Instance(i)})
    /\ Locks(r, {Instance(i)})
    /\ Suspend(r, [pc |-> "sweep", job |-> job, inst |-> i])
    /\ UNCHANGED rows /\ UNCHANGED byHand

DetachCourse(r, i) == Free(r) /\ On(i) /\ DetachBegins(r, i, None)

\* sweep_instance_subtree, its roster.
SweepInstance(r) ==
    /\ req[r].pc = "sweep"
    /\ LET roster == {Pair(e) : e \in RosterOf(req[r].inst)}
       IN /\ \A p \in roster : RowFree(r, p)
          /\ Suspend(r, [pc |-> "detach_count", job |-> req[r].job,
                         inst |-> req[r].inst, del |-> roster])
    /\ UNCHANGED rows /\ UNCHANGED <<held, byHand>>

\* The instance row, the class's counter and the course's, and the commit.
DetachCommit(r) ==
    /\ req[r].pc = "detach_count"
    /\ LET i == req[r].inst
           c == inst[i].class
           k == inst[i].course
       IN /\ Lockable(r, {Class(c), Course(k)})
          /\ enr' = {e \in enr : Pair(e) \notin req[r].del}
          /\ inst' = [inst EXCEPT ![i].status = "gone", ![i].enrollment_count = 0]
          /\ group' = [group EXCEPT ![c].class_course_count = Less(@)]
          /\ attached' = [attached EXCEPT ![k] = Less(@)]
    /\ Ends(r)
    /\ UNCHANGED <<student, member, byHand>> /\ UNCHANGED blueprint

\* set_role_cascade off student: the role write locks the account.
Demote(r, u) ==
    /\ Free(r) /\ u \in student
    /\ Lockable(r, {User(u)})
    /\ Locks(r, {User(u)})
    /\ Suspend(r, [pc |-> "demote_members", job |-> None, user |-> u])
    /\ UNCHANGED rows /\ UNCHANGED byHand

\* Its stints end and their classes get their seats back, one statement.
DemoteMembers(r) ==
    /\ req[r].pc = "demote_members"
    /\ LET cs == {c \in Classes : <<c, req[r].user>> \in member}
           ids == {Class(c) : c \in cs}
       IN /\ Lockable(r, ids)
          /\ Locks(r, ids)
          /\ Suspend(r, [pc |-> "demote_roster", job |-> None,
                         user |-> req[r].user, left |-> cs])
    /\ UNCHANGED rows /\ UNCHANGED byHand

\* Its enrolments go with their counts, and the transaction commits.
DemoteCommit(r) ==
    /\ req[r].pc = "demote_roster"
    /\ LET u == req[r].user
           own == {e \in enr : e.user = u}
           on == {e.inst : e \in own}
       IN /\ \A e \in own : RowFree(r, Pair(e))
          /\ Lockable(r, {Instance(i) : i \in on})
          /\ enr' = enr \ own
          /\ inst' = [i \in Instances |->
                IF i \in on THEN [inst[i] EXCEPT !.enrollment_count = Less(@)]
                ELSE inst[i]]
          /\ member' = member \ (req[r].left \X {u})
          /\ group' = [c \in Classes |->
                IF c \in req[r].left
                THEN [group[c] EXCEPT !.class_member_count = Less(@)]
                ELSE group[c]]
          /\ student' = student \ {u}
    /\ Ends(r)
    /\ UNCHANGED <<attached, byHand>> /\ UNCHANGED blueprint

\* set_role_cascade back to student: no roster row hangs on it.
MakeStudent(u) ==
    /\ u \notin student
    /\ \A d \in Requests : User(u) \notin held[d]
    /\ student' = student \cup {u}
    /\ UNCHANGED <<group, member, inst, attached, enr, held, req, byHand>> /\ UNCHANGED blueprint

-----------------------------------------------------------------------------
(* Enrolling and unenrolling by hand. *)

\* enroll: the role, then the pair as it stands.
Enroll(r, i, u) ==
    /\ Free(r) /\ On(i) /\ u \in student
    /\ ~\E e \in enr : Pair(e) = <<i, u>> /\ e.source = None
    /\ Suspend(r, [pc |-> IF Enrolled(<<i, u>>) THEN "disown" ELSE "place",
                   job |-> None, inst |-> i, user |-> u])
    /\ UNCHANGED rows /\ UNCHANGED <<held, byHand>>

\* disown_if_pumped: the row comes off its class, if it is still there.
DisownIfPumped(r) ==
    /\ req[r].pc = "disown"
    /\ LET p == <<req[r].inst, req[r].user>>
       IN /\ RowFree(r, p)
          /\ enr' = {IF Pair(e) = p THEN [e EXCEPT !.source = None] ELSE e :
                        e \in enr}
    /\ Suspend(r, Idle)
    /\ UNCHANGED <<student, group, member, inst, attached, held, byHand>> /\ UNCHANGED blueprint

\* enroll's transaction: a pair already held is answered as it stands.
Place(r) ==
    /\ req[r].pc = "place"
    /\ LET i == req[r].inst
           u == req[r].user
       IN /\ ~Enrolled(<<i, u>>) => Lockable(r, {User(u), Instance(i)})
          /\ IF ~Enrolled(<<i, u>>) /\ u \in student /\ On(i)
             THEN /\ enr' = enr \cup {[inst |-> i, user |-> u, source |-> None]}
                  /\ inst' = [inst EXCEPT ![i].enrollment_count = @ + 1]
                  /\ byHand' = byHand \ {<<i, u>>}
             ELSE UNCHANGED <<enr, inst, byHand>>
    /\ Suspend(r, Idle)
    /\ UNCHANGED <<student, group, member, attached, held>> /\ UNCHANGED blueprint

\* unenroll, one statement.
Unenroll(i, u) ==
    /\ Enrolled(<<i, u>>)
    /\ \A d \in Requests : <<i, u>> \notin Taken(d) /\ Instance(i) \notin held[d]
    /\ enr' = {e \in enr : Pair(e) # <<i, u>>}
    /\ inst' = [inst EXCEPT ![i].enrollment_count = Less(@)]
    /\ byHand' = byHand \cup {<<i, u>>}
    /\ UNCHANGED <<student, group, member, attached, held, req>> /\ UNCHANGED blueprint

-----------------------------------------------------------------------------
(* The grade's blueprint. *)

Standing == plan.id # 0

\* What a pump has before it: every class of the grade with every course.
ClassesThere == {c \in Classes : There(c)}
PumpOf(list) == [kind |-> "pump", list |-> list, todo |-> {}]

\* create: one blueprint a grade, then the pump.
CreateBlueprint(r, list) ==
    /\ Free(r) /\ ~Standing /\ planned < MaxRows
    /\ planned' = planned + 1
    /\ plan' = [id |-> planned + 1, courses |-> list]
    /\ Suspend(r, [pc |-> "list", job |-> PumpOf(list)])
    /\ UNCHANGED <<student, group, member, inst, attached, enr, held, byHand>>

\* update_blueprint and delete_blueprint read the row first.
ReadBlueprint(r, pc, list) ==
    /\ Free(r) /\ Standing
    /\ Suspend(r, [pc |-> pc, job |-> None, read |-> plan.courses, list |-> list])
    /\ UNCHANGED rows /\ UNCHANGED <<held, byHand>>

\* set_courses_if_unchanged: the list under its lock, compared by content.
SetCourses(r) ==
    /\ req[r].pc = "set_courses" /\ Lockable(r, {PlanUpdate, PlanShare})
    /\ IF Standing /\ plan.courses = req[r].read
       THEN /\ plan' = [plan EXCEPT !.courses = req[r].list]
            /\ Suspend(r, [pc |-> "sourced", job |->
                             [PumpOf(req[r].list) EXCEPT !.kind = "edit"]])
       ELSE Suspend(r, Idle) /\ UNCHANGED plan
    /\ UNCHANGED <<student, group, member, inst, attached, planned, enr, held, byHand>>

\* delete: held_courses_for_update, a claim kept until the end.
ClaimBlueprint(r) ==
    /\ req[r].pc = "claim_plan" /\ Lockable(r, {PlanUpdate, PlanShare})
    /\ IF Standing /\ plan.courses = req[r].read
       THEN /\ Locks(r, {PlanUpdate})
            /\ Suspend(r, [pc |-> "sourced", job |->
                             [PumpOf({}) EXCEPT !.kind = "delete"]])
       ELSE Suspend(r, Idle) /\ UNCHANGED held
    /\ UNCHANGED rows /\ UNCHANGED byHand

\* sourced_links: the tagged pairs the list does not justify.
SourcedLinks(r) ==
    /\ req[r].pc = "sourced"
    /\ LET job == req[r].job
       IN Suspend(r, [pc |-> "job", job |-> [job EXCEPT !.todo =
             {<<inst[i].class, inst[i].course>> :
                 i \in {j \in Instances : /\ On(j) /\ inst[j].source = plan.id
                                          /\ Standing
                                          /\ inst[j].course \notin job.list}}]])
    /\ UNCHANGED rows /\ UNCHANGED <<held, byHand>>

\* drop_links, one pair: found again by class and course.
DropLink(r) ==
    /\ req[r].pc = "job" /\ req[r].job.kind \in {"edit", "delete"}
    /\ \E p \in req[r].job.todo :
          LET job == [req[r].job EXCEPT !.todo = @ \ {p}]
              found == {i \in InstancesOf(p[1]) :
                           inst[i].course = p[2] /\ OwnsLink(i, plan.id)}
          IN IF found = {} THEN /\ Suspend(r, [req[r] EXCEPT !.job = job])
                                /\ UNCHANGED rows /\ UNCHANGED <<held, byHand>>
             ELSE \E i \in found : DetachBegins(r, i, job)

\* The sweep is done: an edit goes on to its pump, a delete takes the row.
SweepDone(r) ==
    /\ req[r].pc = "job" /\ req[r].job.todo = {}
    /\ \/ /\ req[r].job.kind = "edit"
          /\ Suspend(r, [pc |-> "list", job |-> [req[r].job EXCEPT !.kind = "pump"]])
          /\ UNCHANGED <<plan, held>>
       \/ /\ req[r].job.kind = "delete"
          /\ plan' = [id |-> 0, courses |-> {}]
          /\ Suspend(r, Idle)
          /\ held' = [held EXCEPT ![r] = {}]
       \/ /\ req[r].job.kind = "pump"
          /\ Suspend(r, Idle)
          /\ UNCHANGED <<plan, held>>
    /\ UNCHANGED <<student, group, member, inst, attached, planned, enr, byHand>>

\* pump: the classes of the grade are listed once.
ListForGrade(r) ==
    /\ req[r].pc = "list"
    /\ Suspend(r, [pc |-> "job", job |->
                     [req[r].job EXCEPT !.todo = ClassesThere \X req[r].job.list]])
    /\ UNCHANGED rows /\ UNCHANGED <<held, byHand>>

\* Variant: the blueprint's row is read, not locked.
ClaimRead == {}

\* The claim of a sourced attach.
Claim == {PlanShare}

\* apply_courses, one pair: the attach claims the blueprint's row and tags the
\* instance with it; a blueprint that is gone ends the pump.
ApplyCourse(r) ==
    /\ req[r].pc = "job" /\ req[r].job.kind = "pump"
    /\ Lockable(r, {PlanUpdate}) \/ Claim = {}
    /\ IF Standing
       THEN \E p \in req[r].job.todo :
               AttachBegins(r, p[1], p[2], plan.id,
                            [req[r].job EXCEPT !.todo = @ \ {p}], Claim)
       ELSE /\ req[r].job.todo # {}
            /\ Suspend(r, Idle)
            /\ UNCHANGED rows /\ UNCHANGED <<held, byHand>>

-----------------------------------------------------------------------------
(* The classes themselves. *)

CreateClass(c) ==
    /\ group[c].status = "unborn"
    /\ group' = [group EXCEPT ![c].status = "there"]
    /\ UNCHANGED <<student, member, inst, attached, enr, held, req, byHand>> /\ UNCHANGED blueprint

\* delete: both counters zero under the row's lock; what the class wrote by
\* hand-over loses its tag.
DeleteClass(c) ==
    /\ There(c)
    /\ \A d \in Requests : Class(c) \notin held[d]
    /\ group[c].class_member_count = 0 /\ group[c].class_course_count = 0
    /\ group' = [group EXCEPT ![c].status = "gone"]
    /\ enr' = {IF e.source = c THEN [e EXCEPT !.source = None] ELSE e : e \in enr}
    /\ UNCHANGED <<student, member, inst, attached, held, req, byHand>> /\ UNCHANGED blueprint

\* The handler is dropped, or the process dies: its transaction rolls back.
Drop(r) ==
    /\ ~Free(r)
    /\ Suspend(r, Idle)
    /\ held' = [held EXCEPT ![r] = {}]
    /\ UNCHANGED rows /\ UNCHANGED byHand

-----------------------------------------------------------------------------
Init ==
    /\ student = Users
    /\ group = [c \in Classes |-> [status |-> "unborn",
                                   class_member_count |-> 0,
                                   class_course_count |-> 0]]
    /\ member = {}
    /\ inst = [i \in Instances |-> [status |-> "unborn", class |-> None,
                                    course |-> None, source |-> None,
                                    enrollment_count |-> 0]]
    /\ attached = [k \in Courses |-> 0]
    /\ plan = [id |-> 0, courses |-> {}] /\ planned = 0
    /\ enr = {}
    /\ held = [r \in Requests |-> {}]
    /\ req = [r \in Requests |-> Idle]
    /\ byHand = {}

Grow(r) ==
    \/ \E c \in Classes, u \in Users : AddMember(r, c, u)
    \/ \E c \in Classes, k \in Courses : AttachCourse(r, c, k)
    \/ MemberSeat(r) \/ MemberProduct(r)
    \/ CourseSeat(r) \/ CourseCount(r) \/ CourseProduct(r)
    \/ EnrollPair(r) \/ PumpCommit(r)

Shrink(r) ==
    \/ \E c \in Classes, u \in Users : DropMember(r, c, u)
    \/ DropCount(r) \/ DropRead(r) \/ Release(r) \/ DropCommit(r)
    \/ \E i \in Instances : DetachCourse(r, i)
    \/ SweepInstance(r) \/ DetachCommit(r)
    \/ \E u \in Users : Demote(r, u)
    \/ DemoteMembers(r) \/ DemoteCommit(r)

Hand(r) ==
    \/ \E i \in Instances, u \in Users : Enroll(r, i, u)
    \/ DisownIfPumped(r) \/ Place(r)

Blueprint(r) ==
    \/ \E list \in Lists :
          CreateBlueprint(r, list) \/ ReadBlueprint(r, "set_courses", list)
    \/ ReadBlueprint(r, "claim_plan", {})
    \/ SetCourses(r) \/ ClaimBlueprint(r) \/ SourcedLinks(r) \/ DropLink(r)
    \/ SweepDone(r) \/ ListForGrade(r) \/ ApplyCourse(r)

Next ==
    \/ \E r \in Requests :
          Grow(r) \/ Shrink(r) \/ Hand(r) \/ Blueprint(r) \/ Drop(r)
    \/ \E i \in Instances, u \in Users : Unenroll(i, u)
    \/ \E u \in Users : MakeStudent(u)
    \/ \E c \in Classes : CreateClass(c) \/ DeleteClass(c)

Spec == Init /\ [][Next]_vars

-----------------------------------------------------------------------------
Enrolment == [inst : Instances, user : Users, source : Classes \cup {None}]
Lock ==
    ({"user"} \X Users) \cup ({"class"} \X Classes) \cup ({"instance"} \X Instances)
    \cup ({"course"} \X Courses) \cup {PlanUpdate, PlanShare}

\* The transactions, by where they are suspended.
JobState == [pc : {"list", "job", "sourced"}, job : Job]
PlanState == [pc : {"set_courses", "claim_plan"}, job : {None},
              read : SUBSET Courses, list : SUBSET Courses]
StintState == [pc : {"member_seat", "member_product", "drop_count", "drop_read"},
               job : {None}, class : Classes, user : Users]
SeatState == [pc : {"course_seat"}, job : Job \cup {None}, class : Classes,
              course : Courses, source : Nat \cup {None}]
AttachState == [pc : {"course_count", "course_product"}, job : Job \cup {None},
                class : Classes, course : Courses, source : Nat \cup {None},
                inst : Instances]
EnrollState == [pc : {"enroll"}, job : Job \cup {None}, of : StintState \cup AttachState,
                todo : SUBSET (Instances \X Users), add : SUBSET Enrolment]
ReleaseState == [pc : {"release"}, job : {None}, class : Classes, user : Users,
                 list : SUBSET Instances, del : SUBSET (Instances \X Users),
                 back : SUBSET Instances]
SweepState == [pc : {"sweep"}, job : Job \cup {None}, inst : Instances]
DetachState == [pc : {"detach_count"}, job : Job \cup {None}, inst : Instances,
                del : SUBSET (Instances \X Users)]
DemoteState == [pc : {"demote_members"}, job : {None}, user : Users]
RosterState == [pc : {"demote_roster"}, job : {None}, user : Users, left : SUBSET Classes]
HandState == [pc : {"disown", "place"}, job : {None}, inst : Instances, user : Users]
Suspension ==
    {Idle} \cup JobState \cup PlanState \cup StintState \cup SeatState \cup AttachState
    \cup EnrollState \cup ReleaseState \cup SweepState \cup DetachState
    \cup DemoteState \cup RosterState \cup HandState

\* Every variable keeps its shape.
TypeOK ==
    /\ student \subseteq Users /\ member \subseteq Classes \X Users
    /\ group \in [Classes -> [status : {"unborn", "there", "gone"},
                              class_member_count : Nat, class_course_count : Nat]]
    /\ inst \in [Instances -> [status : {"unborn", "there", "gone"},
                               class : Classes \cup {None}, course : Courses \cup {None},
                               source : Nat \cup {None}, enrollment_count : Nat]]
    /\ attached \in [Courses -> Nat]
    /\ plan \in [id : Nat, courses : SUBSET Courses] /\ planned \in Nat
    /\ enr \subseteq Enrolment /\ byHand \subseteq Instances \X Users
    /\ held \in [Requests -> SUBSET Lock]
    /\ req \in [Requests -> Suspension]

(* What the pump promises. *)

\* A class owes the product of its two lists: every live member is enrolled in
\* every instance, unless an operator took the pair off by hand, however a join
\* races an attach (add_member_sourced, attach_course, enroll_pairs).
PairsEnrolled ==
    \A c \in Classes : \A u \in MembersOf(c), i \in InstancesOf(c) :
        Enrolled(<<i, u>>) \/ <<i, u>> \in byHand

\* An enrolment a class wrote lasts no longer than the stint it was written
\* for: no tagged row is left behind a student who left or lost the role, nor
\* any row behind an instance (drop_member, set_role_cascade, detach_course).
NoEnrolmentOutlives ==
    \A e \in enr :
        /\ On(e.inst) /\ e.user \in student
        /\ e.source # None => <<e.source, e.user>> \in member

\* Every counter a guard reads is the number of rows behind it: a class's
\* members and courses, a course's instances, an instance's roster
\* (release, enroll_pairs, remove, set_role_cascade).
CountsExact ==
    /\ \A c \in Classes :
          /\ group[c].class_member_count = Cardinality(MembersOf(c))
          /\ group[c].class_course_count = Cardinality(InstancesOf(c))
    /\ \A k \in Courses :
          attached[k] = Cardinality({i \in Instances : On(i) /\ inst[i].course = k})
    /\ \A i \in Instances : inst[i].enrollment_count = Cardinality(RosterOf(i))

\* No instance outlives the blueprint that attached it: a tag always names the
\* blueprint that stands, though a pump and a delete run side by side
\* (apply_courses, delete, sourced_links).
TagsStand ==
    \A i \in Instances : On(i) => inst[i].source \in {None, plan.id}

\* A blueprint's sweep never takes a course an operator attached, even one
\* attached by hand after the sweep listed the pair (drop_links,
\* detach_course): such an instance goes only by a detach of its own.
HandAttachedStays ==
    [][\A i \in Instances :
          On(i) /\ ~On(i)' /\ inst[i].source = None =>
              \E r \in Requests : /\ req[r].pc = "detach_count"
                                  /\ req[r].inst = i /\ req[r].job = None]_vars
=============================================================================
