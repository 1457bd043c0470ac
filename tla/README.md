# Formal models of the Hezarfen backend

TLA+ models of the school backend: the modules, the TLC instances that check
them, and proofs for TLAPS. Paths such as `db/exam.rs` are relative to the
crate's `src/` directory.

This document has the inventory of the system, the plan, and then, for what has
been modelled so far, the correspondence with the code, the runs, the
observations made on the way and the proofs.

## 1. The system

The backend is one Rust process (axum on tokio) over PostgreSQL. A control
database holds schools and builders; each school has a database of its own.
Handlers in `web/` parse and authorise, `service/` holds the rules, `domain/`
the validated types, and `db/` the statements. Two properties of this design
decide where the hard behaviour is:

- **A request is many awaits.** A handler reads rows on pooled connections,
  judges them in Rust, and writes in a later transaction. Everything judged
  before the write may be stale. The code's answer is a small set of recipes in
  `db/mod.rs` and `database.rs`: a `FOR UPDATE` lock taken first and the gates
  judged again under it, a guarded `UPDATE` (compare-and-set over the columns
  that were read, with a bounded number of rounds), a counter claimed and
  released in the transaction of the row it counts, and `tx_with_retry`, which
  commits on `Ok`, rolls back on `Err` and runs a serialization failure or a
  deadlock victim again.
- **Some state lives in the process.** Exam-room presence, whiteboard fan-out,
  registered AI workers, rate-limit buckets. It dies with the process and is
  rebuilt from what reconnects.

### Components

| Component | State | Operations | Interacts with | What makes it correct |
|---|---|---|---|---|
| Exam rules (`domain/exam.rs`, `exam_attempt.rs`) | none | schedule validation, deadline, status, attempt limit, PATCH merge | all exam paths | Rust and SQL agree on the deadline |
| Exam sittings (`service/exam_attempt.rs`, `db/exam_attempt.rs`, `db/exam_answer.rs`) | `exam_attempt`, `exam_answer`, `app_user.exam_sat_total` | start, resume, retake, save, submit | exam editing, rooms, enrolment, academic years | sittings gapless, within the limit, counted once; no orphan answers |
| Exam rooms (`web/exam_ws.rs`, `state.rs`) | `ExamPresence`, `exam_attempt.left_at` | door, join, frames, ticks, teardown | sittings | presence exact; a room stays with its sitting and ends with it |
| Exam editing (`service/exam.rs`, `db/exam.rs`) | `exam` | PATCH, delete | sittings, grading | PATCHes compose; frozen fields stay frozen |
| Exam questions (`db/exam_question.rs`) | `exam_question` | create, update, delete | sittings | frozen once somebody sat |
| Exam grading (`service/exam_result.rs`, `db/exam_result.rs`) | `exam_result`, `exam.result_count`, `kind_ref`, two badge counters | grade, regrade, remove | settings, editing | every counter equals what is stored |
| School settings (`service/settings.rs`) | `setting` rows, `kind_ref.retired` | list edits with retirement | grading, meals | a name in use cannot be retired |
| Meal booking and ledger (`service/meal_booking.rs`, `db/meal_booking.rs`, `db/meal_ledger.rs`, `db/menu.rs`) | seats, bookings with attempts, ledger rows, menu versions | book, cancel, re-book, charge, reverse, republish | wallet, menus | seats counted once; each attempt charged and refunded at most once, at the menu's price |
| Payments (`service/payment_ledger.rs`, `db/payment_ledger.rs`, `db/fee_plan*.rs`) | fee plans, assignments, ledger tree | edit a plan, assign, pay, refund, reverse | users | charges follow the frozen plan; no over-payment; a request key means one sum |
| Appointments (`service/appointment*.rs`, `db/appointment*.rs`) | slots with a seat, bookings, proposals | publish, book, approve, reject, propose, accept, cancel, delete | roles | nobody booked twice; a seat taken exactly while a live booking holds it |
| Class groups (`db/class_pump.rs`, `class_blueprint.rs`, `enrollment.rs`) | members, class x course instances, enrolments, blueprints, four counters | join, leave, attach, detach, enrol by hand, blueprint edit, pump and sweep | roles, courses | enrolments = members x courses; counters exact; nothing outlives its reason |
| Courses, offerings, terms, years | rows, archive switch | create, archive | almost everything | an archived year is read-only |
| Whiteboard (`service/board*.rs`, `db/board_stroke.rs`) | strokes, epoch, locks, fan-out | draw, clear, lock | WebSockets | caps held, no stroke from before a clear |
| AI bridge (`ai/`) | registered workers, in-flight calls | register, dispatch, lose | turns and jobs | each call settles exactly once |
| AI turns and jobs (`db/chatbot_message.rs`, `db/podcast_job.rs`) | pending turns, job states | ask, settle, cancel, sweep | AI bridge | a settled turn never changes; none stays pending for ever |
| Rate limiter (`rate_limit.rs`) | local buckets, shared rows | admit, sync | all requests | a hit charged once |
| Tenants (`tenant.rs`, `web/builder.rs`) | registry rows, databases, memberships | create, patch, delete, repair and sweep at boot | all | a school answered 201 is whole; a boot finishes what a crash cut |
| Accounts and roles (`db/user.rs`) | users, sessions | promote, demote, delete | all | an admin always remains |
| Homework, attendance, question bank, pomodoro, badges, notes, messages, events, profiles, insights, report cards | rows | row edits and aggregation | users, courses | mostly single-row rules |
| Database and web plumbing, telemetry | none of its own | retries, parsing, paging, metrics | all | appears as the atomic steps of the models |

`PROJECT.json` lists all of them with their files and status, and under
`hazards` the places where a test would hardly reach: the line, what can go
wrong, and the property that would catch it (or why none does). Section 5 has the
places where the code does not keep what a comment says.

## 2. Plan

The order follows the weight of what goes wrong. Exams come first: they have the
most actors (students, sockets, staff, the clock, the settings page) and the
most rules that are judged on one read and relied on in a later write.

1. **Exams** (done): `ExamRules`, `ExamSitting`, `ExamGrading`, their MC modules,
   `ExamProofs`.
2. **Meal booking and ledger** (done, but for credits paid in): `MealBooking`,
   `MealBookingProofs`.
3. **Payments**, **appointments** and the **class pump** (done): `Payments`,
   `Appointments`, `ClassPump`.
4. **AI turns, podcast jobs and the worker registry** (done): `AiBridge`, extended by
   `AiTurns` and `PodcastJobs`, both of which implement the abstract `AsyncAnswer`.
5. **Tenant provisioning** (done): `Schools`.
6. **Whiteboard**, **rate limiter**, the **admin floor**: not modelled, see section 7.

Proofs, in this order: the sitting invariants, the seat and charge invariants of meal
booking, `CreatedIsWhole` of `Schools`, the slots, rows and refinement of `PodcastJobs`, the
answers, threads and refinement of `AiTurns`, the calendar invariants of `Appointments`, the
charges, answers and fit of `Payments`, the roster invariants of `ClassPump`, the counters of
`ExamGrading` (all done). None of these modules declares a `RECURSIVE` operator.

## 3. Modules and code

| Module | Models |
|---|---|
| `ExamRules` | `domain/exam.rs`, `domain/exam_attempt.rs`: operators shared by the exam modules, no state |
| `ExamSitting` | sittings, answers, rooms, PATCH, question edits and delete of **one** exam |
| `ExamGrading` | marks and the counters that ride them, kind changes, exam delete, the settings' list of kinds |
| `MealBooking` | seats on one meal's menu, their charges and refunds, and the kitchen's edits |
| `Payments` | one student's fee plan, assignment, charges, payments, refunds and reversals |
| `Appointments` | slots, bookings, decisions and counter-proposals, and the changes of role that take a calendar or leave it |
| `ClassPump` | classes, members, attached courses, enrolments and the blueprint that pumps them |
| `AiBridge` | the worker registry: handshakes, losses, the pick, leases and how a call ends |
| `AiTurns` | EXTENDS `AiBridge`: chatbot and RAG threads, turns, tasks, streams and boot sweeps |
| `PodcastJobs` | EXTENDS `AiBridge`: jobs, cancels, reports and uploads, with the service as an external party |
| `AsyncAnswer` | abstract: an accepted request is owed an answer, settled once, never changed |
| `Schools` | the registry row and the database of a school through create, delete, crash and boot |
| `MC*` | the rows, PATCH bodies, lists, symmetries and constants of the TLC runs |
| `ExamProofs` | the inductive invariants of `ExamSitting` and of `ExamGrading` and the theorems of both |
| `MealBookingProofs`, `PaymentsProofs`, `AppointmentsProofs`, `ClassPumpProofs`, `AiTurnsProofs`, `PodcastJobsProofs`, `SchoolsProofs` | the same for the module of their name |

`ExamSitting` and `ExamGrading` meet in two places: `Sit` of `ExamGrading` is what
`StartCreate` of `ExamSitting` does to the number of sittings, and a PATCH is one
handler whose schedule half is in `ExamSitting` and whose kind half is in
`ExamGrading`. They are kept apart because no property relates the clock or the
rooms to the counters; both extend `ExamRules`, and their names do not meet, so that
`ExamProofs` can extend both.

### Granularity

- Each await of a handler is a step boundary. A task's program counter `pc` names
  the await it is suspended at; `snap`, `seq` and `at` are the locals that survive
  it (the exam row it read, the sitting it aims at, the clock it read).
- A transaction that opens with `SELECT ... FOR UPDATE` on the exam row
  (`create`, `save_in`, `freeze_gate`, the delete, `grade`) is one step: all of
  them take that row first, so two never overlap.
- The PATCH transaction (`update_if_unchanged`) takes no lock before its final
  `UPDATE`. Under READ COMMITTED each of its statements sees what was committed
  before it, so it is one step per statement. This matters: two of the observations
  of section 5 live between those statements.
- A single statement by key (`finish`, `set_left`, `stamp_left_if_running`) is one
  step and touches only the columns its `SET` names.
- Consecutive reads of one gate whose outcome is only "refuse" or "go on" are
  joined into one step.
- In `Payments`, `Appointments`, `ClassPump` and `AiTurns` several statements of one
  transaction interleave with other transactions. A statement that locks rows waits
  until they are free; what the transaction wrote stays in the request until its commit,
  which is the step that changes the tables; `Drop` is a rollback.
- A request that is refused ends; error wording is left out.

### `ExamSitting`: state and actions

| TLA+ | Code |
|---|---|
| `exam`, `attempt`, `answers` | tables `exam`, `exam_attempt`, `exam_answer`. A saved answer is its presence |
| `satTotal` | this exam's share of `app_user.exam_sat_total` |
| `revision` | a counter standing for the content of the questions |
| `presence` | `ExamPresence` of `state.rs` |
| `admitted`, `yearOpen`, `now` | student role with enrolment, the archive switch, `Timestamp::now` |
| `pc`, `who`, `snap`, `seq`, `at` | locals of REST requests and socket tasks |
| `epc`, `base`, `patch`, `tries` | locals of staff requests |
| `peak` | history: the largest limit the exam ever had |
| `StartGate`, `StartList`, `StartCreate` | `start_attempt`, `service::exam_attempt::start`, `db::exam_attempt::create` with `guard_start` and `create_in` |
| `SaveRequest` / `SaveFrame`, `SaveGate`, `SaveWrite` | `save_answer` over REST and the `answer` frame, `save_answer_in`, `save_in` |
| `FinishRequest` / `FinishFrame`, `FinishGate`, `FinishWrite` | `finish_attempt` and the `finish` frame, `finish` |
| `DoorRead`, `DoorGate`, `Enter`, `Clear`, `PushState`, `Gone`, `Leave`, `Stamp` | `attempt_ws` and `room` of `web/exam_ws.rs` |
| `PatchRequest`, `PatchGate`, `PatchCheck`, `PatchSave`, `PatchRetry` | `update_exam`, `service::exam::update`, `db::exam::update_if_unchanged` |
| `QuestionRequest`, `QuestionWrite` | the question handlers behind `ensure_questions_editable` and `freeze_gate` |
| `DeleteRequest`, `DeleteExam` | the delete handler and the cascade of `db/exam.rs` |
| `ClockTick`, `ToggleAdmission`, `ToggleYear`, `Restart` | surroundings |

### `ExamGrading`: state and actions

`exams` keeps `kind`, `draft` and `result_count` of each exam; `result` the marks by sitting, each
`low` or `high` (below, or at or above, `HIGH_MARK_MIN`) with its grader; `kindRef` the
counter and retired bit of a kind; `offered` the settings' list; `marksGiven` and
`highTotal` the badge counters; `req` what each staff request read. `GradeRead`,
`GradeGate`, `GradeWrite` are `grade` of the handler, the service and the database;
`RemoveRead`, `RemoveWrite` the removal; `PatchKindRead` to `PatchKindSave` the PATCH, its
pinned counter included; `DeleteGraded` the delete's share of the counters; `SettingsRead`,
`SettingsSave` are `service::settings::apply`. Two history variables are written and never
read by an action: `sweptHigh`, the high marks that exam deletes took, and `raced`, the
kinds between which a PATCH moved an exam that was marked or had a grade or removal in
flight (observation 4).

### `MealBooking`: state and actions

`menu` is the menu row with the sum of its dishes' prices (a dish write is a new sum and
a new revision) and `era`, a history field that tells one publication from the next;
`booking` is `meal_booking` by student; `charge` and `reversal` are the ledger lines by
student and attempt; `req` is what each request read. Whether the day or the cutoff has
passed is an input of the two actions that judge it. `Book`, `BookMenu`, `BookRow`, `Replay`, `Reread`, `BookPrice`,
`BookWhy` are the awaits of `service::meal_booking::book`; `ClaimHeld` and `ClaimMade` /
`ClaimDuplicate` / `ClaimFull` are `claim_and_place`, whose held check locks nothing and
whose seat `UPDATE` locks the menu row to the end; `CancelRead`, `CancelCutoff`, `Release`,
`CancelLost`, `CancelReverse` are `cancel` with `release_seat` and `reverse_booking`.
`SetCapacity`, `SetDishes`, `DeleteMenu`, `PublishMenu` are the kitchen's writes, one
transaction each. `Drop` is a handler that goes away at any await: a client that hangs
up, a restart, a transaction out of retries.

### `Payments`: state and actions

`plan` is the fee plan with its assignment count, `assigned` the pair's row, `ledger` the
set of lines, each with the id the code derives (from the installment, from the reversed
line, from the request key, or fresh), `held` the row locks of desk requests. An id is a
root and the tags that follow it: the key grammar of `domain/payment_ledger.rs` joins its
parts by a separator none of them can contain, so a key is read as its parts. A desk
request starts (`RecordPayment`, `RecordRefund`, `RecordReversal`), walks to the root of
its tree one lock at a time (`LockForCap`), reads the stored line of its key (`Replay`),
folds the subtree (`Fold`) and appends (`AppendLine`). `AssignBatch`, `Assign`,
`AssignReread` and `ChargeForInstallment` are the assignment; `CreatePlan`, `UpdatePlan`,
`DeletePlan` the plan's own writes.

### `Appointments`: state and actions

`slot` and `appt` are the two tables, `role` the role of each teacher's account, `now` the
clock, `req` what each request read. `PublishSlots` and `InsertClaimed` publish one or a
weekly series; `DeleteSlot`, `DeleteSeries`, `DeleteCommit` are `delete_free`; `Book` and
`ClaimSlotAndCreate` book. `Reject`, `Propose` and `Cancel` end in `SaveIfUnchanged`, the
compare-and-set of `decision_cas`; `Approve` and `AcceptProposal` read one snapshot and
end in `ApproveCommit`, which `Serializable` allows only if no approved booking of either
party has changed since (the snapshot is the bookings as they stood at the read). The account's role changes by `set_role_cascade`: `DemoteCancels` and
`DemoteCommits` are its two statements that take the calendar of one made a student;
`SetRole` is the write to parent, which returns before it comes to them
(`db/user.rs:660`), or back to teacher. An account may go through any of them in any order.

### `ClassPump`: state and actions

`group` and `inst` carry the counters, `member`, `enr` the rows, `student` the role,
`plan`, `planned` the grade's blueprint, `attached` the courses' own counters, `held` the
locks, `byHand` (history) the pairs an operator took off a roster. Joining is `AddMember`,
`MemberSeat`, `MemberProduct`, `EnrollPair` per pair, `PumpCommit`; attaching is the same
shape from `AttachCourse`; leaving is `DropMember`, `DropCount`, `DropRead`, `Release`,
`DropCommit`; detaching `DetachCourse`, `SweepInstance`, `DetachCommit`. `Demote` and its
steps are the role cascade, `Enroll`, `Place`, `DisownIfPumped`, `Unenroll` the doors of
an operator, and `CreateBlueprint` to `ApplyCourse` the blueprint's edit, delete, sweep
and pump.

### `AiBridge`, `AiTurns`, `PodcastJobs` and `AsyncAnswer`

`worker`, `inflight` and `lease` are the registry and its leases. A worker may be dead and
still listed (`Vanish` before `Remove`). A call ends by a reply, a refusal, a transport
error, its deadline or a hang-up, and every end gives the slot back.

In `AiTurns` `msg` is the answer row of a POST with whether its question is stored,
`turn` the task of the POST, `thread` and `seats` the threads and the counter of the cap,
`stream` the open streams. A thread's delete sweeps rows, a question and an answer each for
itself, so an answer that lands behind the sweep of its question strands. `SendChat` / `SendRag`, `Touch`, `AppendUser`,
`AppendPendingAssistant`, `SpawnTask` are the POST, and `HangUp` drops its handler at any
await between them, the one after the pending row's commit included; `ReadPrompt`, `Dispatch`, `Answered`, `SettleChat` /
`SettleRag` the task; `DeleteChat` / `DeleteRag` a thread's delete; `SiblingBoots` and
`Reboot` the boot sweep of another and of this process. An answer is modelled as the turn
whose question it answers.

In `PodcastJobs` `row` is the job row, `svc` the service's own record, `wire` the frames
it has not looked at, `report` and `upload` its calls under way. The
service is external: it moves its record the way `can_transition_to` says.

Both map their rows to `answer` of `AsyncAnswer` (`AnswerOf`): absent, owed, kept or
broken. `TurnsSettleOnce` and `JobsSettleOnce` say that every step is one of the abstract
module's or a stutter, so a settled answer never moves again. In `AiTurns` a sweep breaks
several at once and a delete withdraws a thread's; a job's row is never deleted.

### `Schools`: state and actions

`row` is the status of the registry row, `database` how far the school's own database is
(none, bare, at the head, seeded with its admin), `member` the first admin's membership,
`req` and `boot` what requests and booting processes are about to run, `faults` and
`crashes` the budgets of failures. `bring_up` is one operator, `BringUp`, used by a
create and by the boot's repair, one step per statement.

Names ending in a description of a fault (`StartCreateNextFree`, `MayClaimRetired`, ...)
are variants: what the code would be with one plausible mistake. No specification
uses them; each shows that a property of a run notices the mistake.

## 4. Runs

Bounds are named constants: `MaxTime` (clock), `MaxSeq` (sittings per student),
`MaxRevision` (question edits), `Tries` (compare-and-set rounds: 3 for a PATCH, 8 for a booking in the code), `MaxVersion` and `MaxPublished` (edits
and publications of a menu). `MaxAttempts` is the code's own ceiling on re-bookings, 10 there.

| Run | Instance | Checks | Distinct states |
|---|---|---|---|
| `core` | 1 student, 2 REST requests, 1 staff request; an open exam of duration 1, limit 1 raised to 2 | `SittingsContiguous`, `SatCountedOnce`, `LimitHolds`, `NoOrphanAnswers`, `QuestionsFrozen` | 1 742 628 |
| `edit` | 2 staff requests, 4 PATCH bodies, 2 rounds | `PatchesCompose` | 599 232 |
| `room` | 1 student, 2 sockets, 1 REST request, 1 staff request, 2 sittings | `PresenceExact`, `RoomBoundToSitting`, `SittingsStand` | 2 373 616 |
| `closes` | the same with 1 sitting, under fairness | `RoomEndsWithSitting` | 114 720 |
| `counters` | 1 exam, 1 student, 1 grader, 2 kinds, 2 staff requests, 2 sittings, 4 PATCH bodies (publish, re-draft, either kind) | `KindRefExact`, `ResultCountExact`, `HighMarksExact`, `UnlistedKindUnmarked` | 4 292 533 |
| `meals` | 2 students, 2 requests, 2 attempts, 2 publications with 1 edit each, caps 1 and 2 | `LedgerExact`, `HeldSeatsCounted`, `ClaimsAreFresh` | 3 430 003 |
| `fees` | 2 desk requests, plans of one or two installments, sums 1 and 2, 1 key, 5 lines | `ChargesFollowPlan`, `KeyedAnswers`, `PaymentsFit` | 1 997 946 |
| `calendar` | 2 requests, 1 teacher, 1 requester, 2 slots published as a series of two, 2 bookings, 2 windows, clock of 2, three roles | `NoDoubleBooking`, `SeatsExact`, `StudentsHaveNoCalendar`, `AcceptedAsNamed` | 2 291 600 |
| `roster` | 2 requests, 1 class of at most 2 members and 1 course, 2 users, 2 instances, 1 blueprint | `PairsEnrolled`, `NoEnrolmentOutlives`, `CountsExact`, `TagsStand`, `HandAttachedStays` | 1 251 065 |
| `turns` | 2 POSTs, 1 thread, 1 stream, 1 worker of 1 slot, 1 restart, under fairness | `AnswersOwnQuestion`, `ThreadsWhole`, `TurnsSettleOnce`, `TasksSettle`, `StreamsEnd` | 278 562 |
| `jobs` | 1 job, 2 calls, 2 reports, 1 upload, 1 worker of 1 slot | `SlotsExact`, `RowFollowsService`, `VerdictsEndTheJob`, `JobsSettleOnce` | 1 909 126 |
| `schools` | 2 processes, 2 schools, 2 requests, 1 fault, 1 crash, under fairness | `CreatedIsWhole`, `FinishedByBoot` | 468 552 |

Why these bounds are enough to be interesting. All the sitting paths of different
students touch disjoint rows, so one student with two concurrent requests has every
collision; two requests are what a lost race needs, and the proofs cover any number.
`MaxSeq` is one more than the largest limit in `core`, so a start that overshoots the
limit would be seen. A clock of three values with a duration of one separates "before",
"at" and "after" a deadline, and lets one sitting run out and its retake run. Two rounds
of compare-and-set have the first, the last and the exhausted round. In `counters` two
sittings of one student make "one reference per mark" differ from "one per student",
and two kinds let a kind be retired while the other keeps the list non-empty. The counter
of a raced kind can drift without limit; `DriftBound` stops it at `MaxSeq`, the most an
exact counter reaches in this instance. In `meals`
two students compete for the last seat, one edit is what a stale price or cap needs, the
second attempt is a re-book, and the republish is where attempt numbers have to carry on.
In `fees` five lines hold a charge, a payment, its refund and the reversal of that
refund, the deepest tree there is, and the payment that races the reversal. In `calendar` two bookings, two slots and two windows that touch are what a double
booking needs; a manager would only widen who may decide. The account's role moves only
before the first hour (`RolesBeforeHour`): no write of a role reads the clock, and the
proofs are not bound by it. In `roster` one class and one
course already have every race of join, attach, leave and detach over one pair, and the
second user fills the class to its ceiling. In `turns` two POSTs interleave on one thread
while the single slot makes one of them wait. In `schools` two half-made schools and one
fault let the first school's failure cost the second its turn, and the second process
boots while the first is creating. Where a run uses symmetry the permuted elements appear
in no definition by name and the run checks no liveness.

What the runs show:

- **core.** Two starts that list the same sittings aim at one key; exactly one inserts
  and counts, the other answers with the winner's row. A limit judged on an old row
  still bounds the sittings by the most generous limit the exam ever had. A save whose
  gates passed before the delete writes nothing after it. A question edit whose
  pre-flight saw no sitting is refused under the lock once a start has slipped in.
- **edit.** Two PATCHes merged over one row both survive; the round budget never runs
  below zero.
- **room.** The presence map equals the sockets inside, across restarts; a stale tab
  cannot write into a retake; a join or a teardown never undoes a submission.
- **closes.** A room is left once its sitting is over.
- **counters.** Mark counters and high-mark credits equal the stored marks through grade,
  regrade, removal, delete, PATCH and settings edits, and so do a kind's references, until a
  PATCH takes the kind away from under a mark or from under a request that had read it.
- **meals.** Every attempt is charged once, at the price on its row, and refunded that
  amount exactly when it is over, whatever cancels, re-books, replays and dropped
  handlers meet. A held seat is always counted, on a menu that is there. Within one
  publication a claim lands at the price and under the cap of that instant, although both
  were read awaits before.
- **fees.** Locks taken on the walk to the root serialise everything under one charge, so
  a cap judged by a fold still holds at the append. An assignment cut off anywhere leaves
  charges of the frozen plan only, and so does its retry, which is in the model; that a retry
  comes, and with it the missing charges, is nobody's promise. A retried key is
  answered with the line it stored, before the cap is judged.
- **calendar.** Two approvals that each see the other pending cannot both commit; a
  proposal replaced while it is being accepted is not what gets approved; a seat is freed
  once; a slot published while its teacher is made a student does not survive, nor one kept
  from a time as a parent.
- **roster.** A join and an attach that race enrol the pair exactly once, whichever commits
  first; a leave, a detach and a demotion leave nothing behind and give every counter back
  once; a blueprint's delete waits for its own pump or ends it.
- **turns.** A late, stray or repeated answer never changes a settled row or lands on
  another question; a thread's delete and a message cannot leave a turn without its
  thread; a task whose worker dies settles by its deadline; a row without a task, because
  the process died or its handler was dropped before the spawn, is shown as failed past the
  horizon, and a stream on it ends.
- **jobs.** However a call ends, the slot comes back; reports, a cancel and its answer in
  any order leave the row where the service is, or failed; a finished row stays. A cancel
  answered with true means that the service stopped for good and that the row finished
  without an episode, as cancelled or as failed.
- **schools.** A rival boot that repairs a school being created adopts what is there. A
  crash anywhere is made good by the next boot, school by school.

Deadlock is checked in the exam, meal and roster runs and there is none. The others may
stop: their requests, lines, jobs and boots are bounded, and a bounded history ends.

### Fairness

`closes`, `turns` and `schools` need it.

In `closes`, `Clear`, `WriteStep` and `Leave` of a socket are weakly fair: a task
suspended at a statement is polled again when the statement returns; that a statement
does return is the database's part. `PushState` is strongly fair: the room's `select!`
polls its ready branches in random order, so a client that keeps sending frames cannot
hold the interval's tick off for ever, but the action is disabled while a frame is
handled, so weak fairness would not do. Nothing is assumed of clients: a student need not
submit or close a tab, and the clock need not advance.

In `turns` a handler whose INSERT has returned goes on, if it is not dropped first, a
spawned task that can run is polled, a call's deadline (`tokio::time::timeout`)
fires, an open delete goes on to its next statement, a stream's interval ticks and the
clock passes a row's horizon: weak fairness each. Nothing makes a worker answer, a client
send or stay, or the process restart, and a task that waits for a slot is not assumed to get one.

In `schools` the steps of a boot are weakly fair: `init` runs straight through and a
supervisor starts a process that ended. Requests are not assumed to finish. Crashes and
faults are bounded by `MaxCrashes` and `MaxFaults`, so a boot is not cut short for ever.

## 5. Observations

Places where the code does something other than a comment says, met while modelling. The
runs state what holds beside them; none of these is a run. For 10 and 14 the formula that
TLC refutes on the instance of a run, put in the place of that run's property, is given.

Exams:

1. **The re-draft race.** The gate inside `update_if_unchanged` (`db/exam.rs:504`) is a
   plain `EXISTS`, without a lock on the exam row. A start that commits between it and the
   `UPDATE` leaves a sitting on a draft. `db/exam_attempt.rs:273-274`: "a mode change or
   re-draft cannot slip between a gate and the insert".
2. **The reconnecting student.** The last socket out counts itself out, a reconnecting one
   enters and clears `left_at`, then the first one's stamp lands (`web/exam_ws.rs:218`). The
   student is in the room and marked as gone. `web/exam_ws.rs:177-179`: "clearing regardless
   is what keeps a reconnecting student unmarked".
3. **The late stamp.** The deadline in the stamp's SQL (`db/exam_attempt.rs:140`) looks at
   `ends_at` only when there is no duration; `deadline()` takes the earlier of the two.
   `web/exam_ws.rs:213-215`: "a finished or expired sitting ... is never stamped".
4. **The kind gate.** `result_count` is pinned at the value the transaction itself reads
   (`db/exam.rs:519`), later than the gate that relied on its being zero, so a mark in
   between is pinned and the kind of a graded exam moves. `service/exam.rs:435-442`: "A
   graded exam keeps its kind". A grade or a removal in flight has the same effect: it
   claims or releases the kind it read (`web/exams/mod.rs:672`), not the one the exam has by
   then. The two kinds of such a move are `raced`: their counters no longer speak for their
   marks, and such a kind may leave the settings with marks under it. `KindRefExact` and
   `UnlistedKindUnmarked` hold for all other kinds; `ResultCountExact` and `HighMarksExact`
   hold regardless.
5. **The minted credit.** Grading credits the first grader, a regrade overwrites
   `graded_by`, removal refunds the current one (`db/exam_result.rs:183`): the first keeps a
   credit for a mark that is gone. `db/exam_result.rs:353-362` says the counters "come back
   the same way".

Meals:

6. **The leaked seat.** Two POSTs of one free seat both pass the held check. The loser
   counts a seat, finds the winner's row and returns `Ok(Duplicate)`
   (`db/meal_booking.rs:250`); `tx_with_retry` commits on `Ok`, so the count stays one too
   high. `db/meal_booking.rs:103-104`: "the whole transaction (seat bump included) rolls
   back on any refused path". `HeldSeatsCounted` states the direction that holds.
7. A republished menu has the old key and starts at revision 0 again, so a claim priced on
   the old menu lands on the new one if their revisions meet (`db/menu.rs:71`).
   `ClaimsAreFresh` is stated within one publication.

Payments, appointments, classes:

8. A reversal does not judge the cap: reversing a refund can put a charge's payments back
   above its worth. `PaymentsFit` is about payments and refunds.
9. **The stranded booking.** A demotion to student cancels the live bookings (`db/user.rs:695-704`),
   then deletes the slots (`705-717`). A booking that claims its slot between the two
   statements is neither cancelled nor refused, and stays live with its slot set to null.
   `db/user.rs:705-707`: "Deleting the slots is also what makes a *concurrent* booking safe:
   `Appointment::book` claims the slot row this deletes, so the two collide in the store".
10. **The parent's calendar.** `set_role_cascade` returns from its
    `Role::Parent` branch (`db/user.rs:660`) before the block for roles below teacher
    (`669-718`), so a teacher made a parent keeps the slots, the live bookings on them, the
    staffing rows and the homeroom column. `db/user.rs:389-392`: "**Below teacher** gives up
    course staffing and homeroom-teacher columns — only teacher+ may hold either — and the
    published appointment calendar, whose live bookings are cancelled in the same breath";
    `web/appointments.rs:274-275`: "A demoted owner leaves nothing outstanding to strand: the
    demotion cancels their live bookings and deletes the slots under them". On the
    instance of `calendar`, `\A s \in Slots : There(s) => slot[s].teacher \in teaching` fails
    in three steps: a slot is published, inserted, and its teacher made a parent.
    `StudentsHaveNoCalendar` is what holds.
11. **The hand-placed student.** A leave lists the tagged enrolments
    (`db/class_pump.rs:931-942`), an operator enrols the student by hand, which clears the
    tag (`disown_if_pumped`), and `release` deletes by the pair without looking at the tag
    again (`1065-1089`). `db/enrollment.rs:174-175`: "so no later class sweep can unenroll a
    student an operator placed on purpose".
12. **The old order.** The comment of the blueprint's `delete`
    (`service/class_blueprint.rs:152-175`) says that the row goes first, that sweep-first is
    never to come back, and that a crash in between leaves tagged rows. The code sweeps and
    then deletes in one transaction, as its own inline comment (`198-206`) and the `NO ACTION`
    key demand; `TagsStand` is about that.

AI:

13. `db/chatbot_thread.rs:156-157` says of a turn that slips in behind a delete's sweep "the
    delete then refuses nothing, the sweep takes the turn"; the foreign key is `NO ACTION`
    (`migrations/school/20260912000001_identity.sql:253`), so the store refuses the delete.
14. **The verdict nobody reads.** A cancel answers `cancelled: true` when the
    service says so and drops what `mark_cancelled` returns (`web/podcast.rs:649-652`).
    `db/podcast_job.rs:228-230`: "`None` means the row was not live (already terminal, or
    gone), which is exactly the `cancelled: false` verdict"; `service/podcast_job.rs:304-305`
    says the same. On the instance of `jobs` an answer of true with a row that is not
    `cancelled` is reached in eleven steps: a submit's call is lost, its row is marked failed
    while a cancel is under way, and the service, which had the job after all, stops it; the
    caller is told true and the row stays failed. `VerdictsEndTheJob` is what holds.
15. `db/podcast_job.rs:206` rewrites `sources` when a report carries them, though `183-187`
    says such columns are filled once. A repeated terminal report or upload refreshes
    `updated_at`, which `domain/podcast_job.rs:263-266` counts the retention from. A second
    upload whose `set_audio` fails removes the file the done row still names
    (`ai/podcast.rs:326-329`).
16. **The turn without a task.** The handler awaits the pending row's INSERT and spawns the
    task after it (`web/chatbot.rs:428-445`, `web/rag.rs:523-536`). A hang-up, or
    `request_timeout` (`lib.rs:593`), between the commit and the return drops it there: no
    task, and the row stays pending in the store until a boot past the horizon stamps it.
    `web/chatbot.rs:359-362` names "a process death" as the only thing that leaves such rows.
    Readers are shown a failure meanwhile, which is the second half of `TasksSettle`.

**The school registry:**

17. A PATCH may take a `provisioning` row to `active` before its schema exists, and no boot
    looks at it again but the schema sweep, which does not create a database
    (`tenant.rs:62-69`, `279-304`).
18. `bring_up`'s `UPDATE` (`tenant.rs:558`) names the id alone, so a suspension made while a
    school is brought up is reverted.
19. A delete that overlaps the create or the repair of the same school can drop the
    database before `bring_up` creates it, and take the row after: the database stays and
    no row names it. The drop's comment (`tenant.rs:624-629`) is about failures, not about
    this. `CreatedIsWhole` therefore ends where a delete begins.

## 6. Proofs

`ExamProofs` proves of `ExamSitting`, for every value of the constants:

| Theorem | States |
|---|---|
| `Invariance` | `Spec => []IndInv` |
| `TypeCorrect`, `NumberedWithoutGap`, `CountedOnce`, `LimitKept`, `AnswersHaveSittings`, `PresenceCounts` | `Spec => []P` for `TypeOK`, `SittingsContiguous`, `SatCountedOnce`, `LimitHolds`, `NoOrphanAnswers`, `PresenceExact` |
| `SittingsKept`, `QuestionsKept`, `PatchesKept`, `RoomsBound` | `Spec =>` the action properties `SittingsStand`, `QuestionsFrozen`, `PatchesCompose`, `RoomBoundToSitting` |

**Assumptions.** `TimeAssumption` (the clock bound is a natural number),
`NoneAssumption` (the absent value is none of the values it stands in for) and
`SittingAssumption` (the bounds are natural numbers, at least one sitting and one round;
the initial rows and PATCH bodies are well-formed; a task is a REST request or a socket
and not both; the set of sockets is finite). TLC evaluates them on every run.

**The invariant.** None of the safety invariants is inductive. A start that is about to
insert row `n` keeps the numbering gapless only if rows `1 .. n-1` are still there; a save
about to write leaves no orphan only if its sitting exists unless the exam is gone; the
limit holds only if the number aimed at was allowed by some limit the exam had. So

    IndInv == TypeOK /\ DbInv /\ TaskInv /\ EditorInv

where `DbInv` is the conjunction of the database invariants with `ExamCovered` (the
current limit is within `peak`), `TaskInv` says for each suspended request what it may
still rely on, with "or the exam is gone" wherever the delete may have intervened, and
`EditorInv` the same for a PATCH (its snapshot and body are rows and patches, its rounds
positive). `PresenceExact` is proved separately, over `IndInv`, by the cardinality facts
of `FiniteSetTheorems`. Each preservation proof has one step per action.

Of `ExamGrading` it proves every property of the run `counters`, and its types, for every
value of the constants, so for every PATCH body too:

| Theorem | States |
|---|---|
| `GradingInvariance` | `GradingSpec => []GradingInv` |
| `GradingTypes`, `KindsCounted`, `ResultsCounted`, `HighMarksCounted`, `UnlistedUnmarked` | `GradingSpec => []P` for `GradingTypeOK`, `KindRefExact`, `ResultCountExact`, `HighMarksExact`, `UnlistedKindUnmarked` |

    GradingInv == GradingTypeOK /\ Counts /\ Kept

`Counts` is the four properties and that the stored marks are finitely many: each needs
another. `UnlistedKindUnmarked` rests on `KindRefExact`, since a kind is retired when its
counter is zero, and a removal finds its exam alive because a deleted exam has no marks
(`ResultCountExact`). What none of them says is what a suspended request may rely on: a
grade claims, and a removal releases, the kind it read awaits before. `Kept` says that this
kind is still the exam's, or both are raced, or the exam is gone. A PATCH keeps `Kept` because
moving a kind under a request in flight is what `raced` records. TLC checked `Kept` and
`GradingTypeOK` on the instance of `counters` before they were proved. The proof has three
lemmas on how a grade, a removal and a delete change the set of all marks
(`MarksAfterGrade`, `MarksAfterRemove`, `MarksAfterDelete`), the cardinality steps over them
(`GradeCounts`, `RemoveCounts`, `DeleteCounts`, `MoveCounts`), and one step lemma per
writing action; a step that only moves its request is `ReadOnly`. The `GREATEST(.., 0)` floors
are shown not to bite outside the raced kinds. Assumption: `GradingAssumption` (positive
bounds, well-formed PATCH bodies, `None` is no exam row and no mark row); nothing is
assumed about how many exams, students, kinds or requests there are.

`MealBookingProofs` proves every property of the run `meals`, and its types, for every
value of the constants:

| Theorem | States |
|---|---|
| `Invariance` | `Spec => []IndInv` |
| `TypeCorrect`, `MoneyFollowsSeats`, `SeatsCounted` | `Spec => []P` for `TypeOK`, `LedgerExact`, `HeldSeatsCounted` |
| `ClaimsFresh` | `Spec => ClaimsAreFresh` |

**Assumptions.** `MealAssumption` (finitely many students, caps positive, prices and
bounds natural numbers, at least one attempt, publication and round) and
`NoneAssumption` (no row is the absent value).

**The invariant.**

    IndInv == TypeOK /\ MoneyInv /\ HeldSeatsCounted /\ FreshInv

`LedgerExact` is not inductive: a replay charges and a cancel refunds off a row read
awaits earlier. `MoneyInv` adds, for each suspended request, that such a row's attempt is
not ahead of the live one and was charged what the row says (`RowOK`), that a refund is
only pending for an attempt that is over, and that a student without a row is booking
attempt 1. Two lemmas fall out: `ReplayAppendsNothing` and `LateRefundAppendsNothing`.
Because claim and release write the ledger in their own transaction, the replays of
`book` and `cancel` never change it. `FreshInv` says that what a booking
read of the current publication is either behind the menu's revision or still what the
menu says, from which `ClaimsFresh` follows at the seat UPDATE. Even the type invariant
leans on `MoneyInv`: `CancelLost` reads a row that must still be there.

`SchoolsProofs` proves `TypeSafe` and `CreatedSafe` (`Spec => []CreatedIsWhole`). A create is
answered after six statements on two databases; `CreatesOK` says what each of them may rely
on while no delete of the school has begun, and `OneCreate` that ids are minted once.
Assumption: `NoneIsNoValue`.

`PodcastJobsProofs` proves `SlotsSafe`, `FollowsSafe`, `VerdictsSafe` (`Spec => []P` for
`SlotsExact`, `RowFollowsService`, `VerdictsEndTheJob`) and `JobsRefine`
(`Spec => JobsSettleOnce`). The row follows the service because of what is on its way:

    Inv == TypeOK /\ LeasesOK /\ SubmitOnce /\ ReportsOK /\ FramesOK /\ RepliesOK
           /\ RowFollowsService /\ VerdictsEndTheJob

A report names a state the service has reached and does not leave backwards, a cancel's
answer one it does not leave at all, and a job is handed over once. The refinement is shown
step by step: every action that writes a row is an action of `AsyncAnswer`, every other
leaves `AnswerOf` as it is. Assumptions: `BridgeAssumption` (finitely many calls),
`NoneIsNoState`.

`AiTurnsProofs` proves `TypeSafe`, `AnswersSafe`, `ThreadsSafe` (`AnswersOwnQuestion`,
`ThreadsWhole`) and `TurnsRefine` (`Spec => TurnsSettleOnce`). What a task carries to its row
is its own (`CarriesOwn`), an answer goes in through the thread of its question
(`RowsBelong`), a delete that has begun still has its thread (`SweepsOpen`), and a POST that
has not reserved its answer has none (`NotYet`). The spawn needs no clause of its own: it
changes no row.

`AppointmentsProofs` proves every property of the run `calendar`: `SeatsSafe`,
`CalendarsSafe`, `BookingsSafe`, `AcceptedSafe`, and `TypeSafe`.

    Inv == TypeOK /\ SlotsHold /\ DemotedOwn /\ DeletesOwn /\ DecisionsOK /\ SnapshotsOK
           /\ SeatsExact /\ StudentsHaveNoCalendar /\ NoDoubleBooking

is about what a suspended request still knows: a decision's read, a delete's list and a
demotion's list name the rows they named, and the snapshot an approval commits on still
shows its window free unless `Serializable` refuses it. Assumption:
`AppointmentAssumption` (finitely many bookings; teachers, managers and people are different
accounts; windows are pairs of integers; `None` is no slot).

`PaymentsProofs` proves every property of the run `fees`: `ChargesSafe`, `AnswersSafe`,
`FitSafe` (`Spec => PaymentsFit`), and `TypeSafe`, `FoldSafe`.

    Inv == TypeOK /\ Tree /\ DesksOK /\ Exclusive /\ WalksOK /\ Absent /\ FoldStands
           /\ Frozen /\ ChargesFollowPlan /\ KeyedAnswers

The ledger is a set of trees three lines deep (`Tree`), a row is locked by one request
(`Exclusive`), and a request past its walk holds the whole chain from its target to the
root (`WalksOK`). A line lands under rows its own request holds, so it is in no subtree
another request has folded: what a payment was judged on is still true when it lands
(`FoldStands`), and its key is still free (`Absent`). The arithmetic is about sums over
sets: `FoldedAdd` says that a line more is its weight more, for every finite set of lines.
It is an induction over the set, done without the library's induction schemes (they take an
operator) by a least counterexample: a nonempty set of finite sets has one with no other
member inside it (`LeastSet`, from `WFMin`). `FoldExists` and `FoldUnique` show in the same
way that the fold's recursive equation has a solution and only one. Assumption:
`PaymentAssumption` (a plan is a nonempty list of positive sums, sums are positive, `None`
is no key and no id).

`ClassPumpProofs` proves every property of the run `roster`, for any number of requests,
classes, accounts, courses and instances: `PairsSafe`, `OutlivesSafe`, `CountsSafe`, `TagsSafe`
(`Spec => []P` for `PairsEnrolled`, `NoEnrolmentOutlives`, `CountsExact`, `TagsStand`),
`HandSafe` (`Spec => HandAttachedStays`), and `TypeSafe`, `InvSafe`.

    Inv == TypeOK /\ Store /\ Exclusive /\ TakenOnce /\ Promises

`Store` is the four invariants with what they rest on: a course is linked to a class once, a
pair has one row, a member is a student. None of this is inductive without the transactions
that are under way: a join commits the pairs of the instances it listed statements earlier, so
no instance may have come since. `Promise(q, ids)` says of a suspended transaction `q` that
holds the locks `ids` what it has read and may still rely on: `JoinOK` and `AttachOK` that the
stint or link is new and every pair it owes is on its way, `LeaveOK`, `DetachOK` and `DemoteOK`
that every row that has to go is taken, `DeleteOK` that every instance with the tag of a
blueprint being deleted is still to be swept. `Exclusive` is the row locks, `TakenOnce` that two
transactions never delete the same row.

The proof is rely and guarantee. `Spares(ids, taken)` is what a step leaves alone for a
transaction with those locks and deletions, `Frame` shows that a promise outlasts every step
that spares it, and each action is shown to spare all others because it holds the locks they
would need. `Steps` puts the three obligations together (the others are spared, the actor
keeps its own promise, the rows are right), so an action's proof is about that action only.
Statements that only read and lock (`Quiet`) are short; the commits carry the counting.
Assumption: `PumpAssumption` (positive ceilings, course lists of known courses, finitely many
accounts and instances; `None` is no class, blueprint id or job).

**Only model-checked.** The liveness properties `RoomEndsWithSitting`, `TasksSettle`,
`StreamsEnd` and `FinishedByBoot`: liveness under fairness is out of the prover's reach. Every
invariant and action property of the runs is proved.

## 7. What is left out

Of the exam modules: the content of answers and questions (a saved answer is its
presence, the questions a revision number), images, badge awards, statistics and
listings, announcements, exam creation, and the course-instance cascade of
`db/course.rs`, which removes exams through the same statements as the delete. Role and
enrolment are one set, `admitted`, that may change at any time, which is weaker than any
rule about how they change. The room's best-effort statements are taken to succeed: a
failed clear or stamp is logged by the code and changes nothing. The grace of
`check_not_past` is below the clock's unit. Mode changes are judged outside the writing
transaction only, which is the window of observation 1 again.

Of the meals: credits paid in, attendance marks, dietary profiles, the slot's reference
count, and who may book for whom.

Of the payments: methods, notes, due dates, balances. Of the appointments: reasons, notes,
listings; a lost compare-and-set is a new request. Of the classes: the edit of a class
(name, year, teacher), the delete of a course, offerings, terms and everything else under an instance.
Of the AI nests: a store error while a turn is settled (`web/chatbot.rs:542`; the row then
stays pending until a reader projects it), history, citations, quotas, the wire
encoding, refused handshakes. Of the jobs: stages, transcripts, sources, the episode's file. Of the schools: the
pool cache, module sets, the files directory, memberships other than the first admin's.

Not modelled:

- **Whiteboard** (`web/board_ws.rs`, `db/board_stroke.rs`): strokes, epochs and the fan-out
  over WebSockets. Within TLC's reach; its caps follow the counter recipe that `ClassPump`
  and `MealBooking` model.
- **Rate limiter** (`rate_limit.rs`): local buckets folded into shared rows. Within reach
  as a small module of its own.
- **Accounts**: the admin floor (`db/user.rs:424-513`), registration and sessions. The
  cascades of a demotion are in `Appointments` and `ClassPump`.
- **Homework, attendance, question bank, pomodoro, notes, messages, events, profiles**:
  row edits under rules of one row; their counters follow the recipe of the exam counters.
- Password hashing and cookies, HTTP parsing and paging, telemetry, and pure
aggregation (insights, report cards, statistics).
