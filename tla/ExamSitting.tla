----------------------------- MODULE ExamSitting -----------------------------
(***************************************************************************)
(* The sittings of one exam.  Students start, resume and retake it, save   *)
(* answers and submit over REST requests and over exam-room WebSockets,    *)
(* while staff PATCH its schedule, edit its questions and delete it, the   *)
(* enrolment and the year's archive switch move, the clock runs, and the   *)
(* process may restart.                                                    *)
(*                                                                         *)
(* Every await of a handler is a step boundary: a task keeps in snap, seq  *)
(* and at what it read, and acts on it later, over a database that has     *)
(* moved on.  A transaction that opens with SELECT ... FOR UPDATE on the   *)
(* exam row is one step, since every such transaction takes that row       *)
(* first; the PATCH transaction takes no lock before its final UPDATE and  *)
(* is therefore two steps.                                                 *)
(***************************************************************************)
EXTENDS ExamRules

CONSTANTS
    Requests,    \* REST requests in flight
    Sockets,     \* exam-room WebSocket tasks
    Editors,     \* staff requests in flight (PATCH, question edit, delete)
    InitExams,   \* exam rows a model starts from
    Patches,     \* the PATCH bodies staff send
    MaxRevision  \* bound: question edits

ASSUME SittingAssumption ==
    /\ MaxSeq \in Nat \ {0}
    /\ MaxRevision \in Nat
    /\ Tries \in Nat \ {0}
    /\ InitExams \subseteq ExamRow
    /\ Patches \subseteq Patch
    /\ Requests \cap Sockets = {}
    /\ None \notin Students
    /\ IsFiniteSet(Sockets)

Tasks == Requests \cup Sockets

VARIABLES
    \* the database
    exam,      \* the exam row, or None once deleted
    attempt,   \* exam_attempt: student -> seq -> row or None
    answers,   \* exam_answer: student -> the seqs holding a saved answer
    satTotal,  \* app_user.exam_sat_total, this exam's share of it
    revision,  \* revision of the exam's questions
    admitted,  \* students by role who are enrolled in an addressed instance
    yearOpen,  \* the instance's academic year is not archived
    now,       \* the server's clock
    \* the process
    presence,  \* ExamPresence: student -> seq -> sockets counted in
    pc,        \* per task, the await it is suspended at
    who,       \* per task, its student
    snap,      \* per task, the exam row it read
    seq,       \* per task, the sitting it acts on (0: none yet)
    at,        \* per task, the clock reading it carries
    epc,       \* per staff request, the await it is suspended at
    base,      \* per staff request, the row the PATCH was merged over
    patch,     \* per staff request, the PATCH body
    tries,     \* per staff request, the compare-and-set rounds left
    \* history
    peak       \* the largest attempt limit the exam ever had (0: unlimited)

db      == <<exam, attempt, answers, satTotal, revision>>
env     == <<admitted, yearOpen, now>>
locals  == <<who, snap, seq, at>>
tasks   == <<pc, locals>>
editors == <<epc, base, patch, tries>>
vars    == <<db, env, presence, tasks, editors, peak>>

RequestPCs == {"start_list", "start_create", "save_gate", "save_write",
               "finish_gate", "finish_write"}
RoomPCs    == {"clear", "room", "push", "leave", "save_gate", "save_write",
               "finish_gate", "finish_write"}
TaskPCs    == {"idle", "door", "enter", "stamp"} \cup RequestPCs \cup RoomPCs
EditorPCs  == {"idle", "patch_gate", "patch_check", "patch_cas", "question",
               "delete"}

-----------------------------------------------------------------------------
(* Reads of table exam_attempt. *)

Sat(u, s) == attempt[u][s] # None

\* read_latest_for_user: the highest seq for the pair, 0 when there is none.
Latest(u) ==
    CHOOSE n \in 0 .. MaxSeq :
        /\ n # 0 => Sat(u, n)
        /\ \A s \in Seqs : s > n => ~Sat(u, s)

\* attempts_used: how many sittings list_for_user returns.
Used(u) == Cardinality({s \in Seqs : Sat(u, s)})

\* any_for_exam, and the EXISTS probes of the freeze and re-draft gates.
AnySat == \E u \in Students, s \in Seqs : Sat(u, s)

\* writable_attempt: the latest sitting, still in progress on the row read.
WritableLatest(u, e) ==
    /\ Latest(u) # 0
    /\ InProgress(attempt[u][Latest(u)], e, now)

-----------------------------------------------------------------------------
(* How a task suspends and ends. *)

Goto(t, label) == pc' = [pc EXCEPT ![t] = label]

\* A REST request ends; a room goes back to its select loop.
Done(t) ==
    IF t \in Sockets
    THEN /\ Goto(t, "room")
         /\ snap' = [snap EXCEPT ![t] = None]
         /\ UNCHANGED <<who, seq, at>>
    ELSE /\ Goto(t, "idle")
         /\ who' = [who EXCEPT ![t] = None]
         /\ snap' = [snap EXCEPT ![t] = None]
         /\ seq' = [seq EXCEPT ![t] = 0]
         /\ at' = [at EXCEPT ![t] = 0]

\* A socket task ends.
Hangup(t) ==
    /\ Goto(t, "idle")
    /\ who' = [who EXCEPT ![t] = None]
    /\ snap' = [snap EXCEPT ![t] = None]
    /\ seq' = [seq EXCEPT ![t] = 0]
    /\ UNCHANGED at

-----------------------------------------------------------------------------
(* POST /exams/{id}/attempt: start, resume, retake. *)

\* start_attempt's pre-flight on a plain read of the exam.
StartGate(t, u) ==
    /\ pc[t] = "idle"
    /\ exam # None
    /\ Sittable(exam) /\ WindowOpen(exam, now)
    /\ u \in admitted /\ yearOpen
    /\ Goto(t, "start_list")
    /\ who' = [who EXCEPT ![t] = u]
    /\ snap' = [snap EXCEPT ![t] = exam]
    /\ UNCHANGED <<db, env, presence, seq, at, editors, peak>>

\* start: which sitting to aim at; a running one is resumed untouched, a
\* used-up limit refuses.  started_at is the clock read here.
StartList(t) ==
    /\ pc[t] = "start_list"
    /\ LET u == who[t]
           n == Latest(u)
       IN IF n = 0 \/ ( /\ ~InProgress(attempt[u][n], snap[t], now)
                        /\ AllowsAnother(snap[t].max_attempts, Used(u))
                        /\ n < MaxSeq )
          THEN /\ Goto(t, "start_create")
               /\ seq' = [seq EXCEPT ![t] = n + 1]
               /\ at' = [at EXCEPT ![t] = now]
               /\ UNCHANGED <<who, snap>>
          ELSE Done(t)
    /\ UNCHANGED <<db, env, presence, editors, peak>>

\* Variant: the create trusts the pre-flight's row.
GuardStartPreflightOnly(t) == Sittable(snap[t]) /\ WindowOpen(snap[t], at[t])

\* guard_start: the gates again, on the locked row, at the carried clock.
GuardStart(t) ==
    /\ exam # None
    /\ Sittable(exam)
    /\ WindowOpen(exam, at[t])

\* Variant: every sitting counts, retakes too.
CreateInCountsRetakes(u, s, started) ==
    /\ attempt' = [attempt EXCEPT ![u][s] =
                     [started_at |-> started, finished_at |-> None,
                      left_at |-> None]]
    /\ satTotal' = [satTotal EXCEPT ![u] = @ + 1]

\* create_in: the insert and the counter land together; a key that is taken
\* (another start won) rolls both back.
CreateIn(u, s, started) ==
    /\ attempt' = [attempt EXCEPT ![u][s] =
                     [started_at |-> started, finished_at |-> None,
                      left_at |-> None]]
    /\ satTotal' = [satTotal EXCEPT ![u] = @ + (IF s = 1 THEN 1 ELSE 0)]

\* Variant: a start that lost the key race takes the next free seq instead.
StartCreateNextFree(t) ==
    /\ pc[t] = "start_create"
    /\ LET free == IF Sat(who[t], seq[t]) THEN Latest(who[t]) + 1 ELSE seq[t]
       IN IF GuardStart(t) /\ free <= MaxSeq
          THEN CreateIn(who[t], free, at[t])
          ELSE UNCHANGED <<attempt, satTotal>>
    /\ Done(t)
    /\ UNCHANGED <<exam, answers, revision, env, presence, editors, peak>>

\* create: guard and insert as one transaction.  A lost key race re-reads the
\* winner's row and answers with it, which writes nothing.
StartCreate(t) ==
    /\ pc[t] = "start_create"
    /\ IF GuardStart(t) /\ ~Sat(who[t], seq[t])
       THEN CreateIn(who[t], seq[t], at[t])
       ELSE UNCHANGED <<attempt, satTotal>>
    /\ Done(t)
    /\ UNCHANGED <<exam, answers, revision, env, presence, editors, peak>>

-----------------------------------------------------------------------------
(* Saving an answer: POST .../attempt/answers, or an `answer` frame. *)

\* save_answer: the exam is read, then the funnel is entered.
SaveRequest(t, u) ==
    /\ t \in Requests
    /\ pc[t] = "idle"
    /\ exam # None /\ u \in admitted
    /\ Goto(t, "save_gate")
    /\ who' = [who EXCEPT ![t] = u]
    /\ snap' = [snap EXCEPT ![t] = exam]
    /\ UNCHANGED <<db, env, presence, seq, at, editors, peak>>

\* handle_message(Answer): the room re-reads the exam; a deleted one is an
\* error frame and the room stays.
SaveFrame(t) ==
    /\ t \in Sockets
    /\ pc[t] = "room"
    /\ exam # None
    /\ Goto(t, "save_gate")
    /\ snap' = [snap EXCEPT ![t] = exam]
    /\ UNCHANGED <<db, env, presence, who, seq, at, editors, peak>>

\* Variant: the room writes into whatever sitting is latest.
OwnSittingAny(t) == TRUE

\* writable_room_attempt: a room writes into its own sitting only.
OwnSitting(t) == t \in Sockets => Latest(who[t]) = seq[t]

\* save_answer_in's gates, judged on the exam row read before.
SaveGate(t) ==
    /\ pc[t] = "save_gate"
    /\ LET u == who[t]
           n == Latest(u)
       IN IF /\ WritableLatest(u, snap[t]) /\ OwnSitting(t)
             /\ u \in admitted /\ yearOpen
             /\ RejoinOpen(attempt[u][n], snap[t])
          THEN /\ Goto(t, "save_write")
               /\ seq' = [seq EXCEPT ![t] = n]
               /\ UNCHANGED <<who, snap, at>>
          ELSE Done(t)
    /\ UNCHANGED <<db, env, presence, editors, peak>>

\* Variant: the upsert without the exam-row probe.
SaveWriteUnlocked(t) ==
    /\ pc[t] = "save_write"
    /\ answers' = [answers EXCEPT ![who[t]] = @ \cup {seq[t]}]
    /\ Done(t)
    /\ UNCHANGED <<exam, attempt, satTotal, revision, env, presence, editors,
                   peak>>

\* save_in: the exam row locked (gone: 404), then the upsert at the sitting's
\* seq.  After a saved frame the room pushes its state at once.
SaveWrite(t) ==
    /\ pc[t] = "save_write"
    /\ IF exam # None
       THEN /\ answers' = [answers EXCEPT ![who[t]] = @ \cup {seq[t]}]
            /\ IF t \in Sockets
               THEN /\ Goto(t, "push")
                    /\ snap' = [snap EXCEPT ![t] = None]
                    /\ UNCHANGED <<who, seq, at>>
               ELSE Done(t)
       ELSE UNCHANGED answers /\ Done(t)
    /\ UNCHANGED <<exam, attempt, satTotal, revision, env, presence, editors,
                   peak>>

-----------------------------------------------------------------------------
(* Submitting: POST .../attempt/finish, or a `finish` frame. *)

FinishRequest(t, u) ==
    /\ t \in Requests
    /\ pc[t] = "idle"
    /\ exam # None
    /\ Goto(t, "finish_gate")
    /\ who' = [who EXCEPT ![t] = u]
    /\ snap' = [snap EXCEPT ![t] = exam]
    /\ UNCHANGED <<db, env, presence, seq, at, editors, peak>>

FinishFrame(t) ==
    /\ t \in Sockets
    /\ pc[t] = "room"
    /\ exam # None
    /\ Goto(t, "finish_gate")
    /\ snap' = [snap EXCEPT ![t] = exam]
    /\ UNCHANGED <<db, env, presence, who, seq, at, editors, peak>>

\* finish_attempt's checks (no rejoin, role or enrolment gate on purpose).
FinishGate(t) ==
    /\ pc[t] = "finish_gate"
    /\ IF WritableLatest(who[t], snap[t]) /\ OwnSitting(t) /\ yearOpen
       THEN /\ Goto(t, "finish_write")
            /\ seq' = [seq EXCEPT ![t] = Latest(who[t])]
            /\ UNCHANGED <<who, snap, at>>
       ELSE Done(t)
    /\ UNCHANGED <<db, env, presence, editors, peak>>

\* finish: an unconditional write of finished_at alone, by key.
StampFinished(u, s) == [attempt[u][s] EXCEPT !.finished_at = now]

\* The submission; a room that submitted closes.
FinishWrite(t) ==
    /\ pc[t] = "finish_write"
    /\ IF Sat(who[t], seq[t])
       THEN /\ attempt' = [attempt EXCEPT ![who[t]][seq[t]] =
                             StampFinished(who[t], seq[t])]
            /\ IF t \in Sockets
               THEN /\ Goto(t, "leave")
                    /\ snap' = [snap EXCEPT ![t] = None]
                    /\ UNCHANGED <<who, seq, at>>
               ELSE Done(t)
       ELSE UNCHANGED attempt /\ Done(t)
    /\ UNCHANGED <<exam, answers, satTotal, revision, env, presence, editors,
                   peak>>

-----------------------------------------------------------------------------
(* The exam room. *)

\* attempt_ws: the exam is read and judged before the upgrade.
DoorRead(t, u) ==
    /\ pc[t] = "idle"
    /\ exam # None
    /\ Sittable(exam) /\ u \in admitted
    /\ Goto(t, "door")
    /\ who' = [who EXCEPT ![t] = u]
    /\ snap' = [snap EXCEPT ![t] = exam]
    /\ UNCHANGED <<db, env, presence, seq, at, editors, peak>>

\* attempt_ws: the sitting, the rejoin door and the year.
DoorGate(t) ==
    /\ pc[t] = "door"
    /\ LET u == who[t]
           n == Latest(u)
       IN IF /\ WritableLatest(u, snap[t])
             /\ RejoinOpen(attempt[u][n], snap[t])
             /\ yearOpen
          THEN /\ Goto(t, "enter")
               /\ seq' = [seq EXCEPT ![t] = n]
               /\ snap' = [snap EXCEPT ![t] = None]
               /\ UNCHANGED <<who, at>>
          ELSE Hangup(t)
    /\ UNCHANGED <<db, env, presence, editors, peak>>

\* Variant: presence as a flag, not a count.
EnterFlag(t) ==
    /\ pc[t] = "enter"
    /\ presence' = [presence EXCEPT ![who[t]][seq[t]] = 1]
    /\ Goto(t, "clear")
    /\ UNCHANGED <<db, env, locals, editors, peak>>

\* room: ExamPresence::enter, synchronous with the task's start.
Enter(t) ==
    /\ pc[t] = "enter"
    /\ presence' = [presence EXCEPT ![who[t]][seq[t]] = @ + 1]
    /\ Goto(t, "clear")
    /\ UNCHANGED <<db, env, locals, editors, peak>>

\* Variant: the whole row written back from the door's snapshot, which was
\* taken before any submission.
ClearLeftWholeRow(u, s) ==
    [attempt[u][s] EXCEPT !.left_at = None, !.finished_at = None]

\* set_left(None): writes left_at alone, whatever it was.
ClearLeft(u, s) == [attempt[u][s] EXCEPT !.left_at = None]

\* room: joining clears the walk-out marker; a missing row is only logged.
Clear(t) ==
    /\ pc[t] = "clear"
    /\ attempt' = IF Sat(who[t], seq[t])
                  THEN [attempt EXCEPT ![who[t]][seq[t]] =
                          ClearLeft(who[t], seq[t])]
                  ELSE attempt
    /\ Goto(t, "room")
    /\ UNCHANGED <<exam, answers, satTotal, revision, env, presence, locals,
                   editors, peak>>

\* Variant: the room watches the clock and not the submission.
PushStateClockOnly(t) ==
    /\ pc[t] \in {"room", "push"}
    /\ IF /\ exam # None
          /\ Sat(who[t], seq[t])
          /\ ~PastDeadline(attempt[who[t]][seq[t]], exam, now)
       THEN Goto(t, "room")
       ELSE Goto(t, "leave")
    /\ UNCHANGED <<db, env, presence, locals, editors, peak>>

\* push_state, on a tick or after a save: the room goes on only while its
\* exam and its sitting are there and the sitting is in progress.
PushState(t) ==
    /\ pc[t] \in {"room", "push"}
    /\ IF /\ exam # None
          /\ Sat(who[t], seq[t])
          /\ InProgress(attempt[who[t]][seq[t]], exam, now)
       THEN Goto(t, "room")
       ELSE Goto(t, "leave")
    /\ UNCHANGED <<db, env, presence, locals, editors, peak>>

\* The socket is gone: the client closed it, or the network did.
Gone(t) ==
    /\ pc[t] \in {"room", "push"}
    /\ Goto(t, "leave")
    /\ UNCHANGED <<db, env, presence, locals, editors, peak>>

\* ExamPresence::leave: counts the socket out; the last one out stamps.
Leave(t) ==
    /\ pc[t] = "leave"
    /\ LET left == presence[who[t]][seq[t]]
       IN /\ presence' = [presence EXCEPT ![who[t]][seq[t]] =
                            IF left > 1 THEN left - 1 ELSE 0]
          /\ IF left > 1 THEN Hangup(t) ELSE Goto(t, "stamp") /\ UNCHANGED locals
    /\ UNCHANGED <<db, env, editors, peak>>

\* The WHERE clause of stamp_left_if_running: a duration, when there is one,
\* is compared and the window's end is not.
Stampable(row, e, t) ==
    /\ row.left_at = None /\ row.finished_at = None
    /\ e.duration_ms # None => t < row.started_at + e.duration_ms
    /\ e.duration_ms = None /\ e.ends_at # None => t < e.ends_at

\* Its SET clause: left_at alone.
StampLeft(u, s) == [attempt[u][s] EXCEPT !.left_at = now]

\* stamp_left_if_running: one conditional statement, joined to the live exam.
Stamp(t) ==
    /\ pc[t] = "stamp"
    /\ LET u == who[t]
           s == seq[t]
       IN attempt' = IF /\ exam # None /\ Sat(u, s)
                        /\ Stampable(attempt[u][s], exam, now)
                     THEN [attempt EXCEPT ![u][s] = StampLeft(u, s)]
                     ELSE attempt
    /\ Hangup(t)
    /\ UNCHANGED <<exam, answers, satTotal, revision, env, presence, editors,
                   peak>>

-----------------------------------------------------------------------------
(* Staff: PATCH, question edits, delete. *)

EditorDone(e) ==
    /\ epc' = [epc EXCEPT ![e] = "idle"]
    /\ base' = [base EXCEPT ![e] = None]
    /\ patch' = [patch EXCEPT ![e] = None]
    /\ tries' = [tries EXCEPT ![e] = 0]

\* update_exam, then the first read of update's loop: the merge must be a
\* legal schedule.
PatchRequest(e, p) ==
    /\ epc[e] = "idle"
    /\ exam # None /\ yearOpen
    /\ NotPast(p, now)
    /\ ValidSchedule(Merge(exam, p))
    /\ epc' = [epc EXCEPT ![e] = "patch_gate"]
    /\ base' = [base EXCEPT ![e] = exam]
    /\ patch' = [patch EXCEPT ![e] = p]
    /\ tries' = [tries EXCEPT ![e] = Tries]
    /\ UNCHANGED <<db, env, presence, tasks, peak>>

Redraft(e) == Merge(base[e], patch[e]).draft /\ ~base[e].draft
ModeChanged(e) == Merge(base[e], patch[e]).mode # base[e].mode

\* update's gates, read outside any transaction: the mode is frozen and a
\* re-draft refused once somebody sat.
PatchGate(e) ==
    /\ epc[e] = "patch_gate"
    /\ IF (ModeChanged(e) \/ Redraft(e)) /\ AnySat
       THEN EditorDone(e)
       ELSE /\ epc' = [epc EXCEPT ![e] = "patch_check"]
            /\ UNCHANGED <<base, patch, tries>>
    /\ UNCHANGED <<db, env, presence, tasks, peak>>

\* update_if_unchanged's first statement: the re-draft gate again, in the
\* transaction but without a lock on the exam row.
PatchCheck(e) ==
    /\ epc[e] = "patch_check"
    /\ IF Redraft(e) /\ AnySat
       THEN EditorDone(e)
       ELSE /\ epc' = [epc EXCEPT ![e] = "patch_cas"]
            /\ UNCHANGED <<base, patch, tries>>
    /\ UNCHANGED <<db, env, presence, tasks, peak>>

\* Variant: the UPDATE names the exam by id alone.
UnchangedById(e) == TRUE

\* The UPDATE's WHERE: every replaced column still reads as the snapshot.
Unchanged(e) == exam = base[e]

RaisePeak(limit) ==
    IF peak = 0 \/ limit = 0 THEN 0 ELSE IF limit > peak THEN limit ELSE peak

\* The compare-and-set lands the whole merge.
PatchSave(e) ==
    /\ epc[e] = "patch_cas"
    /\ exam # None /\ Unchanged(e)
    /\ exam' = Merge(base[e], patch[e])
    /\ peak' = RaisePeak(exam'.max_attempts)
    /\ EditorDone(e)
    /\ UNCHANGED <<attempt, answers, satTotal, revision, env, presence, tasks>>

\* The row moved: re-read, re-merge, re-judge, or give up when the rounds are
\* spent, the exam is gone, the year closed or the merge no longer legal.
PatchRetry(e) ==
    /\ epc[e] = "patch_cas"
    /\ exam = None \/ ~Unchanged(e)
    /\ IF /\ tries[e] > 1 /\ exam # None /\ yearOpen
          /\ ValidSchedule(Merge(exam, patch[e]))
       THEN /\ epc' = [epc EXCEPT ![e] = "patch_gate"]
            /\ base' = [base EXCEPT ![e] = exam]
            /\ tries' = [tries EXCEPT ![e] = @ - 1]
            /\ UNCHANGED patch
       ELSE EditorDone(e)
    /\ UNCHANGED <<db, env, presence, tasks, peak>>

\* A question edit's pre-flight, ensure_questions_editable.
QuestionRequest(e) ==
    /\ epc[e] = "idle"
    /\ exam # None /\ yearOpen /\ ~AnySat
    /\ revision < MaxRevision
    /\ epc' = [epc EXCEPT ![e] = "question"]
    /\ UNCHANGED <<db, env, presence, tasks, base, patch, tries, peak>>

\* Variant: the write trusts the pre-flight's look at the sittings.
FreezeGateExistsOnly == exam # None

\* freeze_gate, on the locked row of a live exam: nobody has started it.
FreezeGate == exam # None /\ ~AnySat

\* A question create, update or delete: the gate and the write in one
\* transaction.
QuestionWrite(e) ==
    /\ epc[e] = "question"
    /\ revision' = IF FreezeGate /\ revision < MaxRevision
                   THEN revision + 1 ELSE revision
    /\ EditorDone(e)
    /\ UNCHANGED <<exam, attempt, answers, satTotal, env, presence, tasks, peak>>

\* A delete's pre-flight: the exam is there and its year open.
DeleteRequest(e) ==
    /\ epc[e] = "idle"
    /\ exam # None /\ yearOpen
    /\ epc' = [epc EXCEPT ![e] = "delete"]
    /\ UNCHANGED <<db, env, presence, tasks, base, patch, tries, peak>>

\* delete: the exam row locked (gone: 404), then the cascade over every
\* sitting and answer; the lifetime counter is not given back.
DeleteExam(e) ==
    /\ epc[e] = "delete"
    /\ IF exam # None
       THEN /\ exam' = None
            /\ attempt' = [u \in Students |-> [s \in Seqs |-> None]]
            /\ answers' = [u \in Students |-> {}]
       ELSE UNCHANGED <<exam, attempt, answers>>
    /\ EditorDone(e)
    /\ UNCHANGED <<satTotal, revision, env, presence, tasks, peak>>

-----------------------------------------------------------------------------
(* The surroundings. *)

ClockTick ==
    /\ now < MaxTime
    /\ now' = now + 1
    /\ UNCHANGED <<db, admitted, yearOpen, presence, tasks, editors, peak>>

\* Enrolment and role move under a running sitting.
ToggleAdmission(u) ==
    /\ admitted' = IF u \in admitted THEN admitted \ {u} ELSE admitted \cup {u}
    /\ UNCHANGED <<db, yearOpen, now, presence, tasks, editors, peak>>

\* The academic year is archived, or reopened.
ToggleYear ==
    /\ yearOpen' = ~yearOpen
    /\ UNCHANGED <<db, admitted, now, presence, tasks, editors, peak>>

\* The process restarts: every task and the presence map are gone, the rows
\* stay.
Restart ==
    /\ presence' = [u \in Students |-> [s \in Seqs |-> 0]]
    /\ pc' = [t \in Tasks |-> "idle"]
    /\ who' = [t \in Tasks |-> None]
    /\ snap' = [t \in Tasks |-> None]
    /\ seq' = [t \in Tasks |-> 0]
    /\ at' = [t \in Tasks |-> 0]
    /\ epc' = [e \in Editors |-> "idle"]
    /\ base' = [e \in Editors |-> None]
    /\ patch' = [e \in Editors |-> None]
    /\ tries' = [e \in Editors |-> 0]
    /\ UNCHANGED <<db, env, peak>>

-----------------------------------------------------------------------------
Init ==
    /\ exam \in InitExams
    /\ attempt = [u \in Students |-> [s \in Seqs |-> None]]
    /\ answers = [u \in Students |-> {}]
    /\ satTotal = [u \in Students |-> 0]
    /\ revision = 0
    /\ admitted = Students
    /\ yearOpen = TRUE
    /\ now = 0
    /\ presence = [u \in Students |-> [s \in Seqs |-> 0]]
    /\ pc = [t \in Tasks |-> "idle"]
    /\ who = [t \in Tasks |-> None]
    /\ snap = [t \in Tasks |-> None]
    /\ seq = [t \in Tasks |-> 0]
    /\ at = [t \in Tasks |-> 0]
    /\ epc = [e \in Editors |-> "idle"]
    /\ base = [e \in Editors |-> None]
    /\ patch = [e \in Editors |-> None]
    /\ tries = [e \in Editors |-> 0]
    /\ peak = exam.max_attempts

RequestStep(t) ==
    \/ \E u \in Students : StartGate(t, u)
    \/ StartList(t)
    \/ StartCreate(t)
    \/ \E u \in Students : SaveRequest(t, u)
    \/ \E u \in Students : FinishRequest(t, u)

WriteStep(t) ==
    \/ SaveGate(t) \/ SaveWrite(t) \/ FinishGate(t) \/ FinishWrite(t)

RoomStep(t) ==
    \/ \E u \in Students : DoorRead(t, u)
    \/ DoorGate(t) \/ Enter(t) \/ Clear(t)
    \/ SaveFrame(t) \/ FinishFrame(t)
    \/ PushState(t) \/ Gone(t) \/ Leave(t) \/ Stamp(t)

EditorStep(e) ==
    \/ \E p \in Patches : PatchRequest(e, p)
    \/ PatchGate(e) \/ PatchCheck(e) \/ PatchSave(e) \/ PatchRetry(e)
    \/ QuestionRequest(e) \/ QuestionWrite(e)
    \/ DeleteRequest(e) \/ DeleteExam(e)

EnvStep ==
    \/ ClockTick
    \/ \E u \in Students : ToggleAdmission(u)
    \/ ToggleYear
    \/ Restart

Next ==
    \/ \E t \in Requests : RequestStep(t)
    \/ \E t \in Tasks : WriteStep(t)
    \/ \E t \in Sockets : RoomStep(t)
    \/ \E e \in Editors : EditorStep(e)
    \/ EnvStep

Spec == Init /\ [][Next]_vars

\* A suspended task is polled again once its statement returns (weak
\* fairness), and the room's select! polls its branches in random order, so a
\* stream of frames cannot hold the interval's tick off for ever (strong
\* fairness).
Fairness ==
    \A t \in Sockets :
        /\ WF_vars(Clear(t))
        /\ WF_vars(WriteStep(t))
        /\ SF_vars(PushState(t))
        /\ WF_vars(Leave(t))

FairSpec == Spec /\ Fairness

-----------------------------------------------------------------------------
(* What the sitting paths promise. *)

DbType ==
    /\ exam \in ExamRow \cup {None}
    /\ attempt \in [Students -> [Seqs -> AttemptRow \cup {None}]]
    /\ answers \in [Students -> SUBSET Seqs]
    /\ satTotal \in [Students -> Nat]
    /\ revision \in 0 .. MaxRevision

EnvType ==
    /\ admitted \subseteq Students
    /\ yearOpen \in BOOLEAN
    /\ now \in Time
    /\ presence \in [Students -> [Seqs -> Nat]]
    /\ peak \in Nat

TaskType ==
    /\ pc \in [Tasks -> TaskPCs]
    /\ who \in [Tasks -> Students \cup {None}]
    /\ snap \in [Tasks -> ExamRow \cup {None}]
    /\ seq \in [Tasks -> 0 .. MaxSeq]
    /\ at \in [Tasks -> Time]

EditorType ==
    /\ epc \in [Editors -> EditorPCs]
    /\ base \in [Editors -> ExamRow \cup {None}]
    /\ patch \in [Editors -> Patch \cup {None}]
    /\ tries \in [Editors -> 0 .. Tries]

\* Every variable keeps its shape; the retry budget never runs below zero and
\* no sitting is ever counted out more often than in (update's loop,
\* ExamPresence).
TypeOK == DbType /\ EnvType /\ TaskType /\ EditorType

\* A student's sittings are numbered 1, 2, ... with no gap and no repeat, and
\* none outlives its exam: starts racing each other, a retake, and the
\* delete cascade (start, create, delete) never leave a hole or an orphan row.
SittingsContiguous ==
    /\ \A u \in Students, s \in Seqs :
          Sat(u, s) => \A r \in 1 .. s : Sat(u, r)
    /\ exam = None => ~AnySat

\* exam_sat_total counts exams sat and not sittings: it moves once, with the
\* first sitting's row, whatever starts collide on that key, and stays when
\* the exam is deleted (create_in).
SatCountedOnce ==
    \A u \in Students :
        /\ satTotal[u] <= 1
        /\ exam # None => (satTotal[u] = 1 <=> Sat(u, 1))

\* No student ever holds more sittings than the most generous limit the exam
\* has had: concurrent starts that all counted the same rows cannot overshoot
\* it, and lowering it takes nothing away (allows_another, create).
LimitHolds ==
    \A u \in Students, s \in Seqs : Sat(u, s) => peak = 0 \/ s <= peak

\* A saved answer belongs to a sitting that exists: a save that passed its
\* gates before the delete cascade ran leaves no orphan behind (save_in).
NoOrphanAnswers ==
    \A u \in Students : \A s \in answers[u] : Sat(u, s)

\* The presence map counts exactly the sockets inside each room, so only a
\* real last-out is told it is the last one (ExamPresence::enter, leave).
InRoom(u, s) ==
    {t \in Sockets : pc[t] \in RoomPCs /\ who[t] = u /\ seq[t] = s}

PresenceExact ==
    \A u \in Students, s \in Seqs :
        presence[u][s] = Cardinality(InRoom(u, s))

\* While its exam lives a sitting is never taken away, its clock never
\* restarts and a submission is never undone, whatever the room's join and
\* teardown write meanwhile (set_left, finish, stamp_left_if_running).
SittingStands(u, s) ==
    exam' # None /\ Sat(u, s) =>
        /\ Sat(u, s)'
        /\ attempt'[u][s].started_at = attempt[u][s].started_at
        /\ attempt[u][s].finished_at # None => attempt'[u][s].finished_at # None

SittingsStand == [][\A u \in Students, s \in Seqs : SittingStands(u, s)]_vars

\* The questions never change under a sitting: an edit whose pre-flight saw
\* none is refused by the locked freeze gate once a start has slipped in.
QuestionsFrozen == [][AnySat => revision' = revision]_vars

\* A PATCH changes the fields it names and reverts no other: two of them that
\* read the same row both survive (update_if_unchanged).
OnlyNamed(p) ==
    /\ p.draft = Keep => exam'.draft = exam.draft
    /\ p.mode = Keep => exam'.mode = exam.mode
    /\ p.starts_at = Keep => exam'.starts_at = exam.starts_at
    /\ p.ends_at = Keep => exam'.ends_at = exam.ends_at
    /\ p.duration_ms = Keep => exam'.duration_ms = exam.duration_ms
    /\ p.max_attempts = Keep => exam'.max_attempts = exam.max_attempts
    /\ p.allow_rejoin = Keep => exam'.allow_rejoin = exam.allow_rejoin

PatchesCompose ==
    [][\A e \in Editors :
         /\ epc[e] = "patch_cas" /\ epc'[e] = "idle"
         /\ exam # None /\ exam' # None
         => OnlyNamed(patch[e])]_vars

\* A room acts on the sitting it was opened for and on no other: a stale tab
\* can neither write into nor submit a retake it never hosted
\* (writable_room_attempt).
RoomBoundToSitting ==
    [][\A t \in Sockets :
         pc[t] \in RoomPCs /\ pc'[t] \in RoomPCs
         => who'[t] = who[t] /\ seq'[t] = seq[t]]_vars

\* A room does not outlast its sitting: once it is submitted (from the room,
\* another tab or REST), out of time, or gone with its exam, a later tick's
\* push_state sees it and the room is left, however many frames keep coming.
Over(u, s) ==
    \/ exam = None
    \/ ~Sat(u, s)
    \/ ~InProgress(attempt[u][s], exam, now)

RoomEndsWithSitting ==
    \A t \in Sockets, u \in Students, s \in Seqs :
        t \in InRoom(u, s) /\ Over(u, s) ~> t \notin InRoom(u, s) \/ ~Over(u, s)
=============================================================================
