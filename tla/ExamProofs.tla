----------------------------- MODULE ExamProofs ------------------------------
(***************************************************************************)
(* What the runs of ExamSitting and of ExamGrading check on small          *)
(* instances, for every number of students, requests, sockets, staff,      *)
(* exams, graders and kinds, and every PATCH.                              *)
(*                                                                         *)
(* Sittings first.  None of the safety invariants is inductive alone: a    *)
(* start inserts at the seq it chose before its transaction, a save writes *)
(* at the seq it read, a retry merges over a row it kept.  TaskOK and      *)
(* EditorOK say what a suspended request may still rely on.  Grading has   *)
(* its own specification and its own induction, in the second half.        *)
(***************************************************************************)
EXTENDS ExamSitting, ExamGrading, FiniteSetTheorems, WellFoundedInduction, TLAPS

\* The limit n stands within the most generous one so far.
Covered(n) == peak = 0 \/ (n # 0 /\ n <= peak)

\* What a suspended task may rely on.
TaskOK(t) ==
    /\ pc[t] # "idle" => who[t] \in Students
    /\ pc[t] \in {"start_list", "save_gate", "finish_gate", "door"}
          => snap[t] \in ExamRow
    /\ pc[t] = "start_list" => Covered(snap[t].max_attempts)
    /\ pc[t] \in {"start_create", "save_write", "finish_write", "enter",
                  "clear", "room", "push", "leave", "stamp"}
          => seq[t] \in Seqs
    /\ t \in Sockets /\ pc[t] \in RoomPCs => seq[t] \in Seqs
    /\ pc[t] = "start_create" =>
          /\ Covered(seq[t])
          /\ exam # None => \A r \in Seqs : r < seq[t] => Sat(who[t], r)
    /\ pc[t] = "save_write" /\ exam # None => Sat(who[t], seq[t])

\* What a suspended staff request may rely on.
EditorOK(e) ==
    epc[e] \in {"patch_gate", "patch_check", "patch_cas"} =>
        base[e] \in ExamRow /\ patch[e] \in Patch /\ tries[e] \in 1 .. Tries

ExamCovered == exam # None => Covered(exam.max_attempts)

TaskInv == \A t \in Tasks : TaskOK(t)
EditorInv == \A e \in Editors : EditorOK(e)

\* What the tables promise together.
DbInv ==
    /\ SittingsContiguous
    /\ SatCountedOnce
    /\ LimitHolds
    /\ NoOrphanAnswers
    /\ ExamCovered

IndInv == TypeOK /\ DbInv /\ TaskInv /\ EditorInv

\* A step that starts and drops no sitting and leaves the exam alone.
Quiet ==
    /\ UNCHANGED <<exam, answers, satTotal, peak>>
    /\ \A u \in Students, s \in Seqs : Sat(u, s)' <=> Sat(u, s)

\* While the exam lives sittings only appear, and its peak limit only rises.
Grow ==
    /\ exam' # None =>
          /\ exam # None
          /\ \A u \in Students, s \in Seqs : Sat(u, s) => Sat(u, s)'
    /\ peak' = 0 \/ (peak # 0 /\ peak <= peak')

-----------------------------------------------------------------------------
(* The reads of table exam_attempt. *)

\* Every nonempty set of naturals has a least element.
LEMMA LeastNatural ==
    ASSUME NEW T, T \subseteq Nat, T # {}
    PROVE  \E n \in T : \A m \in T : n <= m
<1>1. PICK n \in T : \A m \in T : ~(<<m, n>> \in OpToRel(<, Nat))
    BY WFMin, NatLessThanWellFounded
<1>2. \A m \in T : ~(m < n)
    BY <1>1 DEF OpToRel
<1> QED
    BY <1>2

\* read_latest_for_user answers with the highest sitting there is, and with
\* none exactly when there is none.
LEMMA LatestIsHighest ==
    ASSUME NEW u \in Students
    PROVE  /\ Latest(u) \in 0 .. MaxSeq
           /\ Latest(u) # 0 => Sat(u, Latest(u))
           /\ \A s \in Seqs : s > Latest(u) => ~Sat(u, s)
<1> DEFINE T == {n \in 0 .. MaxSeq : \A s \in Seqs : s > n => ~Sat(u, s)}
<1>1. MaxSeq \in T
    BY SittingAssumption DEF Seqs
<1>2. PICK n \in T : \A m \in T : n <= m
    <2>1. T \subseteq Nat /\ T # {}
        BY <1>1, SittingAssumption
    <2> HIDE DEF T
    <2> QED
        BY <2>1, LeastNatural
<1>3. n # 0 => Sat(u, n)
    <2> SUFFICES ASSUME n # 0, ~Sat(u, n) PROVE FALSE
        OBVIOUS
    <2>1. n - 1 \in 0 .. MaxSeq
        BY SittingAssumption
    <2>2. \A s \in Seqs : s > n - 1 => ~Sat(u, s)
        BY SittingAssumption DEF Seqs
    <2> QED
        BY <1>2, <2>1, <2>2
<1> QED
    BY <1>2, <1>3 DEF Latest

\* attempts_used is the latest sitting's number, since they have no gap.
LEMMA UsedIsLatest ==
    ASSUME SittingsContiguous, NEW u \in Students
    PROVE  Used(u) = Latest(u)
<1>1. /\ Latest(u) \in 0 .. MaxSeq
      /\ Latest(u) # 0 => Sat(u, Latest(u))
      /\ \A s \in Seqs : s > Latest(u) => ~Sat(u, s)
    BY LatestIsHighest
<1>2. {s \in Seqs : Sat(u, s)} = 1 .. Latest(u)
    BY <1>1, SittingAssumption DEF SittingsContiguous, Seqs
<1>3. Latest(u) \in Nat
    BY <1>1, SittingAssumption
<1>4. Cardinality(1 .. Latest(u)) = Latest(u)
    <2>1. \A n \in Nat : Cardinality(1 .. n) = IF 1 > n THEN 0 ELSE n - 1 + 1
        BY FS_Interval
    <2> QED
        BY <1>3, <2>1
<1> QED
    BY <1>2, <1>4 DEF Used

\* A merged row is a row.
LEMMA MergeIsRow ==
    ASSUME NEW e \in ExamRow, NEW p \in Patch
    PROVE  Merge(e, p) \in ExamRow
BY DEF Merge, Set, ExamRow, Patch

-----------------------------------------------------------------------------
(* Type correctness. *)

\* A task that ends, or a room that goes back to its loop, keeps the shape of
\* the tasks' locals.
LEMMA DoneTyped ==
    ASSUME TaskType, NEW t \in Tasks, Done(t)
    PROVE  TaskType'
<1> USE SittingAssumption, TimeAssumption
    DEF TaskType, Goto, TaskPCs, RequestPCs, RoomPCs, Time
<1>1. CASE t \in Sockets
    BY <1>1 DEF Done
<1>2. CASE t \notin Sockets
    BY <1>2 DEF Done
<1> QED
    BY <1>1, <1>2

\* So does a socket that hangs up.
LEMMA HangupTyped ==
    ASSUME TaskType, NEW t \in Tasks, Hangup(t)
    PROVE  TaskType'
BY SittingAssumption DEF Hangup, TaskType, Goto, TaskPCs, RequestPCs, RoomPCs

\* A write of one sitting's row keeps the shape of table exam_attempt.
LEMMA SittingTyped ==
    ASSUME DbType, NEW u, NEW s, NEW row \in AttemptRow \cup {None}
    PROVE  [attempt EXCEPT ![u][s] = row]
              \in [Students -> [Seqs -> AttemptRow \cup {None}]]
BY DEF DbType

\* The columns a room or a submission writes keep a sitting's row a row.
LEMMA RowTyped ==
    ASSUME DbType, EnvType, NEW u \in Students, NEW s \in Seqs, Sat(u, s)
    PROVE  /\ StampLeft(u, s) \in AttemptRow
           /\ ClearLeft(u, s) \in AttemptRow
           /\ StampFinished(u, s) \in AttemptRow
<1> DEFINE row == attempt[u][s]
<1>1. row \in AttemptRow
    BY DEF Sat, DbType
<1>2. now \in Time
    BY DEF EnvType
<1> HIDE DEF row
<1>3. /\ [row EXCEPT !.left_at = now] \in AttemptRow
      /\ [row EXCEPT !.left_at = None] \in AttemptRow
      /\ [row EXCEPT !.finished_at = now] \in AttemptRow
    BY <1>1, <1>2 DEF AttemptRow
<1> QED
    BY <1>3 DEF row, StampLeft, ClearLeft, StampFinished

\* One step of any handler keeps every variable's shape, given what suspended
\* requests may rely on.
LEMMA TypeStep ==
    ASSUME TypeOK, TaskInv, EditorInv, [Next]_vars
    PROVE  TypeOK'
<1> USE SittingAssumption, TimeAssumption
    DEF db, env, tasks, locals, editors, Goto, TypeOK
<1> USE DEF TaskPCs, RequestPCs, RoomPCs
<1>1. ASSUME NEW t \in Requests, NEW u \in Students, StartGate(t, u)
      PROVE  TypeOK'
    BY <1>1 DEF StartGate, Tasks, DbType, EnvType, TaskType, EditorType
<1>2. ASSUME NEW t \in Requests, StartList(t)
      PROVE  TypeOK'
    <2>1. t \in Tasks /\ who[t] \in Students
        BY <1>2 DEF StartList, Tasks, TaskInv, TaskOK
    <2>2. Latest(who[t]) \in 0 .. MaxSeq
        BY <2>1, LatestIsHighest
    <2>3. TaskType'
        BY <1>2, <2>1, <2>2, DoneTyped DEF StartList, TaskType, EnvType
    <2> QED
        BY <1>2, <2>3 DEF StartList, DbType, EnvType, EditorType
<1>3. ASSUME NEW t \in Requests, StartCreate(t)
      PROVE  TypeOK'
    <2>1. t \in Tasks /\ at[t] \in Time
        BY DEF Tasks, TaskType
    <2>2. [started_at |-> at[t], finished_at |-> None, left_at |-> None]
             \in AttemptRow \cup {None}
        BY <2>1 DEF AttemptRow
    <2>3. DbType'
        BY <1>3, <2>2, SittingTyped DEF StartCreate, CreateIn, DbType
    <2>4. TaskType'
        BY <1>3, <2>1, DoneTyped DEF StartCreate
    <2> QED
        BY <1>3, <2>3, <2>4 DEF StartCreate, EnvType, EditorType
<1>4. ASSUME NEW t \in Requests, NEW u \in Students, SaveRequest(t, u)
      PROVE  TypeOK'
    BY <1>4 DEF SaveRequest, Tasks, DbType, EnvType, TaskType, EditorType
<1>5. ASSUME NEW t \in Requests, NEW u \in Students, FinishRequest(t, u)
      PROVE  TypeOK'
    BY <1>5 DEF FinishRequest, Tasks, DbType, EnvType, TaskType, EditorType
<1>6. ASSUME NEW t \in Tasks, SaveGate(t)
      PROVE  TypeOK'
    <2>1. Latest(who[t]) \in 0 .. MaxSeq
        BY <1>6, LatestIsHighest DEF SaveGate, TaskInv, TaskOK
    <2>2. TaskType'
        BY <1>6, <2>1, DoneTyped DEF SaveGate, TaskType
    <2> QED
        BY <1>6, <2>2 DEF SaveGate, DbType, EnvType, EditorType
<1>7. ASSUME NEW t \in Tasks, SaveWrite(t)
      PROVE  TypeOK'
    <2>1. who[t] \in Students /\ seq[t] \in Seqs
        BY <1>7 DEF SaveWrite, TaskInv, TaskOK
    <2>2. DbType'
        BY <1>7, <2>1 DEF SaveWrite, DbType
    <2>3. TaskType'
        BY <1>7, DoneTyped DEF SaveWrite, TaskType
    <2> QED
        BY <1>7, <2>2, <2>3 DEF SaveWrite, EnvType, EditorType
<1>8. ASSUME NEW t \in Tasks, FinishGate(t)
      PROVE  TypeOK'
    <2>1. Latest(who[t]) \in 0 .. MaxSeq
        BY <1>8, LatestIsHighest DEF FinishGate, TaskInv, TaskOK
    <2>2. TaskType'
        BY <1>8, <2>1, DoneTyped DEF FinishGate, TaskType
    <2> QED
        BY <1>8, <2>2 DEF FinishGate, DbType, EnvType, EditorType
<1>9. ASSUME NEW t \in Tasks, FinishWrite(t)
      PROVE  TypeOK'
    <2>1. who[t] \in Students /\ seq[t] \in Seqs
        BY <1>9 DEF FinishWrite, TaskInv, TaskOK
    <2>2. Sat(who[t], seq[t]) => StampFinished(who[t], seq[t]) \in AttemptRow
        BY <2>1, RowTyped
    <2>3. DbType'
        BY <1>9, <2>2, SittingTyped DEF FinishWrite, DbType
    <2>4. TaskType'
        BY <1>9, DoneTyped DEF FinishWrite, TaskType
    <2> QED
        BY <1>9, <2>3, <2>4 DEF FinishWrite, EnvType, EditorType
<1>10. ASSUME NEW t \in Sockets, NEW u \in Students, DoorRead(t, u)
      PROVE  TypeOK'
    BY <1>10 DEF DoorRead, Tasks, DbType, EnvType, TaskType, EditorType
<1>11. ASSUME NEW t \in Sockets, DoorGate(t)
      PROVE  TypeOK'
    <2>1. t \in Tasks /\ who[t] \in Students
        BY <1>11 DEF DoorGate, Tasks, TaskInv, TaskOK
    <2>2. Latest(who[t]) \in 0 .. MaxSeq
        BY <2>1, LatestIsHighest
    <2>3. TaskType'
        BY <1>11, <2>1, <2>2, HangupTyped DEF DoorGate, TaskType
    <2> QED
        BY <1>11, <2>3 DEF DoorGate, DbType, EnvType, EditorType
<1>12. ASSUME NEW t \in Sockets, Enter(t)
      PROVE  TypeOK'
    <2>1. t \in Tasks /\ who[t] \in Students /\ seq[t] \in Seqs
        BY <1>12 DEF Enter, Tasks, TaskInv, TaskOK
    <2> QED
        BY <1>12, <2>1 DEF Enter, DbType, EnvType, TaskType, EditorType
<1>13. ASSUME NEW t \in Sockets, Clear(t)
      PROVE  TypeOK'
    <2>1. t \in Tasks /\ who[t] \in Students /\ seq[t] \in Seqs
        BY <1>13 DEF Clear, Tasks, TaskInv, TaskOK
    <2>2. Sat(who[t], seq[t]) => ClearLeft(who[t], seq[t]) \in AttemptRow
        BY <2>1, RowTyped
    <2>3. DbType'
        BY <1>13, <2>2, SittingTyped DEF Clear, DbType
    <2> QED
        BY <1>13, <2>1, <2>3 DEF Clear, EnvType, TaskType, EditorType
<1>14. ASSUME NEW t \in Sockets, SaveFrame(t)
      PROVE  TypeOK'
    BY <1>14 DEF SaveFrame, Tasks, DbType, EnvType, TaskType, EditorType
<1>15. ASSUME NEW t \in Sockets, FinishFrame(t)
      PROVE  TypeOK'
    BY <1>15 DEF FinishFrame, Tasks, DbType, EnvType, TaskType, EditorType
<1>16. ASSUME NEW t \in Sockets, PushState(t) \/ Gone(t)
      PROVE  TypeOK'
    BY <1>16 DEF PushState, Gone, Tasks, DbType, EnvType, TaskType, EditorType
<1>17. ASSUME NEW t \in Sockets, Leave(t)
      PROVE  TypeOK'
    <2>1. t \in Tasks /\ who[t] \in Students /\ seq[t] \in Seqs
        BY <1>17 DEF Leave, Tasks, TaskInv, TaskOK
    <2>2. presence[who[t]][seq[t]] \in Nat
        BY <2>1 DEF EnvType
    <2>3. presence' \in [Students -> [Seqs -> Nat]]
        BY <1>17, <2>1, <2>2 DEF Leave, EnvType
    <2>4. TaskType'
        BY <1>17, <2>1, HangupTyped DEF Leave, TaskType
    <2> QED
        BY <1>17, <2>3, <2>4 DEF Leave, DbType, EnvType, EditorType
<1>18. ASSUME NEW t \in Sockets, Stamp(t)
      PROVE  TypeOK'
    <2>1. t \in Tasks /\ who[t] \in Students /\ seq[t] \in Seqs
        BY <1>18 DEF Stamp, Tasks, TaskInv, TaskOK
    <2>2. Sat(who[t], seq[t]) => StampLeft(who[t], seq[t]) \in AttemptRow
        BY <2>1, RowTyped
    <2>4. DbType'
        BY <1>18, <2>2, SittingTyped DEF Stamp, DbType
    <2>5. TaskType'
        BY <1>18, <2>1, HangupTyped DEF Stamp
    <2> QED
        BY <1>18, <2>4, <2>5 DEF Stamp, EnvType, EditorType
<1>19. ASSUME NEW e \in Editors, NEW p \in Patches, PatchRequest(e, p)
      PROVE  TypeOK'
    BY <1>19 DEF PatchRequest, EditorPCs, DbType, EnvType, TaskType, EditorType
<1>20. ASSUME NEW e \in Editors, PatchGate(e) \/ PatchCheck(e)
      PROVE  TypeOK'
    <2>1. EditorType'
        BY <1>20 DEF PatchGate, PatchCheck, EditorDone, EditorPCs, EditorType
    <2> QED
        BY <1>20, <2>1 DEF PatchGate, PatchCheck, DbType, EnvType, TaskType
<1>21. ASSUME NEW e \in Editors, PatchSave(e)
      PROVE  TypeOK'
    <2>1. base[e] \in ExamRow /\ patch[e] \in Patch
        BY <1>21 DEF PatchSave, EditorInv, EditorOK
    <2>2. exam' \in ExamRow
        BY <1>21, <2>1, MergeIsRow DEF PatchSave
    <2>3. exam'.max_attempts \in Nat
        BY <2>2 DEF ExamRow
    <2>4. peak' \in Nat
        BY <1>21, <2>3 DEF PatchSave, RaisePeak, EnvType
    <2>5. EditorType'
        BY <1>21 DEF PatchSave, EditorDone, EditorPCs, EditorType
    <2> QED
        BY <1>21, <2>2, <2>4, <2>5 DEF PatchSave, DbType, EnvType, TaskType
<1>22. ASSUME NEW e \in Editors, PatchRetry(e)
      PROVE  TypeOK'
    <2>1. CASE EditorDone(e)
        BY <1>22, <2>1 DEF PatchRetry, EditorDone, EditorPCs, DbType, EnvType,
                           TaskType, EditorType
    <2>2. ASSUME ~EditorDone(e)
          PROVE  EditorType'
        <3>1. /\ exam # None /\ tries[e] > 1
              /\ epc' = [epc EXCEPT ![e] = "patch_gate"]
              /\ base' = [base EXCEPT ![e] = exam]
              /\ tries' = [tries EXCEPT ![e] = tries[e] - 1]
              /\ UNCHANGED patch
            BY <1>22, <2>2 DEF PatchRetry
        <3>2. tries[e] - 1 \in 0 .. Tries
            BY <3>1 DEF EditorType
        <3> QED
            BY <3>1, <3>2 DEF EditorPCs, EditorType, DbType
    <2> QED
        BY <1>22, <2>1, <2>2 DEF PatchRetry, DbType, EnvType, TaskType
<1>23. ASSUME NEW e \in Editors, QuestionRequest(e) \/ DeleteRequest(e)
      PROVE  TypeOK'
    BY <1>23 DEF QuestionRequest, DeleteRequest, EditorPCs, DbType, EnvType,
                 TaskType, EditorType
<1>24. ASSUME NEW e \in Editors, QuestionWrite(e)
      PROVE  TypeOK'
    <2>1. EditorType'
        BY <1>24 DEF QuestionWrite, EditorDone, EditorPCs, EditorType
    <2> QED
        BY <1>24, <2>1 DEF QuestionWrite, DbType, EnvType, TaskType
<1>25. ASSUME NEW e \in Editors, DeleteExam(e)
      PROVE  TypeOK'
    <2>1. EditorType'
        BY <1>25 DEF DeleteExam, EditorDone, EditorPCs, EditorType
    <2> QED
        BY <1>25, <2>1 DEF DeleteExam, DbType, EnvType, TaskType
<1>26. CASE EnvStep
    <2>1. CASE ClockTick
        BY <2>1 DEF ClockTick, Time, DbType, EnvType, TaskType, EditorType
    <2>2. ASSUME NEW u \in Students, ToggleAdmission(u)
          PROVE  TypeOK'
        BY <2>2 DEF ToggleAdmission, DbType, EnvType, TaskType, EditorType
    <2>3. CASE ToggleYear
        BY <2>3 DEF ToggleYear, DbType, EnvType, TaskType, EditorType
    <2>4. CASE Restart
        BY <2>4 DEF Restart, Time, EditorPCs, DbType, EnvType, TaskType,
                    EditorType
    <2> QED
        BY <1>26, <2>1, <2>2, <2>3, <2>4 DEF EnvStep
<1>27. CASE UNCHANGED vars
    BY <1>27 DEF vars, DbType, EnvType, TaskType, EditorType
<1> QED
    BY <1>1, <1>2, <1>3, <1>4, <1>5, <1>6, <1>7, <1>8, <1>9, <1>10, <1>11,
       <1>12, <1>13, <1>14, <1>15, <1>16, <1>17, <1>18, <1>19, <1>20, <1>21,
       <1>22, <1>23, <1>24, <1>25, <1>26, <1>27
       DEF Next, RequestStep, WriteStep, RoomStep, EditorStep

-----------------------------------------------------------------------------
(* The tables. *)

\* Writing a row at one key makes that key sat and changes no other.
LEMMA RowWritten ==
    ASSUME DbType, NEW u \in Students, NEW s \in Seqs, NEW row \in AttemptRow,
           attempt' = [attempt EXCEPT ![u][s] = row]
    PROVE  \A v \in Students, r \in Seqs :
              Sat(v, r)' <=> (Sat(v, r) \/ (v = u /\ r = s))
BY NoneAssumption DEF DbType, Sat

\* A quiet step keeps every promise of the tables.
LEMMA QuietKeeps ==
    ASSUME TypeOK, DbInv, Quiet
    PROVE  DbInv' /\ Grow
<1> USE SittingAssumption DEF Quiet, Seqs
<1>1. SittingsContiguous'
    BY DEF DbInv, SittingsContiguous, AnySat
<1>2. SatCountedOnce'
    BY DEF DbInv, SatCountedOnce
<1>3. LimitHolds'
    BY DEF DbInv, LimitHolds
<1>4. NoOrphanAnswers'
    BY DEF DbInv, NoOrphanAnswers, TypeOK, DbType
<1>5. ExamCovered'
    BY DEF DbInv, ExamCovered, Covered
<1>6. Grow
    BY DEF Grow, TypeOK, EnvType
<1> QED
    BY <1>1, <1>2, <1>3, <1>4, <1>5, <1>6 DEF DbInv

\* The start's transaction: the row it inserts closes no gap it did not find
\* closed, counts once, and stays within the peak limit.
LEMMA StartCreateKeeps ==
    ASSUME IndInv, NEW t \in Requests, StartCreate(t)
    PROVE  DbInv' /\ Grow
<1> DEFINE u == who[t]
           s == seq[t]
<1>1. t \in Tasks /\ pc[t] = "start_create"
    BY DEF Tasks, StartCreate
<1>2. /\ u \in Students /\ s \in Seqs /\ Covered(s)
      /\ exam # None => \A r \in Seqs : r < s => Sat(u, r)
    BY <1>1 DEF IndInv, TaskInv, TaskOK
<1>3. UNCHANGED <<exam, answers, peak>>
    BY DEF StartCreate
<1>4. CASE ~(GuardStart(t) /\ ~Sat(u, s))
    <2>1. UNCHANGED <<attempt, satTotal>>
        BY <1>4 DEF StartCreate
    <2>2. Quiet
        BY <1>3, <2>1 DEF Quiet, Sat
    <2> QED
        BY <2>2, QuietKeeps DEF IndInv
<1>5. CASE GuardStart(t) /\ ~Sat(u, s)
    <2>1. exam # None
        BY <1>5 DEF GuardStart
    <2>2. at[t] \in Time
        BY <1>1 DEF IndInv, TypeOK, TaskType
    <2> DEFINE row == [started_at |-> at[t], finished_at |-> None,
                       left_at |-> None]
    <2>3. row \in AttemptRow
        BY <2>2 DEF AttemptRow
    <2>4. /\ attempt' = [attempt EXCEPT ![u][s] = row]
          /\ satTotal' = [satTotal EXCEPT ![u] = @ + (IF s = 1 THEN 1 ELSE 0)]
        BY <1>5 DEF StartCreate, CreateIn
    <2> HIDE DEF row, u, s
    <2>5. \A v \in Students, r \in Seqs :
             Sat(v, r)' <=> (Sat(v, r) \/ (v = u /\ r = s))
        BY <1>2, <2>3, <2>4, RowWritten DEF IndInv, TypeOK
    <2>6. SittingsContiguous'
        BY <1>2, <1>3, <2>1, <2>5, SittingAssumption
           DEF IndInv, DbInv, SittingsContiguous, Seqs
    <2>7. SatCountedOnce'
        <3> SUFFICES ASSUME NEW v \in Students
                     PROVE  /\ satTotal'[v] <= 1
                            /\ satTotal'[v] = 1 <=> Sat(v, 1)'
            BY <1>3, <2>1 DEF SatCountedOnce
        <3>1. /\ satTotal[v] \in Nat /\ satTotal[v] <= 1
              /\ satTotal[v] = 1 <=> Sat(v, 1)
            BY <2>1 DEF IndInv, TypeOK, DbType, DbInv, SatCountedOnce
        <3>2. 1 \in Seqs
            BY SittingAssumption DEF Seqs
        <3>3. satTotal'[v] = satTotal[v] + (IF v = u /\ s = 1 THEN 1 ELSE 0)
            BY <1>2, <2>4, <3>1 DEF IndInv, TypeOK, DbType
        <3>4. Sat(v, 1)' <=> (Sat(v, 1) \/ (v = u /\ s = 1))
            BY <2>5, <3>2
        <3>5. (v = u /\ s = 1) => ~Sat(v, 1)
            BY <1>5 DEF u, s
        <3> QED
            BY <3>1, <3>3, <3>4, <3>5
    <2>8. LimitHolds'
        BY <1>2, <1>3, <2>5 DEF IndInv, DbInv, LimitHolds, Covered
    <2>9. NoOrphanAnswers'
        BY <1>3, <2>5 DEF IndInv, TypeOK, DbType, DbInv, NoOrphanAnswers
    <2>10. ExamCovered'
        BY <1>3 DEF IndInv, DbInv, ExamCovered, Covered
    <2>11. Grow
        BY <1>3, <2>5 DEF IndInv, TypeOK, EnvType, Grow
    <2> QED
        BY <2>6, <2>7, <2>8, <2>9, <2>10, <2>11 DEF DbInv
<1> QED
    BY <1>4, <1>5

\* The save's transaction: the answer lands on a sitting that is there.
LEMMA SaveWriteKeeps ==
    ASSUME IndInv, NEW t \in Tasks, SaveWrite(t)
    PROVE  DbInv' /\ Grow
<1>1. UNCHANGED <<exam, attempt, satTotal, peak>>
    BY DEF SaveWrite
<1>2. /\ who[t] \in Students /\ seq[t] \in Seqs
      /\ exam # None => Sat(who[t], seq[t])
    BY DEF SaveWrite, IndInv, TaskInv, TaskOK
<1>3. \A u \in Students : \A s \in answers'[u] :
         s \in answers[u] \/ (exam # None /\ u = who[t] /\ s = seq[t])
    BY <1>2 DEF SaveWrite, IndInv, TypeOK, DbType
<1>4. NoOrphanAnswers'
    BY <1>1, <1>2, <1>3 DEF IndInv, DbInv, NoOrphanAnswers, Sat
<1>5. /\ SittingsContiguous' /\ SatCountedOnce'
      /\ LimitHolds' /\ ExamCovered'
    BY <1>1 DEF IndInv, DbInv, SittingsContiguous, SatCountedOnce, LimitHolds,
                ExamCovered, Covered, AnySat, Sat
<1>6. Grow
    BY <1>1 DEF IndInv, TypeOK, EnvType, Grow, Sat
<1> QED
    BY <1>4, <1>5, <1>6 DEF DbInv

\* A submission, a room's join and a room's last-out edit a row in place.
LEMMA RowEditsQuiet ==
    ASSUME IndInv, NEW t \in Tasks, FinishWrite(t) \/ Clear(t) \/ Stamp(t)
    PROVE  Quiet
<1>1. who[t] \in Students /\ seq[t] \in Seqs
    BY DEF FinishWrite, Clear, Stamp, IndInv, TaskInv, TaskOK
<1>2. UNCHANGED <<exam, answers, satTotal, peak>>
    BY DEF FinishWrite, Clear, Stamp
<1>3. \/ attempt' = attempt
      \/ /\ Sat(who[t], seq[t])
         /\ \E row \in AttemptRow :
               attempt' = [attempt EXCEPT ![who[t]][seq[t]] = row]
    BY <1>1, RowTyped DEF FinishWrite, Clear, Stamp, IndInv, TypeOK
<1>4. CASE attempt' = attempt
    BY <1>2, <1>4 DEF Quiet, Sat
<1>5. ASSUME Sat(who[t], seq[t]), NEW row \in AttemptRow,
             attempt' = [attempt EXCEPT ![who[t]][seq[t]] = row]
      PROVE  Quiet
    <2>1. \A v \in Students, r \in Seqs :
             Sat(v, r)' <=> (Sat(v, r) \/ (v = who[t] /\ r = seq[t]))
        BY <1>1, <1>5, RowWritten DEF IndInv, TypeOK
    <2> QED
        BY <1>2, <1>5, <2>1 DEF Quiet
<1> QED
    BY <1>3, <1>4, <1>5

\* The PATCH that lands may lower the limit; the peak covers it all the same.
LEMMA PatchSaveKeeps ==
    ASSUME IndInv, NEW e \in Editors, PatchSave(e)
    PROVE  DbInv' /\ Grow
<1>1. UNCHANGED <<attempt, answers, satTotal>> /\ exam # None
    BY DEF PatchSave
<1>2. exam' \in ExamRow
    BY MergeIsRow DEF PatchSave, IndInv, EditorInv, EditorOK
<1>3. exam' # None /\ exam'.max_attempts \in Nat
    BY <1>2, NoneAssumption DEF ExamRow
<1>4. peak \in Nat
    BY DEF IndInv, TypeOK, EnvType
<1>5. /\ peak' = 0 \/ (peak # 0 /\ peak <= peak')
      /\ peak' = 0 \/ (exam'.max_attempts # 0 /\ exam'.max_attempts <= peak')
    BY <1>3, <1>4 DEF PatchSave, RaisePeak
<1>6. SittingsContiguous' /\ SatCountedOnce' /\ NoOrphanAnswers'
    BY <1>1, <1>3 DEF IndInv, DbInv, SittingsContiguous, SatCountedOnce,
                      NoOrphanAnswers, AnySat, Sat
<1>7. LimitHolds'
    <2> SUFFICES ASSUME NEW u \in Students, NEW s \in Seqs, Sat(u, s)'
                 PROVE  peak' = 0 \/ s <= peak'
        BY DEF LimitHolds
    <2>1. Sat(u, s)
        BY <1>1 DEF Sat
    <2>2. peak = 0 \/ s <= peak
        BY <2>1 DEF IndInv, DbInv, LimitHolds
    <2>3. s \in Nat
        BY SittingAssumption DEF Seqs
    <2>4. peak' \in Nat
        BY <1>3, <1>4 DEF PatchSave, RaisePeak
    <2> QED
        BY <1>4, <1>5, <2>2, <2>3, <2>4
<1>8. ExamCovered'
    BY <1>5 DEF ExamCovered, Covered
<1>9. Grow
    BY <1>1, <1>5 DEF Grow, Sat
<1> QED
    BY <1>6, <1>7, <1>8, <1>9 DEF DbInv

\* The cascade takes every sitting and every answer with the exam.
LEMMA DeleteExamKeeps ==
    ASSUME IndInv, NEW e \in Editors, DeleteExam(e)
    PROVE  DbInv' /\ Grow
<1>1. CASE exam = None
    <2>1. Quiet
        BY <1>1 DEF DeleteExam, Quiet, Sat
    <2> QED
        BY <2>1, QuietKeeps DEF IndInv
<1>2. CASE exam # None
    <2>1. exam' = None /\ UNCHANGED <<satTotal, peak>>
        BY <1>2 DEF DeleteExam
    <2>2. \A u \in Students : answers'[u] = {} /\ \A s \in Seqs : ~Sat(u, s)'
        BY <1>2 DEF DeleteExam, Sat
    <2>3. SittingsContiguous' /\ LimitHolds' /\ NoOrphanAnswers'
        BY <2>2 DEF SittingsContiguous, LimitHolds, NoOrphanAnswers, AnySat
    <2>4. SatCountedOnce' /\ ExamCovered'
        BY <2>1 DEF IndInv, DbInv, SatCountedOnce, ExamCovered
    <2>5. Grow
        BY <2>1 DEF Grow, IndInv, TypeOK, EnvType
    <2> QED
        BY <2>3, <2>4, <2>5 DEF DbInv
<1> QED
    BY <1>1, <1>2

\* One step of any handler keeps what the tables promise.
LEMMA DbStep ==
    ASSUME IndInv, [Next]_vars
    PROVE  DbInv' /\ Grow
<1> USE DEF db, env, tasks, locals, editors
<1>1. ASSUME UNCHANGED <<exam, attempt, answers, satTotal, peak>>
      PROVE  DbInv' /\ Grow
    <2>1. Quiet
        BY <1>1 DEF Quiet, Sat
    <2> QED
        BY <2>1, QuietKeeps DEF IndInv
<1>2. ASSUME NEW t \in Requests, RequestStep(t)
      PROVE  DbInv' /\ Grow
    BY <1>1, <1>2, StartCreateKeeps
       DEF RequestStep, StartGate, StartList, SaveRequest, FinishRequest
<1>3. ASSUME NEW t \in Tasks, WriteStep(t)
      PROVE  DbInv' /\ Grow
    <2>1. CASE FinishWrite(t)
        BY <2>1, RowEditsQuiet, QuietKeeps DEF IndInv
    <2>2. CASE SaveGate(t) \/ FinishGate(t)
        BY <1>1, <2>2 DEF SaveGate, FinishGate
    <2> QED
        BY <1>3, <2>1, <2>2, SaveWriteKeeps DEF WriteStep
<1>4. ASSUME NEW t \in Sockets, RoomStep(t)
      PROVE  DbInv' /\ Grow
    <2>1. CASE Clear(t) \/ Stamp(t)
        BY <2>1, RowEditsQuiet, QuietKeeps DEF IndInv, Tasks
    <2>2. CASE \/ \E u \in Students : DoorRead(t, u)
               \/ DoorGate(t) \/ Enter(t) \/ SaveFrame(t) \/ FinishFrame(t)
               \/ PushState(t) \/ Gone(t) \/ Leave(t)
        BY <1>1, <2>2 DEF DoorRead, DoorGate, Enter, SaveFrame, FinishFrame,
                          PushState, Gone, Leave
    <2> QED
        BY <1>4, <2>1, <2>2 DEF RoomStep
<1>5. ASSUME NEW e \in Editors, EditorStep(e)
      PROVE  DbInv' /\ Grow
    <2>1. CASE \/ \E p \in Patches : PatchRequest(e, p)
               \/ PatchGate(e) \/ PatchCheck(e) \/ PatchRetry(e)
               \/ QuestionRequest(e) \/ QuestionWrite(e) \/ DeleteRequest(e)
        BY <1>1, <2>1 DEF PatchRequest, PatchGate, PatchCheck, PatchRetry,
                          QuestionRequest, DeleteRequest, QuestionWrite
    <2> QED
        BY <1>5, <2>1, PatchSaveKeeps, DeleteExamKeeps DEF EditorStep
<1>6. CASE EnvStep
    BY <1>1, <1>6 DEF EnvStep, ClockTick, ToggleAdmission, ToggleYear, Restart
<1>7. CASE UNCHANGED vars
    BY <1>1, <1>7 DEF vars
<1> QED
    BY <1>2, <1>3, <1>4, <1>5, <1>6, <1>7 DEF Next

-----------------------------------------------------------------------------
(* What suspended requests rely on. *)

\* Task x stays where it is, with what it read.
Resting(x) ==
    /\ pc'[x] = pc[x] /\ who'[x] = who[x]
    /\ snap'[x] = snap[x] /\ seq'[x] = seq[x]

\* A limit within the peak stays within it.
LEMMA CoveredKept ==
    ASSUME TypeOK, TypeOK', Grow, NEW n \in Nat, Covered(n)
    PROVE  Covered(n)'
BY DEF TypeOK, EnvType, Grow, Covered

\* Nothing another task does takes away what a suspended one relies on.
LEMMA TaskKept ==
    ASSUME TypeOK, TypeOK', Grow, NEW x \in Tasks, TaskOK(x), Resting(x)
    PROVE  TaskOK(x)'
<1> USE DEF Resting
<1>1. pc[x] = "start_list" => Covered(snap[x].max_attempts)'
    BY CoveredKept DEF TaskOK, ExamRow
<1>2. pc[x] = "start_create" => Covered(seq[x])'
    BY CoveredKept, SittingAssumption DEF TaskOK, Seqs
<1>3. pc[x] = "start_create" /\ exam' # None =>
         \A r \in Seqs : r < seq[x] => Sat(who[x], r)'
    BY DEF TaskOK, Grow
<1>4. pc[x] = "save_write" /\ exam' # None => Sat(who[x], seq[x])'
    BY DEF TaskOK, Grow
<1> QED
    BY <1>1, <1>2, <1>3, <1>4 DEF TaskOK, Covered, Sat

\* A request that ends relies on nothing; a room back in its loop on its
\* sitting's key.
LEMMA DoneKeeps ==
    ASSUME TypeOK, NEW t \in Tasks, TaskOK(t), Done(t),
           t \in Sockets => pc[t] \in RoomPCs
    PROVE  TaskOK(t)' /\ \A x \in Tasks \ {t} : Resting(x)
<1> USE DEF TypeOK, TaskType, Goto
<1>1. CASE t \in Sockets
    BY <1>1 DEF Done, TaskOK, RoomPCs, Resting
<1>2. CASE t \notin Sockets
    BY <1>2 DEF Done, TaskOK, RoomPCs, Resting
<1> QED
    BY <1>1, <1>2

\* A socket that hung up relies on nothing.
LEMMA HangupKeeps ==
    ASSUME TypeOK, NEW t \in Tasks, Hangup(t)
    PROVE  TaskOK(t)' /\ \A x \in Tasks \ {t} : Resting(x)
BY DEF TypeOK, TaskType, Goto, Hangup, TaskOK, RoomPCs, Resting

\* One step of any handler leaves every task, the acting one included, with
\* what it relies on.
LEMMA TaskStep ==
    ASSUME IndInv, [Next]_vars, TypeOK', Grow
    PROVE  TaskInv'
<1> USE DEF tasks, locals
<1>1. ASSUME NEW t \in Tasks, TaskOK(t)', \A x \in Tasks \ {t} : Resting(x)
      PROVE  TaskInv'
    BY <1>1, TaskKept DEF IndInv, TaskInv
<1>2. ASSUME \A x \in Tasks : Resting(x)
      PROVE  TaskInv'
    BY <1>2, TaskKept DEF IndInv, TaskInv
<1>3. ASSUME UNCHANGED tasks
      PROVE  TaskInv'
    BY <1>2, <1>3 DEF Resting
<1>4. \A t \in Tasks : TaskOK(t)
    BY DEF IndInv, TaskInv
<1>5. TypeOK /\ TaskType
    BY DEF IndInv, TypeOK
<1>6. ASSUME NEW t \in Requests, NEW u \in Students, StartGate(t, u)
      PROVE  TaskInv'
    <2>1. t \in Tasks /\ t \notin Sockets
        BY SittingAssumption DEF Tasks
    <2>2. exam \in ExamRow /\ Covered(exam.max_attempts)
        BY <1>6 DEF StartGate, IndInv, TypeOK, DbType, DbInv, ExamCovered
    <2>3. TaskOK(t)'
        BY <1>5, <1>6, <2>1, <2>2
           DEF StartGate, Goto, TaskType, TaskOK, Covered
    <2>4. \A x \in Tasks \ {t} : Resting(x)
        BY <1>5, <1>6 DEF StartGate, Goto, TaskType, Resting
    <2> QED
        BY <1>1, <2>1, <2>3, <2>4
<1>7. ASSUME NEW t \in Requests, StartList(t)
      PROVE  TaskInv'
    <2> DEFINE u == who[t]
               n == Latest(u)
    <2>1. t \in Tasks /\ t \notin Sockets
        BY SittingAssumption DEF Tasks
    <2>2. CASE Done(t)
        BY <1>1, <1>4, <1>5, <2>1, <2>2, DoneKeeps
    <2>3. ASSUME ~Done(t)
          PROVE  TaskInv'
        <3>1. /\ u \in Students /\ snap[t] \in ExamRow
              /\ Covered(snap[t].max_attempts)
            BY <1>4, <1>7, <2>1 DEF StartList, TaskOK
        <3>2. /\ Goto(t, "start_create")
              /\ seq' = [seq EXCEPT ![t] = n + 1]
              /\ UNCHANGED <<who, snap, db, peak>>
              /\ \/ n = 0
                 \/ /\ AllowsAnother(snap[t].max_attempts, Used(u))
                    /\ n < MaxSeq
            BY <1>7, <2>3 DEF StartList
        <3>3. /\ n \in 0 .. MaxSeq
              /\ n # 0 => Sat(u, n)
              /\ Used(u) = n
            BY <3>1, LatestIsHighest, UsedIsLatest DEF IndInv, DbInv
        <3>4. \A r \in Seqs : r < n + 1 => Sat(u, r)
            BY <3>1, <3>3, SittingAssumption
               DEF IndInv, DbInv, SittingsContiguous, Seqs
        <3>5. peak \in Nat /\ snap[t].max_attempts \in Nat
            BY <3>1 DEF IndInv, TypeOK, EnvType, ExamRow
        <3>6. Covered(n + 1) /\ n + 1 \in Seqs
            BY <3>1, <3>2, <3>3, <3>5, SittingAssumption
               DEF Covered, AllowsAnother, Seqs
        <3>7. /\ pc'[t] = "start_create" /\ who'[t] = u /\ seq'[t] = n + 1
              /\ UNCHANGED <<exam, attempt, peak>>
            BY <1>5, <2>1, <3>2 DEF Goto, TaskType, db
        <3> HIDE DEF n, u
        <3>8. TaskOK(t)'
            BY <2>1, <3>1, <3>4, <3>6, <3>7 DEF TaskOK, Covered, Sat
        <3>9. \A x \in Tasks \ {t} : Resting(x)
            BY <1>5, <3>2 DEF Goto, TaskType, Resting
        <3> QED
            BY <1>1, <2>1, <3>8, <3>9
    <2> QED
        BY <2>2, <2>3
<1>8. ASSUME NEW t \in Requests, StartCreate(t)
      PROVE  TaskInv'
    <2>1. t \in Tasks /\ t \notin Sockets
        BY SittingAssumption DEF Tasks
    <2> QED
        BY <1>1, <1>4, <1>5, <1>8, <2>1, DoneKeeps DEF StartCreate
<1>9. ASSUME NEW t \in Requests, NEW u \in Students,
             SaveRequest(t, u) \/ FinishRequest(t, u)
      PROVE  TaskInv'
    <2>1. t \in Tasks /\ t \notin Sockets
        BY SittingAssumption DEF Tasks
    <2>2. exam \in ExamRow
        BY <1>9 DEF SaveRequest, FinishRequest, IndInv, TypeOK, DbType
    <2>3. TaskOK(t)'
        BY <1>5, <1>9, <2>1, <2>2
           DEF SaveRequest, FinishRequest, Goto, TaskType, TaskOK
    <2>4. \A x \in Tasks \ {t} : Resting(x)
        BY <1>5, <1>9 DEF SaveRequest, FinishRequest, Goto, TaskType, Resting
    <2> QED
        BY <1>1, <2>1, <2>3, <2>4
<1>10. ASSUME NEW t \in Tasks, SaveGate(t)
      PROVE  TaskInv'
    <2>1. CASE Done(t)
        BY <1>1, <1>4, <1>5, <1>10, <2>1, DoneKeeps DEF SaveGate, RoomPCs
    <2>2. ASSUME ~Done(t)
          PROVE  TaskInv'
        <3> DEFINE n == Latest(who[t])
        <3>1. who[t] \in Students
            BY <1>4, <1>10 DEF SaveGate, TaskOK
        <3>2. /\ n # 0 /\ Goto(t, "save_write")
              /\ seq' = [seq EXCEPT ![t] = n]
              /\ UNCHANGED <<who, snap, exam, attempt>>
            BY <1>10, <2>2 DEF SaveGate, WritableLatest, db
        <3>3. n \in Seqs /\ Sat(who[t], n)
            BY <3>1, <3>2, LatestIsHighest, SittingAssumption DEF Seqs
        <3> HIDE DEF n
        <3>4. TaskOK(t)'
            BY <1>5, <3>1, <3>2, <3>3 DEF Goto, TaskType, TaskOK, Sat
        <3>5. \A x \in Tasks \ {t} : Resting(x)
            BY <1>5, <3>2 DEF Goto, TaskType, Resting
        <3> QED
            BY <1>1, <3>4, <3>5
    <2> QED
        BY <2>1, <2>2
<1>11. ASSUME NEW t \in Tasks, SaveWrite(t)
      PROVE  TaskInv'
    <2>1. CASE Done(t)
        BY <1>1, <1>4, <1>5, <1>11, <2>1, DoneKeeps DEF SaveWrite, RoomPCs
    <2>2. ASSUME ~Done(t)
          PROVE  TaskInv'
        <3>1. who[t] \in Students /\ seq[t] \in Seqs
            BY <1>4, <1>11 DEF SaveWrite, TaskOK
        <3>2. TaskOK(t)' /\ \A x \in Tasks \ {t} : Resting(x)
            BY <1>5, <1>11, <2>2, <3>1
               DEF SaveWrite, Goto, TaskType, TaskOK, Resting
        <3> QED
            BY <1>1, <3>2
    <2> QED
        BY <2>1, <2>2
<1>12. ASSUME NEW t \in Tasks, FinishGate(t)
      PROVE  TaskInv'
    <2>1. CASE Done(t)
        BY <1>1, <1>4, <1>5, <1>12, <2>1, DoneKeeps DEF FinishGate, RoomPCs
    <2>2. ASSUME ~Done(t)
          PROVE  TaskInv'
        <3> DEFINE n == Latest(who[t])
        <3>1. who[t] \in Students
            BY <1>4, <1>12 DEF FinishGate, TaskOK
        <3>2. /\ n # 0 /\ Goto(t, "finish_write")
              /\ seq' = [seq EXCEPT ![t] = n]
              /\ UNCHANGED <<who, snap>>
            BY <1>12, <2>2 DEF FinishGate, WritableLatest
        <3>3. n \in Seqs
            BY <3>1, <3>2, LatestIsHighest, SittingAssumption DEF Seqs
        <3> HIDE DEF n
        <3>4. TaskOK(t)' /\ \A x \in Tasks \ {t} : Resting(x)
            BY <1>5, <3>1, <3>2, <3>3 DEF Goto, TaskType, TaskOK, Resting
        <3> QED
            BY <1>1, <3>4
    <2> QED
        BY <2>1, <2>2
<1>13. ASSUME NEW t \in Tasks, FinishWrite(t)
      PROVE  TaskInv'
    <2>1. CASE Done(t)
        BY <1>1, <1>4, <1>5, <1>13, <2>1, DoneKeeps DEF FinishWrite, RoomPCs
    <2>2. ASSUME ~Done(t)
          PROVE  TaskInv'
        <3>1. who[t] \in Students /\ seq[t] \in Seqs
            BY <1>4, <1>13 DEF FinishWrite, TaskOK
        <3>2. TaskOK(t)' /\ \A x \in Tasks \ {t} : Resting(x)
            BY <1>5, <1>13, <2>2, <3>1
               DEF FinishWrite, Goto, TaskType, TaskOK, Resting
        <3> QED
            BY <1>1, <3>2
    <2> QED
        BY <2>1, <2>2
<1>14. ASSUME NEW t \in Sockets, NEW u \in Students, DoorRead(t, u)
      PROVE  TaskInv'
    <2>1. t \in Tasks /\ exam \in ExamRow
        BY <1>14 DEF Tasks, DoorRead, IndInv, TypeOK, DbType
    <2>2. TaskOK(t)' /\ \A x \in Tasks \ {t} : Resting(x)
        BY <1>5, <1>14, <2>1
           DEF DoorRead, Goto, TaskType, TaskOK, RoomPCs, Resting
    <2> QED
        BY <1>1, <2>1, <2>2
<1>15. ASSUME NEW t \in Sockets, DoorGate(t)
      PROVE  TaskInv'
    <2>1. t \in Tasks
        BY DEF Tasks
    <2>2. CASE Hangup(t)
        BY <1>1, <1>5, <2>1, <2>2, HangupKeeps
    <2>3. ASSUME ~Hangup(t)
          PROVE  TaskInv'
        <3> DEFINE n == Latest(who[t])
        <3>1. who[t] \in Students
            BY <1>4, <1>15, <2>1 DEF DoorGate, TaskOK
        <3>2. /\ n # 0 /\ Goto(t, "enter")
              /\ seq' = [seq EXCEPT ![t] = n]
              /\ snap' = [snap EXCEPT ![t] = None]
              /\ UNCHANGED who
            BY <1>15, <2>3 DEF DoorGate, WritableLatest
        <3>3. n \in Seqs
            BY <3>1, <3>2, LatestIsHighest, SittingAssumption DEF Seqs
        <3> HIDE DEF n
        <3>4. TaskOK(t)' /\ \A x \in Tasks \ {t} : Resting(x)
            BY <1>5, <2>1, <3>1, <3>2, <3>3
               DEF Goto, TaskType, TaskOK, RoomPCs, Resting
        <3> QED
            BY <1>1, <2>1, <3>4
    <2> QED
        BY <2>2, <2>3
<1>16. ASSUME NEW t \in Sockets,
              Enter(t) \/ Clear(t) \/ PushState(t) \/ Gone(t)
      PROVE  TaskInv'
    <2>1. t \in Tasks /\ who[t] \in Students /\ seq[t] \in Seqs
        BY <1>4, <1>16 DEF Tasks, Enter, Clear, PushState, Gone, TaskOK
    <2>2. /\ pc' \in {[pc EXCEPT ![t] = l] : l \in {"clear", "room", "leave"}}
          /\ UNCHANGED locals
        BY <1>16 DEF Enter, Clear, PushState, Gone, Goto
    <2>3. TaskOK(t)' /\ \A x \in Tasks \ {t} : Resting(x)
        BY <1>5, <2>1, <2>2 DEF TaskType, TaskOK, Resting
    <2> QED
        BY <1>1, <2>1, <2>3
<1>17. ASSUME NEW t \in Sockets, SaveFrame(t) \/ FinishFrame(t)
      PROVE  TaskInv'
    <2>1. /\ t \in Tasks /\ who[t] \in Students /\ seq[t] \in Seqs
          /\ exam \in ExamRow
        BY <1>4, <1>17 DEF Tasks, SaveFrame, FinishFrame, TaskOK, IndInv,
                           TypeOK, DbType
    <2>2. TaskOK(t)' /\ \A x \in Tasks \ {t} : Resting(x)
        BY <1>5, <1>17, <2>1
           DEF SaveFrame, FinishFrame, Goto, TaskType, TaskOK, Resting
    <2> QED
        BY <1>1, <2>1, <2>2
<1>18. ASSUME NEW t \in Sockets, Leave(t)
      PROVE  TaskInv'
    <2>1. t \in Tasks /\ who[t] \in Students /\ seq[t] \in Seqs
        BY <1>4, <1>18 DEF Tasks, Leave, TaskOK
    <2>2. CASE Hangup(t)
        BY <1>1, <1>5, <2>1, <2>2, HangupKeeps
    <2>3. CASE Goto(t, "stamp") /\ UNCHANGED locals
        <3>1. TaskOK(t)' /\ \A x \in Tasks \ {t} : Resting(x)
            BY <1>5, <2>1, <2>3 DEF Goto, TaskType, TaskOK, RoomPCs, Resting
        <3> QED
            BY <1>1, <2>1, <3>1
    <2> QED
        BY <1>18, <2>2, <2>3 DEF Leave
<1>19. ASSUME NEW t \in Sockets, Stamp(t)
      PROVE  TaskInv'
    BY <1>1, <1>5, <1>19, HangupKeeps DEF Stamp, Tasks
<1>20. ASSUME NEW e \in Editors, EditorStep(e)
      PROVE  TaskInv'
    BY <1>3, <1>20 DEF EditorStep, PatchRequest, PatchGate, PatchCheck,
                       PatchSave, PatchRetry, QuestionRequest, QuestionWrite,
                       DeleteRequest, DeleteExam
<1>21. CASE EnvStep
    <2>1. CASE Restart
        BY <2>1 DEF Restart, TaskInv, TaskOK, RoomPCs
    <2> QED
        BY <1>3, <1>21, <2>1 DEF EnvStep, ClockTick, ToggleAdmission,
                                 ToggleYear
<1>22. CASE UNCHANGED vars
    BY <1>3, <1>22 DEF vars
<1> QED
    BY <1>6, <1>7, <1>8, <1>9, <1>10, <1>11, <1>12, <1>13, <1>14, <1>15,
       <1>16, <1>17, <1>18, <1>19, <1>20, <1>21, <1>22
       DEF Next, RequestStep, WriteStep, RoomStep

\* A PATCH under way keeps the row it merges over and rounds to spend.
LEMMA EditorKeeps ==
    ASSUME IndInv, [Next]_vars
    PROVE  EditorInv'
<1> USE DEF editors
<1>1. /\ EditorType /\ exam \in ExamRow \cup {None}
      /\ \A e \in Editors : EditorOK(e)
    BY DEF IndInv, TypeOK, DbType, EditorInv
<1>2. ASSUME UNCHANGED editors
      PROVE  EditorInv'
    BY <1>1, <1>2 DEF EditorInv, EditorOK
<1>3. ASSUME NEW e \in Editors, EditorDone(e)
      PROVE  EditorInv'
    BY <1>1, <1>3 DEF EditorDone, EditorType, EditorInv, EditorOK
<1>4. ASSUME NEW e \in Editors, NEW p \in Patches, PatchRequest(e, p)
      PROVE  EditorInv'
    BY <1>1, <1>4, SittingAssumption
       DEF PatchRequest, EditorType, EditorInv, EditorOK
<1>5. ASSUME NEW e \in Editors, PatchGate(e) \/ PatchCheck(e)
      PROVE  EditorInv'
    BY <1>1, <1>3, <1>5
       DEF PatchGate, PatchCheck, EditorType, EditorInv, EditorOK
<1>6. ASSUME NEW e \in Editors, PatchRetry(e)
      PROVE  EditorInv'
    <2>1. tries[e] \in 1 .. Tries /\ patch[e] \in Patch
        BY <1>1, <1>6 DEF PatchRetry, EditorOK
    <2> QED
        BY <1>1, <1>3, <1>6, <2>1, SittingAssumption
           DEF PatchRetry, EditorType, EditorInv, EditorOK
<1>7. ASSUME NEW e \in Editors, QuestionRequest(e) \/ DeleteRequest(e)
      PROVE  EditorInv'
    BY <1>1, <1>7 DEF QuestionRequest, DeleteRequest, EditorType, EditorInv,
                      EditorOK
<1>8. ASSUME NEW e \in Editors, EditorStep(e)
      PROVE  EditorInv'
    BY <1>2, <1>3, <1>4, <1>5, <1>6, <1>7, <1>8
       DEF EditorStep, PatchSave, QuestionWrite, DeleteExam
<1>9. ASSUME NEW t \in Requests, RequestStep(t)
      PROVE  EditorInv'
    BY <1>2, <1>9 DEF RequestStep, StartGate, StartList, StartCreate,
                      SaveRequest, FinishRequest
<1>10. ASSUME NEW t \in Tasks, WriteStep(t)
      PROVE  EditorInv'
    BY <1>2, <1>10 DEF WriteStep, SaveGate, SaveWrite, FinishGate, FinishWrite
<1>11. ASSUME NEW t \in Sockets, RoomStep(t)
      PROVE  EditorInv'
    BY <1>2, <1>11 DEF RoomStep, DoorRead, DoorGate, Enter, Clear, SaveFrame,
                       FinishFrame, PushState, Gone, Leave, Stamp
<1>12. CASE Restart
    BY <1>12 DEF Restart, EditorInv, EditorOK
<1>13. CASE EnvStep
    BY <1>2, <1>12, <1>13 DEF EnvStep, ClockTick, ToggleAdmission, ToggleYear
<1>14. CASE UNCHANGED vars
    BY <1>2, <1>14 DEF vars
<1> QED
    BY <1>8, <1>9, <1>10, <1>11, <1>13, <1>14 DEF Next

-----------------------------------------------------------------------------
(* The invariants. *)

\* The program starts in the inductive invariant.
LEMMA InitHolds == Init => IndInv
<1> SUFFICES ASSUME Init PROVE IndInv
    OBVIOUS
<1> USE SittingAssumption, TimeAssumption
<1>1. exam \in ExamRow /\ exam # None /\ exam.max_attempts \in Nat
    BY NoneAssumption DEF Init, ExamRow
<1>2. TypeOK
    BY <1>1 DEF Init, TypeOK, DbType, EnvType, TaskType, EditorType, Time,
                TaskPCs, EditorPCs
<1>3. \A u \in Students : answers[u] = {} /\ \A s \in Seqs : ~Sat(u, s)
    BY DEF Init, Sat
<1>4. SittingsContiguous /\ LimitHolds /\ NoOrphanAnswers
    BY <1>3 DEF SittingsContiguous, LimitHolds, NoOrphanAnswers, AnySat
<1>5. SatCountedOnce
    <2>1. 1 \in Seqs /\ \A u \in Students : satTotal[u] = 0
        BY DEF Init, Seqs
    <2> QED
        BY <1>3, <2>1 DEF SatCountedOnce
<1>6. ExamCovered
    BY <1>1 DEF Init, ExamCovered, Covered
<1>7. TaskInv /\ EditorInv
    BY DEF Init, TaskInv, TaskOK, RoomPCs, EditorInv, EditorOK
<1> QED
    BY <1>2, <1>4, <1>5, <1>6, <1>7 DEF IndInv, DbInv

\* Every reachable state satisfies the inductive invariant, whatever starts,
\* saves, submissions, rooms, edits, deletes and restarts interleave.
THEOREM Invariance == Spec => []IndInv
<1>1. IndInv /\ [Next]_vars => IndInv'
    <2> SUFFICES ASSUME IndInv, [Next]_vars PROVE IndInv'
        OBVIOUS
    <2>1. TypeOK'
        BY TypeStep DEF IndInv
    <2>2. DbInv' /\ Grow
        BY DbStep
    <2>3. TaskInv'
        BY <2>1, <2>2, TaskStep
    <2>4. EditorInv'
        BY EditorKeeps
    <2> QED
        BY <2>1, <2>2, <2>3, <2>4 DEF IndInv
<1> QED
    BY <1>1, InitHolds, PTL DEF Spec

\* Every variable keeps its shape and the retry budget its bounds.
THEOREM TypeCorrect == Spec => []TypeOK
<1>1. IndInv => TypeOK
    BY DEF IndInv
<1> QED
    BY <1>1, Invariance, PTL

\* Starts that race each other, the retake rule and the delete cascade leave a
\* student's sittings numbered without a gap and none without its exam.
THEOREM NumberedWithoutGap == Spec => []SittingsContiguous
<1>1. IndInv => SittingsContiguous
    BY DEF IndInv, DbInv
<1> QED
    BY <1>1, Invariance, PTL

\* exam_sat_total moves once per student and exam, with the first sitting.
THEOREM CountedOnce == Spec => []SatCountedOnce
<1>1. IndInv => SatCountedOnce
    BY DEF IndInv, DbInv
<1> QED
    BY <1>1, Invariance, PTL

\* No race of starts against each other or against a PATCH of the limit takes
\* a student past the most generous limit the exam has had.
THEOREM LimitKept == Spec => []LimitHolds
<1>1. IndInv => LimitHolds
    BY DEF IndInv, DbInv
<1> QED
    BY <1>1, Invariance, PTL

\* A save that passed its gates before the delete cascade leaves no answer
\* behind.
THEOREM AnswersHaveSittings == Spec => []NoOrphanAnswers
<1>1. IndInv => NoOrphanAnswers
    BY DEF IndInv, DbInv
<1> QED
    BY <1>1, Invariance, PTL

-----------------------------------------------------------------------------
(* The action properties. *)

\* Which steps write table exam_attempt.
LEMMA WritersOfSittings ==
    ASSUME Next, attempt' # attempt
    PROVE  \/ \E t \in Requests : StartCreate(t)
           \/ \E t \in Tasks : FinishWrite(t) \/ Clear(t) \/ Stamp(t)
           \/ \E e \in Editors : DeleteExam(e)
BY DEF Next, RequestStep, WriteStep, RoomStep, EditorStep, EnvStep, Tasks, db,
       StartGate, StartList, SaveRequest, FinishRequest,
       SaveGate, SaveWrite, FinishGate,
       DoorRead, DoorGate, Enter, SaveFrame, FinishFrame, PushState, Gone, Leave,
       PatchRequest, PatchGate, PatchCheck, PatchSave, PatchRetry,
       QuestionRequest, DeleteRequest, QuestionWrite,
       ClockTick, ToggleAdmission, ToggleYear, Restart

\* While its exam lives a sitting is never dropped, its clock never restarts
\* and its submission is never undone.
THEOREM SittingsKept == Spec => SittingsStand
<1>1. ASSUME IndInv, Next, NEW u \in Students, NEW s \in Seqs
      PROVE  SittingStands(u, s)
    <2> SUFFICES ASSUME exam' # None, Sat(u, s)
                 PROVE  /\ attempt'[u][s] # None
                        /\ attempt'[u][s].started_at = attempt[u][s].started_at
                        /\ attempt[u][s].finished_at # None
                              => attempt'[u][s].finished_at # None
        BY DEF SittingStands, Sat
    <2>1. /\ attempt[u][s] \in AttemptRow /\ attempt[u][s] # None
          /\ now \in Time
          /\ attempt \in [Students -> [Seqs -> AttemptRow \cup {None}]]
        BY <1>1 DEF IndInv, TypeOK, DbType, EnvType, Sat
    <2>2. CASE attempt' = attempt
        BY <2>1, <2>2
    <2>3. ASSUME NEW t \in Requests, StartCreate(t), attempt' # attempt
          PROVE  /\ attempt'[u][s] = attempt[u][s]
        <3>1. ~Sat(who[t], seq[t])
            BY <2>3 DEF StartCreate
        <3> QED
            BY <2>1, <2>3, <3>1 DEF StartCreate, CreateIn, Sat
    <2>4. ASSUME NEW t \in Tasks, FinishWrite(t) \/ Clear(t) \/ Stamp(t)
          PROVE  \/ attempt'[u][s] = attempt[u][s]
                 \/ attempt'[u][s] = StampFinished(u, s)
                 \/ attempt'[u][s] = ClearLeft(u, s)
                 \/ attempt'[u][s] = StampLeft(u, s)
        BY <2>1, <2>4 DEF FinishWrite, Clear, Stamp
    <2>5. \/ attempt'[u][s] = attempt[u][s]
          \/ attempt'[u][s] = StampFinished(u, s)
          \/ attempt'[u][s] = ClearLeft(u, s)
          \/ attempt'[u][s] = StampLeft(u, s)
        BY <1>1, <2>2, <2>3, <2>4, WritersOfSittings DEF DeleteExam
    <2>6. /\ StampFinished(u, s) \in AttemptRow
          /\ ClearLeft(u, s) \in AttemptRow
          /\ StampLeft(u, s) \in AttemptRow
        BY <1>1, RowTyped DEF IndInv, TypeOK
    <2>7. attempt'[u][s] # None
        BY <2>1, <2>5, <2>6, NoneAssumption
    <2> DEFINE row == attempt[u][s]
    <2>8. /\ StampFinished(u, s) = [row EXCEPT !.finished_at = now]
          /\ ClearLeft(u, s) = [row EXCEPT !.left_at = None]
          /\ StampLeft(u, s) = [row EXCEPT !.left_at = now]
        BY DEF StampFinished, ClearLeft, StampLeft
    <2> HIDE DEF row
    <2>9. \A r \in {row, [row EXCEPT !.finished_at = now],
                    [row EXCEPT !.left_at = None],
                    [row EXCEPT !.left_at = now]} :
             /\ r.started_at = row.started_at
             /\ row.finished_at # None => r.finished_at # None
        BY <2>1, NoneAssumption DEF row, AttemptRow
    <2> QED
        BY <2>5, <2>7, <2>8, <2>9 DEF row
<1>2. IndInv /\ [Next]_vars
         => [\A u \in Students, s \in Seqs : SittingStands(u, s)]_vars
    BY <1>1
<1> QED
    BY <1>2, Invariance, PTL DEF Spec, SittingsStand

\* No question changes once somebody sat down: the freeze gate refuses what
\* its pre-flight let through.
THEOREM QuestionsKept == Spec => QuestionsFrozen
<1>1. ASSUME Next, AnySat
      PROVE  revision' = revision
    <2>1. ASSUME NEW e \in Editors, QuestionWrite(e)
          PROVE  revision' = revision
        BY <1>1, <2>1 DEF QuestionWrite, FreezeGate
    <2> QED
        BY <1>1, <2>1
           DEF Next, RequestStep, WriteStep, RoomStep, EditorStep, EnvStep, db,
               StartGate, StartList, StartCreate, SaveRequest, FinishRequest,
               SaveGate, SaveWrite, FinishGate, FinishWrite,
               DoorRead, DoorGate, Enter, Clear, SaveFrame, FinishFrame,
               PushState, Gone, Leave, Stamp,
               PatchRequest, PatchGate, PatchCheck, PatchSave, PatchRetry,
               QuestionRequest, DeleteRequest, DeleteExam,
               ClockTick, ToggleAdmission, ToggleYear, Restart
<1>2. [Next]_vars => [AnySat => revision' = revision]_vars
    BY <1>1
<1> QED
    BY <1>2, PTL DEF Spec, QuestionsFrozen

\* A PATCH that lands sets what it names over the row as it stands, so it
\* reverts no edit that landed since it was read.
THEOREM PatchesKept == Spec => PatchesCompose
<1>1. ASSUME IndInv, Next, NEW e \in Editors,
             epc[e] = "patch_cas", epc'[e] = "idle", exam # None, exam' # None
      PROVE  OnlyNamed(patch[e])
    <2>1. CASE exam' = exam
        BY <2>1 DEF OnlyNamed
    <2>2. ASSUME exam' # exam
          PROVE  \E d \in Editors : PatchSave(d)
        BY <1>1, <2>2
           DEF Next, RequestStep, WriteStep, RoomStep, EditorStep, EnvStep, db,
               StartGate, StartList, StartCreate, SaveRequest, FinishRequest,
               SaveGate, SaveWrite, FinishGate, FinishWrite,
               DoorRead, DoorGate, Enter, Clear, SaveFrame, FinishFrame,
               PushState, Gone, Leave, Stamp,
               PatchRequest, PatchGate, PatchCheck, PatchRetry,
               QuestionRequest, DeleteRequest, QuestionWrite, DeleteExam,
               ClockTick, ToggleAdmission, ToggleYear, Restart
    <2>3. ASSUME NEW d \in Editors, PatchSave(d)
          PROVE  OnlyNamed(patch[e])
        <3>1. d = e
            BY <1>1, <2>3 DEF PatchSave, EditorDone, IndInv, TypeOK, EditorType
        <3>2. exam' = Merge(exam, patch[e])
            BY <2>3, <3>1 DEF PatchSave, Unchanged
        <3> QED
            BY <3>2 DEF OnlyNamed, Merge, Set
    <2> QED
        BY <2>1, <2>2, <2>3
<1>2. IndInv /\ [Next]_vars =>
         [\A e \in Editors :
            /\ epc[e] = "patch_cas" /\ epc'[e] = "idle"
            /\ exam # None /\ exam' # None
            => OnlyNamed(patch[e])]_vars
    BY <1>1
<1> QED
    BY <1>2, Invariance, PTL DEF Spec, PatchesCompose

\* A room that stays open stays with its student and its sitting.
LEMMA RoomStays ==
    ASSUME IndInv, Next, NEW x \in Sockets, pc[x] \in RoomPCs,
           pc'[x] \in RoomPCs
    PROVE  who'[x] = who[x] /\ seq'[x] = seq[x]
<1> USE DEF tasks, locals
<1>1. TaskType /\ x \in Tasks
    BY DEF IndInv, TypeOK, Tasks
<1>2. pc[x] # "idle" /\ pc'[x] # "idle" /\ pc[x] # "door"
    BY DEF RoomPCs
<1>3. ASSUME UNCHANGED <<who, seq>>
      PROVE  who'[x] = who[x] /\ seq'[x] = seq[x]
    BY <1>3
<1>4. ASSUME NEW t \in Tasks, Done(t)
      PROVE  who'[x] = who[x] /\ seq'[x] = seq[x]
    BY <1>1, <1>4 DEF Done, TaskType
<1>5. ASSUME NEW t \in Tasks, Hangup(t)
      PROVE  who'[x] = who[x] /\ seq'[x] = seq[x]
    BY <1>1, <1>2, <1>5 DEF Hangup, Goto, TaskType
<1>6. ASSUME NEW t \in Requests, RequestStep(t)
      PROVE  who'[x] = who[x] /\ seq'[x] = seq[x]
    <2>1. t \in Tasks /\ t # x
        BY SittingAssumption DEF Tasks
    <2> QED
        BY <1>1, <1>4, <1>6, <2>1
           DEF RequestStep, StartGate, StartList, StartCreate, SaveRequest,
               FinishRequest, TaskType
<1>7. ASSUME NEW t \in Tasks, WriteStep(t)
      PROVE  who'[x] = who[x] /\ seq'[x] = seq[x]
    <2>1. CASE SaveWrite(t) \/ FinishWrite(t)
        BY <1>3, <1>4, <2>1 DEF SaveWrite, FinishWrite
    <2>2. CASE SaveGate(t)
        BY <1>1, <1>4, <2>2 DEF SaveGate, OwnSitting, TaskType
    <2>3. CASE FinishGate(t)
        BY <1>1, <1>4, <2>3 DEF FinishGate, OwnSitting, TaskType
    <2> QED
        BY <1>7, <2>1, <2>2, <2>3 DEF WriteStep
<1>8. ASSUME NEW t \in Sockets, RoomStep(t)
      PROVE  who'[x] = who[x] /\ seq'[x] = seq[x]
    <2>1. t \in Tasks
        BY DEF Tasks
    <2>2. CASE \E u \in Students : DoorRead(t, u)
        BY <1>1, <1>2, <2>2 DEF DoorRead, TaskType
    <2>3. CASE DoorGate(t)
        BY <1>1, <1>2, <1>5, <2>1, <2>3 DEF DoorGate, TaskType
    <2>4. CASE Leave(t) \/ Stamp(t)
        BY <1>3, <1>5, <2>1, <2>4 DEF Leave, Stamp
    <2> QED
        BY <1>3, <1>8, <2>2, <2>3, <2>4
           DEF RoomStep, Enter, Clear, SaveFrame, FinishFrame, PushState,
               Gone
<1>9. ASSUME NEW e \in Editors, EditorStep(e)
      PROVE  who'[x] = who[x] /\ seq'[x] = seq[x]
    BY <1>3, <1>9
       DEF EditorStep, PatchRequest, PatchGate, PatchCheck, PatchSave,
           PatchRetry, QuestionRequest, DeleteRequest, QuestionWrite, DeleteExam
<1>10. CASE EnvStep
    BY <1>1, <1>2, <1>3, <1>10
       DEF EnvStep, ClockTick, ToggleAdmission, ToggleYear, Restart
<1> QED
    BY <1>6, <1>7, <1>8, <1>9, <1>10 DEF Next

\* A room never comes to act on a sitting other than the one it was opened for.
THEOREM RoomsBound == Spec => RoomBoundToSitting
<1>1. IndInv /\ [Next]_vars =>
         [\A t \in Sockets :
            pc[t] \in RoomPCs /\ pc'[t] \in RoomPCs
            => who'[t] = who[t] /\ seq'[t] = seq[t]]_vars
    BY RoomStays
<1> QED
    BY <1>1, Invariance, PTL DEF Spec, RoomBoundToSitting

-----------------------------------------------------------------------------
(* The presence map. *)

\* Nobody crosses a room's threshold in this step.
NoCrossing ==
    \A x \in Sockets :
        /\ pc'[x] \in RoomPCs <=> pc[x] \in RoomPCs
        /\ pc[x] \in RoomPCs => who'[x] = who[x] /\ seq'[x] = seq[x]

\* A step that neither enters nor leaves a room crosses no threshold.
LEMMA OnlyEnterAndLeaveCross ==
    ASSUME IndInv, Next,
           \A t \in Sockets : ~Enter(t) /\ ~Leave(t),
           ~Restart
    PROVE  NoCrossing /\ presence' = presence
<1> USE DEF tasks, locals
<1>1. TaskType
    BY DEF IndInv, TypeOK
<1>2. ASSUME NEW t \in Requests, RequestStep(t)
      PROVE  NoCrossing /\ presence' = presence
    <2>1. t \in Tasks /\ t \notin Sockets
        BY SittingAssumption DEF Tasks
    <2>2. /\ presence' = presence
          /\ \A x \in Sockets :
                pc'[x] = pc[x] /\ who'[x] = who[x] /\ seq'[x] = seq[x]
        BY <1>1, <1>2, <2>1
           DEF RequestStep, StartGate, StartList, StartCreate, SaveRequest,
               FinishRequest, Done, Goto, TaskType, Tasks
    <2> QED
        BY <2>2 DEF NoCrossing
<1>3. ASSUME NEW t \in Tasks, WriteStep(t)
      PROVE  NoCrossing /\ presence' = presence
    <2>1. presence' = presence /\ pc[t] \in RoomPCs
        BY <1>3 DEF WriteStep, SaveGate, SaveWrite, FinishGate, FinishWrite,
                    RoomPCs
    <2>2. \A x \in Sockets :
             /\ x # t => pc'[x] = pc[x] /\ who'[x] = who[x] /\ seq'[x] = seq[x]
             /\ x = t => pc'[x] \in RoomPCs
        BY <1>1, <1>3 DEF WriteStep, SaveGate, SaveWrite, FinishGate,
                          FinishWrite, Done, Goto, TaskType, Tasks, RoomPCs
    <2>3. t \in Sockets => who'[t] = who[t] /\ seq'[t] = seq[t]
        BY <1>3, <2>1, <2>2, RoomStays DEF Next
    <2> QED
        BY <2>1, <2>2, <2>3 DEF NoCrossing
<1>4. ASSUME NEW t \in Sockets, RoomStep(t)
      PROVE  NoCrossing /\ presence' = presence
    <2>1. t \in Tasks
        BY DEF Tasks
    <2>2. CASE \/ \E u \in Students : DoorRead(t, u)
               \/ DoorGate(t) \/ Stamp(t)
        <3>1. presence' = presence /\ pc[t] \notin RoomPCs
            BY <2>2 DEF DoorRead, DoorGate, Stamp, RoomPCs
        <3>2. \A x \in Sockets :
                 /\ x # t =>
                      pc'[x] = pc[x] /\ who'[x] = who[x] /\ seq'[x] = seq[x]
                 /\ x = t => pc'[x] \notin RoomPCs
            BY <1>1, <2>1, <2>2
               DEF DoorRead, DoorGate, Stamp, Hangup, Goto, TaskType, Tasks,
                   RoomPCs
        <3> QED
            BY <3>1, <3>2 DEF NoCrossing
    <2>3. CASE Clear(t) \/ SaveFrame(t) \/ FinishFrame(t) \/ PushState(t)
               \/ Gone(t)
        BY <1>1, <2>1, <2>3
           DEF Clear, SaveFrame, FinishFrame, PushState, Gone, Goto, TaskType,
               RoomPCs, NoCrossing, Tasks
    <2> QED
        BY <1>4, <2>2, <2>3 DEF RoomStep
<1>5. ASSUME NEW e \in Editors, EditorStep(e)
      PROVE  NoCrossing /\ presence' = presence
    BY <1>5
       DEF EditorStep, PatchRequest, PatchGate, PatchCheck, PatchSave,
           PatchRetry, QuestionRequest, QuestionWrite, DeleteRequest,
           DeleteExam, NoCrossing
<1>6. CASE EnvStep
    BY <1>6 DEF EnvStep, ClockTick, ToggleAdmission, ToggleYear, NoCrossing
<1> QED
    BY <1>2, <1>3, <1>4, <1>5, <1>6 DEF Next

\* The presence map counts exactly the sockets inside each room, so only a
\* real last-out stamps the sitting.
THEOREM PresenceCounts == Spec => []PresenceExact
<1>1. Init => PresenceExact
    <2> SUFFICES ASSUME Init, NEW u \in Students, NEW s \in Seqs
                 PROVE  presence[u][s] = Cardinality(InRoom(u, s))
        BY DEF PresenceExact
    <2>1. InRoom(u, s) = {}
        BY DEF Init, InRoom, RoomPCs, Tasks
    <2> QED
        BY <2>1, FS_EmptySet DEF Init
<1>2. ASSUME IndInv, PresenceExact, [Next]_vars
      PROVE  PresenceExact'
    <2> USE DEF tasks, locals
    <2>1. \A u, s : IsFiniteSet(InRoom(u, s))
        BY FS_Subset, SittingAssumption DEF InRoom
    <2>2. /\ TaskType
          /\ presence \in [Students -> [Seqs -> Nat]]
        BY <1>2 DEF IndInv, TypeOK, EnvType
    <2>3. ASSUME NoCrossing, presence' = presence
          PROVE  PresenceExact'
        <3>1. \A u \in Students, s \in Seqs : InRoom(u, s)' = InRoom(u, s)
            BY <2>3 DEF NoCrossing, InRoom
        <3> QED
            BY <1>2, <2>3, <3>1 DEF PresenceExact
    <2>4. ASSUME NEW t \in Sockets, Enter(t)
          PROVE  PresenceExact'
        <3>1. t \in Tasks /\ who[t] \in Students /\ seq[t] \in Seqs
            BY <1>2, <2>4 DEF Enter, Tasks, IndInv, TaskInv, TaskOK
        <3>2. /\ pc[t] \notin RoomPCs /\ pc'[t] \in RoomPCs
              /\ \A x \in Sockets \ {t} : pc'[x] = pc[x]
              /\ UNCHANGED <<who, seq>>
            BY <2>2, <2>4, <3>1 DEF Enter, Goto, RoomPCs, TaskType, Tasks
        <3> SUFFICES ASSUME NEW u \in Students, NEW s \in Seqs
                     PROVE  presence'[u][s] = Cardinality(InRoom(u, s)')
            BY DEF PresenceExact
        <3>3. presence[u][s] = Cardinality(InRoom(u, s)) /\ presence[u][s] \in Nat
            BY <1>2, <2>2 DEF PresenceExact
        <3>4. CASE u = who[t] /\ s = seq[t]
            <4>1. InRoom(u, s)' = InRoom(u, s) \cup {t} /\ t \notin InRoom(u, s)
                BY <3>2, <3>4 DEF InRoom
            <4>2. Cardinality(InRoom(u, s)') = Cardinality(InRoom(u, s)) + 1
                BY <2>1, <4>1, FS_AddElement
            <4>3. presence'[u][s] = presence[u][s] + 1
                BY <2>2, <2>4, <3>4 DEF Enter
            <4> QED
                BY <3>3, <4>2, <4>3
        <3>5. CASE ~(u = who[t] /\ s = seq[t])
            <4>1. InRoom(u, s)' = InRoom(u, s)
                BY <3>2, <3>5 DEF InRoom
            <4>2. presence'[u][s] = presence[u][s]
                BY <2>2, <2>4, <3>5 DEF Enter
            <4> QED
                BY <3>3, <4>1, <4>2
        <3> QED
            BY <3>4, <3>5
    <2>5. ASSUME NEW t \in Sockets, Leave(t)
          PROVE  PresenceExact'
        <3>1. t \in Tasks /\ who[t] \in Students /\ seq[t] \in Seqs
            BY <1>2, <2>5 DEF Leave, Tasks, IndInv, TaskInv, TaskOK
        <3>2. /\ pc[t] \in RoomPCs /\ pc'[t] \notin RoomPCs
              /\ \A x \in Sockets \ {t} :
                    pc'[x] = pc[x] /\ who'[x] = who[x] /\ seq'[x] = seq[x]
            BY <2>2, <2>5, <3>1
               DEF Leave, Hangup, Goto, RoomPCs, TaskType, Tasks
        <3> SUFFICES ASSUME NEW u \in Students, NEW s \in Seqs
                     PROVE  presence'[u][s] = Cardinality(InRoom(u, s)')
            BY DEF PresenceExact
        <3>3. presence[u][s] = Cardinality(InRoom(u, s)) /\ presence[u][s] \in Nat
            BY <1>2, <2>2 DEF PresenceExact
        <3>4. CASE u = who[t] /\ s = seq[t]
            <4>1. InRoom(u, s)' = InRoom(u, s) \ {t} /\ t \in InRoom(u, s)
                BY <3>2, <3>4 DEF InRoom
            <4>2. Cardinality(InRoom(u, s)') = Cardinality(InRoom(u, s)) - 1
                BY <2>1, <4>1, FS_RemoveElement
            <4>3. presence[u][s] # 0
                BY <2>1, <3>3, <4>1, FS_EmptySet
            <4>4. presence'[u][s] =
                     IF presence[u][s] > 1 THEN presence[u][s] - 1 ELSE 0
                BY <2>2, <2>5, <3>4 DEF Leave
            <4> QED
                BY <3>3, <4>2, <4>3, <4>4
        <3>5. CASE ~(u = who[t] /\ s = seq[t])
            <4>1. InRoom(u, s)' = InRoom(u, s)
                BY <3>2, <3>5 DEF InRoom
            <4>2. presence'[u][s] = presence[u][s]
                BY <2>2, <2>5, <3>5 DEF Leave
            <4> QED
                BY <3>3, <4>1, <4>2
        <3> QED
            BY <3>4, <3>5
    <2>6. CASE Restart
        <3> SUFFICES ASSUME NEW u \in Students, NEW s \in Seqs
                     PROVE  presence'[u][s] = Cardinality(InRoom(u, s)')
            BY DEF PresenceExact
        <3>1. InRoom(u, s)' = {}
            BY <2>6 DEF Restart, InRoom, RoomPCs, Tasks
        <3> QED
            BY <2>6, <3>1, FS_EmptySet DEF Restart
    <2>7. CASE UNCHANGED vars
        BY <2>3, <2>7 DEF vars, NoCrossing
    <2> QED
        BY <1>2, <2>3, <2>4, <2>5, <2>6, <2>7, OnlyEnterAndLeaveCross
<1>3. IndInv /\ PresenceExact /\ [Next]_vars => PresenceExact'
    BY <1>2
<1> QED
    BY <1>1, <1>3, Invariance, PTL DEF Spec

-----------------------------------------------------------------------------
(***************************************************************************)
(* Grading.  The counters are exact because every mark's claims travel     *)
(* with its row.  What is missing for an induction is what a suspended     *)
(* grade or removal may rely on: the kind it read is still its exam's, or  *)
(* a PATCH moved the exam under it and both kinds are raced.               *)
(***************************************************************************)

\* The kind a grade or a removal carries is its exam's, or both are raced.
KindKept(q) ==
    q.pc \in {"grade_gate", "grade_write", "remove"} /\ exams[q.exam] # None =>
        \/ q.kind = exams[q.exam].kind
        \/ {q.kind, exams[q.exam].kind} \subseteq raced

Kept == \A t \in Staff : KindKept(req[t])

\* The marks that count for a kind, for a student's badge, and for a pair.
KindMarks(k)    == {m \in AllMarks : exams[m[1]].kind = k}
HighMarks(u)    == {m \in AllMarks : m[2] = u /\ Row(m).mark = "high"}
PairMarks(e, u) == {m \in AllMarks : m[1] = e /\ m[2] = u}

Counts ==
    /\ IsFiniteSet(AllMarks)
    /\ KindRefExact
    /\ ResultCountExact
    /\ HighMarksExact
    /\ UnlistedKindUnmarked

GradingInv == GradingTypeOK /\ Counts /\ Kept

-----------------------------------------------------------------------------
(* Requests and rows. *)

\* A request's record is the one its state calls for.
LEMMA RequestShape ==
    ASSUME NEW q \in ReqRow
    PROVE  /\ q.pc = "idle" => q = Idle
           /\ q.pc = "grade_gate" => q \in Gating
           /\ q.pc = "grade_write" => q \in Writing
           /\ q.pc = "remove" => q \in Removing
           /\ q.pc \in {"patch_gate", "patch_check", "patch_pin", "patch_save"}
                 => q \in Patching
           /\ q.pc = "settings" => q \in Listing
BY DEF ReqRow, Idle, Gating, Writing, Removing, Patching, Listing

\* GREATEST(n, 0) is a natural, and n itself when n is one.
LEMMA FloorIsNat ==
    ASSUME NEW n \in Int
    PROVE  Floor(n) \in Nat /\ (n >= 0 => Floor(n) = n)
BY DEF Floor

\* Another round of compare-and-set is a request of the same shape, or over.
LEMMA NextRoundTyped ==
    /\ \A q \in Patching : NextRound(q) \in Patching \cup {Idle}
    /\ \A q \in Listing : NextRound(q) \in Listing \cup {Idle}
BY GradingAssumption DEF NextRound, Patching, Listing

\* Key and row of a mark.
LEMMA MarkKeys ==
    /\ \A e \in Exams, u \in Students, s \in Seqs :
          <<e, u, s>> \in AllMarks <=> result[e][u][s] # None
    /\ \A m \in AllMarks :
          /\ m[1] \in Exams /\ m[2] \in Students /\ m[3] \in Seqs
          /\ m = <<m[1], m[2], m[3]>>
          /\ result[m[1]][m[2]][m[3]] # None
BY DEF AllMarks, Row

\* Finitely many sittings, so the marks of a pair are as many as its keys.
LEMMA KeysOfSeqs ==
    ASSUME NEW S \in SUBSET Seqs, NEW K, NEW e, NEW u,
           \A m : m \in K <=> \E s \in S : m = <<e, u, s>>
    PROVE  /\ IsFiniteSet(K) /\ IsFiniteSet(S)
           /\ Cardinality(K) = Cardinality(S)
           /\ Cardinality(S) \in Nat
<1>1. IsFiniteSet(S)
    <2>1. IsFiniteSet(1 .. MaxSeq)
        BY FS_Interval, GradingAssumption
    <2> QED
        BY <2>1, FS_Subset DEF Seqs
<1> DEFINE f == [s \in S |-> <<e, u, s>>]
<1>2. f \in Bijection(S, K)
    <2>1. f \in [S -> K]
        OBVIOUS
    <2>2. \A a, b \in S : f[a] = f[b] => a = b
        OBVIOUS
    <2>3. \A m \in K : \E s \in S : f[s] = m
        OBVIOUS
    <2> HIDE DEF f
    <2> QED
        BY <2>1, <2>2, <2>3 DEF Bijection, Injection, Surjection, IsInjective
<1> HIDE DEF f
<1> QED
    BY <1>1, <1>2, FS_Bijection, FS_CardinalityType DEF ExistsBijection

\* A stored mark appears at its key, and only that row changes.
LEMMA MarksAfterGrade ==
    ASSUME GradingTypeOK, NEW e \in Exams, NEW u \in Students, NEW s \in Seqs,
           NEW row \in MarkRow,
           result' = [result EXCEPT ![e][u][s] = row]
    PROVE  /\ AllMarks' = AllMarks \cup {<<e, u, s>>}
           /\ \A m \in AllMarks \ {<<e, u, s>>} : Row(m)' = Row(m)
           /\ Row(<<e, u, s>>)' = row
           /\ <<e, u, s>> \in AllMarks <=> result[e][u][s] # None
<1>1. \A d \in Exams, v \in Students, r \in Seqs :
        result'[d][v][r] = IF d = e /\ v = u /\ r = s THEN row
                           ELSE result[d][v][r]
    BY DEF GradingTypeOK
<1>2. row # None
    BY GradingAssumption
<1> QED
    BY <1>1, <1>2 DEF AllMarks, Row

\* A removal drops the marks of the pair and touches no other.
LEMMA MarksAfterRemove ==
    ASSUME GradingTypeOK, NEW e \in Exams, NEW u \in Students,
           result' = [result EXCEPT ![e][u] = [s \in Seqs |-> None]]
    PROVE  /\ AllMarks' = AllMarks \ PairMarks(e, u)
           /\ \A m \in AllMarks' : Row(m)' = Row(m)
<1>1. \A d \in Exams, v \in Students, r \in Seqs :
        result'[d][v][r] = IF d = e /\ v = u THEN None ELSE result[d][v][r]
    BY DEF GradingTypeOK
<1> QED
    BY <1>1 DEF AllMarks, Row, PairMarks

\* An exam's delete drops its marks and touches no other.
LEMMA MarksAfterDelete ==
    ASSUME GradingTypeOK, NEW e \in Exams,
           result' = [result EXCEPT ![e] = NoMarks]
    PROVE  /\ AllMarks' = AllMarks \ MarksOf(e)
           /\ \A m \in AllMarks' : Row(m)' = Row(m)
<1>1. \A d \in Exams, v \in Students, r \in Seqs :
        result'[d][v][r] = IF d = e THEN None ELSE result[d][v][r]
    BY DEF GradingTypeOK, NoMarks
<1> QED
    BY <1>1 DEF AllMarks, Row, MarksOf

\* The rows a removal counts are the pair's marks.
LEMMA PairCounted ==
    ASSUME NEW e \in Exams, NEW u \in Students
    PROVE  /\ Cardinality(Marked(e, u)) = Cardinality(PairMarks(e, u))
           /\ Cardinality(Marked(e, u)) \in Nat
           /\ Marked(e, u) # {} <=> PairMarks(e, u) # {}
<1>1. Marked(e, u) \in SUBSET Seqs
    BY DEF Marked
<1>2. \A m : m \in PairMarks(e, u) <=> \E s \in Marked(e, u) : m = <<e, u, s>>
    BY MarkKeys DEF PairMarks, Marked
<1> DEFINE S == Marked(e, u)
           K == PairMarks(e, u)
<1>3. S \in SUBSET Seqs /\ \A m : m \in K <=> \E s \in S : m = <<e, u, s>>
    BY <1>1, <1>2
<1>4. S # {} <=> K # {}
    BY <1>3
<1> HIDE DEF S, K
<1>5. Cardinality(K) = Cardinality(S) /\ Cardinality(S) \in Nat
    BY <1>3, KeysOfSeqs
<1> QED
    BY <1>4, <1>5 DEF S, K

\* And so are the high ones.
LEMMA HighPairCounted ==
    ASSUME NEW e \in Exams, NEW u \in Students
    PROVE  /\ Cardinality(HighMarked(e, u))
                = Cardinality(HighMarks(u) \cap PairMarks(e, u))
           /\ Cardinality(HighMarked(e, u)) \in Nat
<1>1. HighMarked(e, u) \in SUBSET Seqs
    BY DEF HighMarked, Marked
<1>2. \A m : m \in HighMarks(u) \cap PairMarks(e, u)
                <=> \E s \in HighMarked(e, u) : m = <<e, u, s>>
    BY MarkKeys DEF PairMarks, HighMarks, HighMarked, Marked, Row
<1> DEFINE S == HighMarked(e, u)
           K == HighMarks(u) \cap PairMarks(e, u)
<1>3. S \in SUBSET Seqs /\ \A m : m \in K <=> \E s \in S : m = <<e, u, s>>
    BY <1>1, <1>2
<1> HIDE DEF S, K
<1>4. Cardinality(K) = Cardinality(S) /\ Cardinality(S) \in Nat
    BY <1>3, KeysOfSeqs
<1> QED
    BY <1>4 DEF S, K

\* The marks any counter looks at are finitely many.
LEMMA PartsFinite ==
    ASSUME IsFiniteSet(AllMarks)
    PROVE  /\ \A k : /\ IsFiniteSet(KindMarks(k))
                     /\ Cardinality(KindMarks(k)) \in Nat
           /\ \A e : IsFiniteSet(MarksOf(e)) /\ Cardinality(MarksOf(e)) \in Nat
           /\ \A u : /\ IsFiniteSet(HighMarks(u))
                     /\ Cardinality(HighMarks(u)) \in Nat
<1>1. \A S : S \subseteq AllMarks => IsFiniteSet(S) /\ Cardinality(S) \in Nat
    BY FS_Subset, FS_CardinalityType
<1> QED
    BY <1>1 DEF KindMarks, MarksOf, HighMarks

\* What is left of a finite set after some of its members go.
LEMMA DroppedCount ==
    ASSUME NEW S, IsFiniteSet(S), NEW T
    PROVE  /\ Cardinality(S \ T) = Cardinality(S) - Cardinality(S \cap T)
           /\ Cardinality(S \cap T) \in Nat
           /\ Cardinality(S) \in Nat
           /\ Cardinality(S) - Cardinality(S \cap T) >= 0
<1>1. IsFiniteSet(S \cap T) /\ IsFiniteSet(S \ T)
    BY FS_Subset
<1>2. /\ Cardinality(S \cap T) \in Nat /\ Cardinality(S) \in Nat
      /\ Cardinality(S \ T) \in Nat
    BY <1>1, FS_CardinalityType
<1>3. Cardinality(S \ T) = Cardinality(S) - Cardinality(S \cap T)
    BY FS_Difference
<1> QED
    BY <1>2, <1>3

\* The four counters, read through the sets above.
LEMMA CountersRead ==
    /\ KindRefExact <=>
          \A k \in Kinds \ raced : kindRef[k].count = Cardinality(KindMarks(k))
    /\ HighMarksExact <=>
          \A u \in Students :
              highTotal[u] = sweptHigh[u] + Cardinality(HighMarks(u))
BY DEF KindRefExact, HighMarksExact, KindMarks, HighMarks

-----------------------------------------------------------------------------
(* Frames. *)

\* A step that writes no table a counter or a mark lives in keeps them exact.
LEMMA CountsFrame ==
    ASSUME Counts,
           UNCHANGED <<exams, result, kindRef, offered, raced, highTotal, sweptHigh>>
    PROVE  Counts'
<1>1. AllMarks' = AllMarks
    BY DEF AllMarks, Row
<1>2. \A m : Row(m)' = Row(m)
    BY DEF Row
<1>3. \A e : MarksOf(e)' = MarksOf(e)
    BY <1>1 DEF MarksOf
<1>4. /\ \A k : KindMarks(k)' = KindMarks(k)
      /\ \A u : HighMarks(u)' = HighMarks(u)
    BY <1>1, <1>2 DEF KindMarks, HighMarks
<1>5. KindRefExact' /\ HighMarksExact'
    BY <1>4, CountersRead DEF Counts, KindRefExact, HighMarksExact, KindMarks, HighMarks
<1>6. ResultCountExact' /\ UnlistedKindUnmarked'
    BY <1>1, <1>3 DEF Counts, ResultCountExact, UnlistedKindUnmarked
<1> QED
    BY <1>1, <1>5, <1>6 DEF Counts

\* One request moves on, and no exam changes its kind or comes back.
LEMMA KeptFrame ==
    ASSUME Kept, GradingTypeOK, NEW t \in Staff, NEW q,
           req' = [req EXCEPT ![t] = q], raced' = raced,
           \A e \in Exams : exams'[e] # None =>
               exams[e] # None /\ exams'[e].kind = exams[e].kind,
           q \in ReqRow, KindKept(q)
    PROVE  Kept'
<1> SUFFICES ASSUME NEW x \in Staff PROVE KindKept(req[x])'
    BY DEF Kept
<1>1. req'[x] = q \/ req'[x] = req[x]
    BY DEF GradingTypeOK
<1>2. req'[x] \in ReqRow /\ KindKept(req'[x])
    BY <1>1 DEF GradingTypeOK, Kept
<1> DEFINE y == req'[x]
<1>3. y.pc \in {"grade_gate", "grade_write", "remove"} => y.exam \in Exams
    BY <1>2, RequestShape DEF Gating, Writing, Removing
<1> QED
    BY <1>2, <1>3 DEF KindKept

\* Request t goes on as a request whose kind is kept.
Moves(t) ==
    \E q \in ReqRow : KindKept(q) /\ req' = [req EXCEPT ![t] = q]

\* A request that ends carries no kind.
LEMMA IdleMoves == Idle \in ReqRow /\ KindKept(Idle)
BY DEF ReqRow, Idle, KindKept

\* A PATCH or settings request carries no kind.
LEMMA OthersMove ==
    ASSUME NEW q \in Patching \cup Listing \cup {Idle}
    PROVE  q \in ReqRow /\ KindKept(q)
BY IdleMoves DEF ReqRow, KindKept, Patching, Listing

\* grade, from the handler's read to its gate.
LEMMA GradeReadMoves ==
    ASSUME GradingTypeOK, NEW t \in Staff, NEW e \in Exams, NEW u \in Students,
           NEW g \in Graders, NEW n \in Marks, GradeRead(t, e, u, g, n)
    PROVE  Moves(t)
<1> DEFINE q == [pc |-> "grade_gate", exam |-> e, user |-> u, by |-> g,
                 mark |-> n, kind |-> exams[e].kind, seq |-> 0]
<1>1. exams[e].kind \in Kinds
    BY DEF GradeRead, GradingTypeOK, GradedRow
<1>2. q \in Gating
    BY <1>1 DEF Gating
<1>3. KindKept(q)
    BY DEF KindKept
<1>4. req' = [req EXCEPT ![t] = q]
    BY DEF GradeRead
<1> HIDE DEF q
<1> QED
    BY <1>2, <1>3, <1>4 DEF Moves, ReqRow

\* grade's gate on the settings' list: the request goes on to write, or ends.
LEMMA GradeGateMoves ==
    ASSUME GradingTypeOK, Kept, NEW t \in Staff, GradeGate(t)
    PROVE  Moves(t)
<1>1. PICK q \in Gating : q = req[t]
    BY RequestShape DEF GradingTypeOK, GradeGate
<1>2. KindKept(q)
    BY <1>1 DEF Kept
<1> DEFINE n == sittings[q.exam][q.user]
           r == [q EXCEPT !.pc = "grade_write", !.seq = IF n = 0 THEN 1 ELSE n]
<1>3. req' = [req EXCEPT ![t] = IF q.kind \in offered THEN r ELSE Idle]
    BY <1>1 DEF GradeGate
<1>4. n \in 0 .. MaxSeq
    BY DEF GradingTypeOK, Gating
<1>5. (IF n = 0 THEN 1 ELSE n) \in Seqs
    BY <1>4, GradingAssumption DEF Seqs
<1>6. r \in Writing /\ r.kind = q.kind /\ r.exam = q.exam
    <2> HIDE DEF n
    <2> QED
        BY <1>5 DEF Gating, Writing
<1>7. KindKept(r)
    <2> HIDE DEF r
    <2> QED
        BY <1>2, <1>6 DEF KindKept, Gating
<1> HIDE DEF r
<1> QED
    BY <1>3, <1>6, <1>7, IdleMoves DEF Moves, ReqRow

\* A write that commits, or finds nothing to do, ends its request.
LEMMA WriteMoves ==
    ASSUME NEW t \in Staff, GradeWrite(t) \/ RemoveWrite(t)
    PROVE  Moves(t)
<1>1. req' = [req EXCEPT ![t] = Idle]
    BY DEF GradeWrite, RemoveWrite
<1> QED
    BY <1>1, IdleMoves DEF Moves

\* remove_result's read.
LEMMA RemoveReadMoves ==
    ASSUME GradingTypeOK, NEW t \in Staff, NEW e \in Exams, NEW u \in Students,
           RemoveRead(t, e, u)
    PROVE  Moves(t)
<1> DEFINE q == [pc |-> "remove", exam |-> e, user |-> u,
                 kind |-> exams[e].kind]
<1>1. exams[e].kind \in Kinds
    BY DEF RemoveRead, GradingTypeOK, GradedRow
<1>2. q \in Removing
    BY <1>1 DEF Removing
<1>3. KindKept(q)
    BY DEF KindKept
<1>4. req' = [req EXCEPT ![t] = q]
    BY DEF RemoveRead
<1> HIDE DEF q
<1> QED
    BY <1>2, <1>3, <1>4 DEF Moves, ReqRow

\* update, round by round.
LEMMA PatchMoves ==
    ASSUME GradingTypeOK, NEW t \in Staff,
           \/ \E e \in Exams, p \in KindPatches : PatchKindRead(t, e, p)
           \/ PatchKindGate(t) \/ PatchKindCheck(t) \/ PatchKindPin(t)
           \/ PatchKindSave(t)
    PROVE  Moves(t)
<1>1. ASSUME NEW e \in Exams, NEW p \in KindPatches, PatchKindRead(t, e, p)
      PROVE  Moves(t)
    <2> DEFINE q == [pc |-> "patch_gate", exam |-> e, patch |-> p,
                     base |-> exams[e], pinned |-> 0, left |-> Tries]
    <2>1. exams[e] \in GradedRow /\ p \in KindPatch /\ Tries \in 1 .. Tries
        BY <1>1, GradingAssumption DEF PatchKindRead, GradingTypeOK
    <2>2. q \in Patching
        BY <2>1 DEF Patching
    <2>3. req' = [req EXCEPT ![t] = q]
        BY <1>1 DEF PatchKindRead
    <2> HIDE DEF q
    <2> QED
        BY <2>2, <2>3, OthersMove DEF Moves
<1>2. CASE PatchKindGate(t) \/ PatchKindCheck(t)
    <2>1. PICK q \in Patching : q = req[t]
        BY <1>2, RequestShape DEF GradingTypeOK, PatchKindGate, PatchKindCheck
    <2> DEFINE a == [q EXCEPT !.pc = "patch_check"]
               b == [q EXCEPT !.pc = "patch_pin"]
    <2>2. a \in Patching /\ b \in Patching
        BY DEF Patching
    <2>3. \E r \in {Idle, a, b} : req' = [req EXCEPT ![t] = r]
        BY <1>2, <2>1 DEF PatchKindGate, PatchKindCheck
    <2> HIDE DEF a, b
    <2> QED
        BY <2>2, <2>3, OthersMove DEF Moves
<1>3. CASE PatchKindPin(t)
    <2>1. PICK q \in Patching : q = req[t]
        BY <1>3, RequestShape DEF GradingTypeOK, PatchKindPin
    <2> DEFINE n == IF exams[q.exam] = None THEN 0 ELSE exams[q.exam].result_count
               a == [q EXCEPT !.pc = "patch_save", !.pinned = n]
    <2>2. n \in Nat
        BY DEF GradingTypeOK, GradedRow, Patching
    <2>3. a \in Patching
        <3> HIDE DEF n
        <3> QED
            BY <2>2 DEF Patching
    <2>4. req' = [req EXCEPT ![t] = a]
        BY <1>3, <2>1 DEF PatchKindPin
    <2> HIDE DEF a
    <2> QED
        BY <2>3, <2>4, OthersMove DEF Moves
<1>4. CASE PatchKindSave(t)
    <2>1. PICK q \in Patching : q = req[t]
        BY <1>4, RequestShape DEF GradingTypeOK, PatchKindSave
    <2> DEFINE a == [q EXCEPT !.pc = "patch_gate", !.base = exams[q.exam],
                              !.pinned = 0]
    <2>2. exams[q.exam] # None => a \in Patching
        BY DEF GradingTypeOK, Patching
    <2>3. \/ req' = [req EXCEPT ![t] = Idle]
          \/ exams[q.exam] # None /\ req' = [req EXCEPT ![t] = NextRound(a)]
        BY <1>4, <2>1 DEF PatchKindSave
    <2> HIDE DEF a
    <2>4. exams[q.exam] # None => NextRound(a) \in Patching \cup {Idle}
        BY <2>2, NextRoundTyped
    <2> QED
        BY <2>3, <2>4, OthersMove DEF Moves
<1> QED
    BY <1>1, <1>2, <1>3, <1>4

\* apply, round by round.
LEMMA SettingsMoves ==
    ASSUME GradingTypeOK, NEW t \in Staff,
           \/ \E list \in SUBSET Kinds : SettingsRead(t, list)
           \/ SettingsSave(t)
    PROVE  Moves(t)
<1>1. ASSUME NEW list \in SUBSET Kinds, SettingsRead(t, list)
      PROVE  Moves(t)
    <2> DEFINE q == [pc |-> "settings", was |-> offered, list |-> list,
                     left |-> Tries]
    <2>1. q \in Listing
        BY GradingAssumption DEF GradingTypeOK, Listing
    <2>2. req' = [req EXCEPT ![t] = q]
        BY <1>1 DEF SettingsRead
    <2> HIDE DEF q
    <2> QED
        BY <2>1, <2>2, OthersMove DEF Moves
<1>2. CASE SettingsSave(t)
    <2>1. PICK q \in Listing : q = req[t]
        BY <1>2, RequestShape DEF GradingTypeOK, SettingsSave
    <2> DEFINE a == [q EXCEPT !.was = offered]
    <2>2. a \in Listing
        BY DEF GradingTypeOK, Listing
    <2>3. \/ req' = [req EXCEPT ![t] = Idle]
          \/ req' = [req EXCEPT ![t] = NextRound(a)]
        BY <1>2, <2>1 DEF SettingsSave
    <2> HIDE DEF a
    <2>4. NextRound(a) \in Listing \cup {Idle}
        BY <2>2, NextRoundTyped
    <2> QED
        BY <2>3, <2>4, OthersMove DEF Moves
<1> QED
    BY <1>1, <1>2

\* A request that moves keeps the requests typed.
LEMMA MovesTyped ==
    ASSUME GradingTypeOK, NEW t \in Staff, Moves(t)
    PROVE  req' \in [Staff -> ReqRow]
BY DEF GradingTypeOK, Moves

\* A step of request t that changes no kind keeps every request's kind.
LEMMA MovesKept ==
    ASSUME GradingTypeOK, Kept, NEW t \in Staff, Moves(t), raced' = raced,
           \A e \in Exams : exams'[e] # None =>
               exams[e] # None /\ exams'[e].kind = exams[e].kind
    PROVE  Kept'
<1>1. PICK q \in ReqRow : KindKept(q) /\ req' = [req EXCEPT ![t] = q]
    BY DEF Moves
<1> QED
    BY <1>1, KeptFrame

\* A step of request t that writes no table.
LEMMA ReadOnly ==
    ASSUME GradingInv, NEW t \in Staff, Moves(t), UNCHANGED <<tables, kinds, badges>>
    PROVE  GradingInv'
<1>1. GradingTypeOK'
    BY MovesTyped DEF GradingInv, GradingTypeOK, tables, kinds, badges
<1>2. Counts'
    BY CountsFrame DEF GradingInv, tables, kinds, badges
<1>3. Kept'
    BY MovesKept DEF GradingInv, tables, kinds
<1> QED
    BY <1>1, <1>2, <1>3 DEF GradingInv

-----------------------------------------------------------------------------
(* The writes of grade, remove and delete on the counters. *)

\* A mark lands on its exam: one more for its kind and its exam when the row is
\* new, the difference for its student's badge.
LEMMA GradeCounts ==
    ASSUME GradingTypeOK, Counts,
           NEW e \in Exams, NEW u \in Students, NEW s \in Seqs,
           NEW row \in MarkRow, NEW k \in Kinds,
           exams[e] # None,
           k = exams[e].kind \/ {k, exams[e].kind} \subseteq raced,
           result[e][u][s] = None => ~kindRef[k].retired,
           result' = [result EXCEPT ![e][u][s] = row],
           exams' = [exams EXCEPT ![e].result_count =
                       @ + (IF result[e][u][s] = None THEN 1 ELSE 0)],
           kindRef' = IF result[e][u][s] = None
                      THEN [kindRef EXCEPT ![k].count = @ + 1] ELSE kindRef,
           highTotal' = [highTotal EXCEPT ![u] =
                           Floor(@ + HighMove(result[e][u][s], row.mark))],
           UNCHANGED <<offered, raced, sweptHigh>>
    PROVE  Counts'
<1> DEFINE key == <<e, u, s>>
           new == result[e][u][s] = None
           d   == IF new THEN 1 ELSE 0
<1>1. /\ AllMarks' = AllMarks \cup {key}
      /\ \A m \in AllMarks \ {key} : Row(m)' = Row(m)
      /\ Row(key)' = row
      /\ key \in AllMarks <=> ~new
    BY MarksAfterGrade
<1>2. /\ key[1] = e /\ key[2] = u
      /\ Row(key) = result[e][u][s]
    BY DEF Row
<1>3. /\ exams[e] \in GradedRow
      /\ exams'[e].kind = exams[e].kind
      /\ exams'[e].result_count = exams[e].result_count + d
      /\ exams'[e] # None
      /\ \A x \in Exams \ {e} : exams'[x] = exams[x]
      /\ \A x \in Exams : exams[x] # None => exams'[x].kind = exams[x].kind
    <2>1. exams[e] \in GradedRow
        BY DEF GradingTypeOK
    <2>2. /\ exams'[e] = [exams[e] EXCEPT !.result_count = @ + d]
          /\ \A x \in Exams \ {e} : exams'[x] = exams[x]
        BY DEF GradingTypeOK
    <2>3. exams'[e] \in GradedRow /\ exams'[e].kind = exams[e].kind
          /\ exams'[e].result_count = exams[e].result_count + d
        BY <2>1, <2>2 DEF GradedRow
    <2> QED
        BY <2>1, <2>2, <2>3, GradingAssumption
<1>4. /\ IsFiniteSet(AllMarks)
      /\ \A m \in AllMarks : m[1] \in Exams /\ exams[m[1]] # None
    <2>1. \A m \in AllMarks : m[1] \in Exams
        BY MarkKeys
    <2> QED
        BY <2>1 DEF Counts, ResultCountExact, MarksOf
<1> HIDE DEF key
<1>5. IsFiniteSet(AllMarks')
    BY <1>1, <1>4, FS_AddElement
<1>6. KindRefExact'
    <2>1. \A c : KindMarks(c)' = IF c = exams[e].kind THEN KindMarks(c) \cup {key}
                                 ELSE KindMarks(c)
        <3>1. \A m \in AllMarks : exams'[m[1]].kind = exams[m[1]].kind
            BY <1>3, <1>4
        <3> QED
            BY <1>1, <1>2, <1>3, <3>1 DEF KindMarks
    <2>2. \A c : key \in KindMarks(c) <=> ~new /\ c = exams[e].kind
        BY <1>1, <1>2 DEF KindMarks
    <2>3. \A c : IsFiniteSet(KindMarks(c)) /\ Cardinality(KindMarks(c)) \in Nat
        BY <1>4, PartsFinite
    <2>4. \A c \in Kinds : Cardinality(KindMarks(c)') =
             Cardinality(KindMarks(c)) + (IF new /\ c = exams[e].kind THEN 1 ELSE 0)
        <3> TAKE c \in Kinds
        <3>1. CASE c = exams[e].kind
            <4>1. Cardinality(KindMarks(c) \cup {key}) =
                    IF key \in KindMarks(c) THEN Cardinality(KindMarks(c))
                    ELSE Cardinality(KindMarks(c)) + 1
                BY <2>3, FS_AddElement
            <4>2. KindMarks(c)' = KindMarks(c) \cup {key}
                BY <2>1, <3>1
            <4>3. key \in KindMarks(c) <=> ~new
                BY <2>2, <3>1
            <4> HIDE DEF new
            <4> QED
                BY <2>3, <3>1, <4>1, <4>2, <4>3
        <3>2. CASE c # exams[e].kind
            BY <2>1, <2>3, <3>2
        <3> QED
            BY <3>1, <3>2
    <2>5. \A c \in Kinds : kindRef'[c].count =
             kindRef[c].count + (IF new /\ c = k THEN 1 ELSE 0)
        BY DEF GradingTypeOK
    <2>6. \A c \in Kinds \ raced : kindRef[c].count = Cardinality(KindMarks(c))
        BY CountersRead DEF Counts
    <2>7. \A c \in Kinds \ raced : c = k <=> c = exams[e].kind
        OBVIOUS
    <2>8. \A c \in Kinds \ raced : kindRef'[c].count = Cardinality(KindMarks(c)')
        BY <2>4, <2>5, <2>6, <2>7
    <2> QED
        BY <2>8 DEF KindRefExact, KindMarks
<1>7. ResultCountExact'
    <2>1. MarksOf(e)' = MarksOf(e) \cup {key} /\ (key \in MarksOf(e) <=> ~new)
        BY <1>1, <1>2 DEF MarksOf
    <2>2. \A x \in Exams \ {e} : MarksOf(x)' = MarksOf(x)
        BY <1>1, <1>2 DEF MarksOf
    <2>3. IsFiniteSet(MarksOf(e)) /\ Cardinality(MarksOf(e)) \in Nat
        BY <1>4, PartsFinite
    <2>4. Cardinality(MarksOf(e)') = Cardinality(MarksOf(e)) + d
        <3>1. Cardinality(MarksOf(e) \cup {key}) =
                IF key \in MarksOf(e) THEN Cardinality(MarksOf(e))
                ELSE Cardinality(MarksOf(e)) + 1
            BY <2>3, FS_AddElement
        <3> QED
            BY <2>1, <2>3, <3>1
    <2>5. \A x \in Exams :
            IF exams'[x] = None THEN MarksOf(x)' = {}
            ELSE exams'[x].result_count = Cardinality(MarksOf(x)')
        <3> TAKE x \in Exams
        <3>1. IF exams[x] = None THEN MarksOf(x) = {}
              ELSE exams[x].result_count = Cardinality(MarksOf(x))
            BY DEF Counts, ResultCountExact
        <3>2. CASE x = e
            BY <1>3, <2>4, <3>1, <3>2
        <3>3. CASE x # e
            BY <1>3, <2>2, <3>1, <3>3
        <3> QED
            BY <3>2, <3>3
    <2> QED
        BY <2>5 DEF ResultCountExact
<1>8. HighMarksExact'
    <2> DEFINE was == ~new /\ result[e][u][s].mark = "high"
               high == row.mark = "high"
    <2>1. \A v \in Students \ {u} : HighMarks(v)' = HighMarks(v)
        BY <1>1, <1>2 DEF HighMarks
    <2>2. /\ HighMarks(u)' = (HighMarks(u) \ {key}) \cup (IF high THEN {key} ELSE {})
          /\ key \in HighMarks(u) <=> was
        BY <1>1, <1>2 DEF HighMarks
    <2>3. IsFiniteSet(HighMarks(u)) /\ Cardinality(HighMarks(u)) \in Nat
        BY <1>4, PartsFinite
    <2>4. /\ IsFiniteSet(HighMarks(u) \ {key})
          /\ Cardinality(HighMarks(u) \ {key}) =
               Cardinality(HighMarks(u)) - (IF was THEN 1 ELSE 0)
        <3>1. /\ IsFiniteSet(HighMarks(u) \ {key})
              /\ Cardinality(HighMarks(u) \ {key}) =
                   IF key \in HighMarks(u) THEN Cardinality(HighMarks(u)) - 1
                   ELSE Cardinality(HighMarks(u))
            BY <2>3, FS_RemoveElement
        <3> QED
            BY <2>2, <2>3, <3>1
    <2>5. Cardinality(HighMarks(u) \ {key}) \in Nat
        BY <2>4, FS_CardinalityType
    <2>6. Cardinality(HighMarks(u)') =
             Cardinality(HighMarks(u) \ {key}) + (IF high THEN 1 ELSE 0)
        <3>1. Cardinality((HighMarks(u) \ {key}) \cup {key}) =
                Cardinality(HighMarks(u) \ {key}) + 1
            BY <2>4, FS_AddElement
        <3>2. CASE high
            <4>1. HighMarks(u)' = (HighMarks(u) \ {key}) \cup {key}
                BY <2>2, <3>2
            <4> QED
                BY <3>1, <3>2, <4>1
        <3>3. CASE ~high
            <4>1. HighMarks(u)' = HighMarks(u) \ {key}
                BY <2>2, <3>3
            <4> QED
                BY <2>5, <3>3, <4>1
        <3> QED
            BY <3>2, <3>3
    <2>7. HighMove(result[e][u][s], row.mark) =
             (IF high THEN 1 ELSE 0) - (IF was THEN 1 ELSE 0)
        BY DEF HighMove
    <2>8. highTotal[u] = sweptHigh[u] + Cardinality(HighMarks(u))
          /\ highTotal[u] \in Nat /\ sweptHigh[u] \in Nat
        BY CountersRead DEF Counts, GradingTypeOK
    <2>9. highTotal'[u] =
             Floor(highTotal[u] + HighMove(result[e][u][s], row.mark))
        BY DEF GradingTypeOK
    <2> HIDE DEF was, high
    <2>10. highTotal'[u] = sweptHigh'[u] + Cardinality(HighMarks(u)')
        BY <2>3, <2>4, <2>5, <2>6, <2>7, <2>8, <2>9 DEF Floor
    <2>11. \A v \in Students : highTotal'[v] = sweptHigh'[v] + Cardinality(HighMarks(v)')
        <3> TAKE v \in Students
        <3>1. CASE v = u
            BY <2>10, <3>1
        <3>2. CASE v # u
            <4>1. highTotal'[v] = highTotal[v]
                BY <3>2 DEF GradingTypeOK
            <4>2. highTotal[v] = sweptHigh[v] + Cardinality(HighMarks(v))
                BY CountersRead DEF Counts
            <4> QED
                BY <2>1, <3>2, <4>1, <4>2
        <3> QED
            BY <3>1, <3>2
    <2> QED
        BY <2>11 DEF HighMarksExact, HighMarks
<1>9. UnlistedKindUnmarked'
    <2>1. \A c \in Kinds : kindRef'[c].retired = kindRef[c].retired
        BY DEF GradingTypeOK
    <2>2. exams[e].kind \in offered \cup raced
        <3>1. CASE new
            BY <1>3, <3>1 DEF Counts, UnlistedKindUnmarked
        <3>2. CASE ~new
            BY <1>1, <1>2, <3>2 DEF Counts, UnlistedKindUnmarked
        <3> QED
            BY <3>1, <3>2
    <2>3. \A m \in AllMarks' : exams'[m[1]].kind \in offered \cup raced
        BY <1>1, <1>2, <1>3, <1>4, <2>2 DEF Counts, UnlistedKindUnmarked
    <2> QED
        BY <2>1, <2>3 DEF Counts, UnlistedKindUnmarked
<1> QED
    BY <1>5, <1>6, <1>7, <1>8, <1>9 DEF Counts

\* Where a set of marks goes, its kind, its exam and its student give back what
\* of it was theirs.  X is the marks that go, all of one exam.
LEMMA DropCounts ==
    ASSUME GradingTypeOK, Counts, NEW X, NEW e \in Exams,
           AllMarks' = AllMarks \ X,
           \A m \in AllMarks' : Row(m)' = Row(m),
           X \subseteq MarksOf(e)
    PROVE  /\ IsFiniteSet(AllMarks')
           /\ \A c : /\ {m \in AllMarks' : exams[m[1]].kind = c} = KindMarks(c) \ X
                     /\ KindMarks(c) \cap X =
                          IF c = exams[e].kind THEN X ELSE {}
           /\ MarksOf(e)' = MarksOf(e) \ X /\ MarksOf(e) \cap X = X
           /\ \A x \in Exams \ {e} : MarksOf(x)' = MarksOf(x)
           /\ \A v : HighMarks(v)' = HighMarks(v) \ X
           /\ \A m \in AllMarks' : m[1] \in Exams /\ exams[m[1]] # None
<1>1. IsFiniteSet(AllMarks')
    BY FS_Subset DEF Counts
<1>2. \A m \in AllMarks : m[1] \in Exams /\ exams[m[1]] # None
    <2>1. \A m \in AllMarks : m[1] \in Exams
        BY MarkKeys
    <2> QED
        BY <2>1 DEF Counts, ResultCountExact, MarksOf
<1>3. \A m \in X : m \in AllMarks /\ m[1] = e
    BY DEF MarksOf
<1>4. \A c : /\ {m \in AllMarks' : exams[m[1]].kind = c} = KindMarks(c) \ X
             /\ KindMarks(c) \cap X = IF c = exams[e].kind THEN X ELSE {}
    BY <1>3 DEF KindMarks
<1>5. /\ MarksOf(e)' = MarksOf(e) \ X /\ MarksOf(e) \cap X = X
      /\ \A x \in Exams \ {e} : MarksOf(x)' = MarksOf(x)
    BY <1>3 DEF MarksOf
<1>6. \A v : HighMarks(v)' = HighMarks(v) \ X
    BY DEF HighMarks
<1> QED
    BY <1>1, <1>2, <1>4, <1>5, <1>6

\* A removal: the pair's marks go, and each counter gives back the pair's share.
LEMMA RemoveCounts ==
    ASSUME GradingTypeOK, Counts, NEW e \in Exams, NEW u \in Students,
           NEW k \in Kinds, exams[e] # None,
           k = exams[e].kind \/ {k, exams[e].kind} \subseteq raced,
           result' = [result EXCEPT ![e][u] = [s \in Seqs |-> None]],
           kindRef' = [kindRef EXCEPT ![k].count =
                         Floor(@ - Cardinality(Marked(e, u)))],
           exams' = [exams EXCEPT ![e].result_count =
                       Floor(@ - Cardinality(Marked(e, u)))],
           highTotal' = [highTotal EXCEPT ![u] =
                           Floor(@ - Cardinality(HighMarked(e, u)))],
           UNCHANGED <<offered, raced, sweptHigh>>
    PROVE  Counts'
<1> DEFINE X == PairMarks(e, u)
           n == Cardinality(Marked(e, u))
<1>1. AllMarks' = AllMarks \ X /\ \A m \in AllMarks' : Row(m)' = Row(m)
    BY MarksAfterRemove
<1>2. X \subseteq MarksOf(e)
    BY DEF PairMarks, MarksOf
<1>3. n = Cardinality(X) /\ n \in Nat
    BY PairCounted
<1>4. /\ exams[e] \in GradedRow
      /\ exams'[e] = [exams[e] EXCEPT !.result_count = Floor(@ - n)]
      /\ \A x \in Exams \ {e} : exams'[x] = exams[x]
    BY DEF GradingTypeOK
<1>5. \A c : c # u => HighMarks(c) \cap X = {}
    BY DEF HighMarks, PairMarks
<1>6. Cardinality(HighMarked(e, u)) = Cardinality(HighMarks(u) \cap X)
    BY HighPairCounted
<1>7. IsFiniteSet(AllMarks)
    BY DEF Counts
<1> HIDE DEF X, n
<1>8. /\ IsFiniteSet(AllMarks')
      /\ \A c : /\ {m \in AllMarks' : exams[m[1]].kind = c} = KindMarks(c) \ X
                /\ KindMarks(c) \cap X = IF c = exams[e].kind THEN X ELSE {}
      /\ MarksOf(e)' = MarksOf(e) \ X /\ MarksOf(e) \cap X = X
      /\ \A x \in Exams \ {e} : MarksOf(x)' = MarksOf(x)
      /\ \A v : HighMarks(v)' = HighMarks(v) \ X
      /\ \A m \in AllMarks' : m[1] \in Exams /\ exams[m[1]] # None
    BY <1>1, <1>2, DropCounts
<1>9. /\ exams'[e].kind = exams[e].kind /\ exams'[e] # None
      /\ exams'[e].result_count = Floor(exams[e].result_count - n)
      /\ \A m \in AllMarks' : exams'[m[1]].kind = exams[m[1]].kind
    <2>1. Floor(exams[e].result_count - n) \in Nat
        BY <1>3, <1>4, FloorIsNat DEF GradedRow
    <2>2. /\ exams'[e] \in GradedRow /\ exams'[e].kind = exams[e].kind
          /\ exams'[e].result_count = Floor(exams[e].result_count - n)
        BY <1>4, <2>1 DEF GradedRow
    <2> QED
        BY <1>4, <1>8, <2>2, GradingAssumption
<1>10. KindRefExact'
    <2>1. \A c : KindMarks(c)' = KindMarks(c) \ X
        <3>1. \A c : KindMarks(c)' = {m \in AllMarks' : exams[m[1]].kind = c}
            BY <1>9 DEF KindMarks
        <3> QED
            BY <1>8, <3>1
    <2> SUFFICES ASSUME NEW c \in Kinds \ raced
                 PROVE  kindRef'[c].count = Cardinality(KindMarks(c)')
        BY DEF KindRefExact, KindMarks
    <2>2. kindRef[c].count = Cardinality(KindMarks(c))
        BY CountersRead DEF Counts
    <2>3. IsFiniteSet(KindMarks(c)) /\ Cardinality(KindMarks(c)) \in Nat
        BY <1>7, PartsFinite
    <2>4. CASE c = k
        <3>1. c = exams[e].kind
            BY <2>4
        <3>2. KindMarks(c) \cap X = X
            BY <1>8, <3>1
        <3>3. /\ Cardinality(KindMarks(c) \ X) = Cardinality(KindMarks(c)) - n
              /\ Cardinality(KindMarks(c)) - n >= 0
            BY <1>3, <2>3, <3>2, DroppedCount
        <3>4. kindRef'[c].count = Floor(kindRef[c].count - n)
            BY <2>4 DEF GradingTypeOK, n
        <3>5. KindMarks(c)' = KindMarks(c) \ X
            BY <2>1
        <3>6. kindRef'[c].count = Cardinality(KindMarks(c)) - n
            BY <1>3, <2>2, <2>3, <3>3, <3>4 DEF Floor
        <3> QED
            BY <3>3, <3>5, <3>6
    <2>5. CASE c # k
        <3>1. c # exams[e].kind
            BY <2>5
        <3>2. KindMarks(c) \ X = KindMarks(c)
            BY <1>8, <3>1
        <3>3. kindRef'[c] = kindRef[c]
            BY <2>5 DEF GradingTypeOK
        <3> QED
            BY <2>1, <2>2, <3>2, <3>3
    <2> QED
        BY <2>4, <2>5
<1>11. ResultCountExact'
    <2>1. IsFiniteSet(MarksOf(e)) /\ Cardinality(MarksOf(e)) \in Nat
        BY <1>7, PartsFinite
    <2>2. /\ Cardinality(MarksOf(e) \ X) = Cardinality(MarksOf(e)) - n
          /\ Cardinality(MarksOf(e)) - n >= 0
        BY <1>3, <1>8, <2>1, DroppedCount
    <2>3. exams[e].result_count = Cardinality(MarksOf(e))
        BY DEF Counts, ResultCountExact
    <2>4. exams'[e].result_count = Cardinality(MarksOf(e)')
        BY <1>3, <1>8, <1>9, <2>1, <2>2, <2>3, FloorIsNat
    <2>5. \A x \in Exams :
            IF exams'[x] = None THEN MarksOf(x)' = {}
            ELSE exams'[x].result_count = Cardinality(MarksOf(x)')
        <3> TAKE x \in Exams
        <3>1. CASE x = e
            BY <1>9, <2>4, <3>1
        <3>2. CASE x # e
            BY <1>4, <1>8, <3>2 DEF Counts, ResultCountExact
        <3> QED
            BY <3>1, <3>2
    <2> QED
        BY <2>5 DEF ResultCountExact
<1>12. HighMarksExact'
    <2> SUFFICES ASSUME NEW v \in Students
                 PROVE  highTotal'[v] = sweptHigh'[v] + Cardinality(HighMarks(v)')
        BY DEF HighMarksExact, HighMarks
    <2>1. /\ highTotal[v] = sweptHigh[v] + Cardinality(HighMarks(v))
          /\ highTotal[v] \in Nat /\ sweptHigh[v] \in Nat
        BY CountersRead DEF Counts, GradingTypeOK
    <2>2. IsFiniteSet(HighMarks(v)) /\ Cardinality(HighMarks(v)) \in Nat
        BY <1>7, PartsFinite
    <2>3. CASE v = u
        <3> DEFINE h == Cardinality(HighMarks(v) \cap X)
        <3>1. /\ Cardinality(HighMarks(v) \ X) = Cardinality(HighMarks(v)) - h
              /\ Cardinality(HighMarks(v)) - h >= 0 /\ h \in Nat
            BY <2>2, DroppedCount
        <3>2. highTotal'[v] = Floor(highTotal[v] - h)
            BY <1>6, <2>3 DEF GradingTypeOK
        <3>3. HighMarks(v)' = HighMarks(v) \ X
            BY <1>8
        <3> HIDE DEF h
        <3> QED
            BY <2>1, <2>2, <3>1, <3>2, <3>3 DEF Floor
    <2>4. CASE v # u
        <3>1. HighMarks(v)' = HighMarks(v)
            BY <1>5, <1>8, <2>4
        <3>2. highTotal'[v] = highTotal[v]
            BY <2>4 DEF GradingTypeOK
        <3> QED
            BY <2>1, <3>1, <3>2
    <2> QED
        BY <2>3, <2>4
<1>13. UnlistedKindUnmarked'
    <2>1. \A c \in Kinds : kindRef'[c].retired = kindRef[c].retired
        BY DEF GradingTypeOK
    <2>2. \A m \in AllMarks' : exams'[m[1]].kind \in offered \cup raced
        BY <1>1, <1>9 DEF Counts, UnlistedKindUnmarked
    <2> QED
        BY <2>1, <2>2 DEF Counts, UnlistedKindUnmarked
<1> QED
    BY <1>8, <1>10, <1>11, <1>12, <1>13 DEF Counts

\* An exam's delete: all its marks go with their kind's references, and what
\* they were worth to a badge is swept with them.
LEMMA DeleteCounts ==
    ASSUME GradingTypeOK, Counts, NEW e \in Exams, DeleteGraded(e)
    PROVE  Counts'
<1> DEFINE X == MarksOf(e)
           k == exams[e].kind
<1>1. AllMarks' = AllMarks \ X /\ \A m \in AllMarks' : Row(m)' = Row(m)
    BY MarksAfterDelete DEF DeleteGraded
<1>2. X \subseteq MarksOf(e)
    OBVIOUS
<1>3. /\ exams'[e] = None
      /\ \A x \in Exams \ {e} : exams'[x] = exams[x]
      /\ exams[e] \in GradedRow
    BY DEF GradingTypeOK, DeleteGraded
<1>4. IsFiniteSet(AllMarks)
    BY DEF Counts
<1>5. /\ IsFiniteSet(AllMarks')
      /\ \A c : /\ {m \in AllMarks' : exams[m[1]].kind = c} = KindMarks(c) \ X
                /\ KindMarks(c) \cap X = IF c = exams[e].kind THEN X ELSE {}
      /\ MarksOf(e)' = MarksOf(e) \ X /\ MarksOf(e) \cap X = X
      /\ \A x \in Exams \ {e} : MarksOf(x)' = MarksOf(x)
      /\ \A v : HighMarks(v)' = HighMarks(v) \ X
      /\ \A m \in AllMarks' : m[1] \in Exams /\ exams[m[1]] # None
    <2> HIDE DEF X
    <2> QED
        BY <1>1, <1>2, DropCounts
<1>6. \A m \in AllMarks' : m[1] # e /\ exams'[m[1]] = exams[m[1]]
    BY <1>1, <1>3, <1>5 DEF MarksOf
<1>7. KindRefExact'
    <2>1. \A c : KindMarks(c)' = KindMarks(c) \ X
        <3>1. \A c : KindMarks(c)' = {m \in AllMarks' : exams[m[1]].kind = c}
            BY <1>6 DEF KindMarks
        <3> QED
            BY <1>5, <3>1
    <2> SUFFICES ASSUME NEW c \in Kinds \ raced
                 PROVE  kindRef'[c].count = Cardinality(KindMarks(c)')
        BY DEF KindRefExact, KindMarks, DeleteGraded
    <2>2. kindRef[c].count = Cardinality(KindMarks(c))
        BY CountersRead DEF Counts
    <2>3. IsFiniteSet(KindMarks(c)) /\ Cardinality(KindMarks(c)) \in Nat
        BY <1>4, PartsFinite
    <2>4. CASE c = k
        <3>1. KindMarks(c) \cap X = X
            BY <1>5, <2>4
        <3>2. /\ Cardinality(KindMarks(c) \ X) =
                   Cardinality(KindMarks(c)) - Cardinality(X)
              /\ Cardinality(KindMarks(c)) - Cardinality(X) >= 0
              /\ Cardinality(X) \in Nat
            BY <2>3, <3>1, DroppedCount
        <3>3. kindRef'[c].count = Floor(kindRef[c].count - Cardinality(X))
            BY <2>4 DEF GradingTypeOK, DeleteGraded
        <3> HIDE DEF X
        <3> QED
            BY <2>1, <2>2, <2>3, <3>2, <3>3 DEF Floor
    <2>5. CASE c # k
        <3>1. KindMarks(c) \ X = KindMarks(c)
            BY <1>5, <2>5
        <3>2. kindRef'[c] = kindRef[c]
            BY <2>5 DEF GradingTypeOK, DeleteGraded
        <3> QED
            BY <2>1, <2>2, <3>1, <3>2
    <2> QED
        BY <2>4, <2>5
<1>8. ResultCountExact'
    <2>1. MarksOf(e)' = {}
        BY <1>5
    <2>2. \A x \in Exams :
            IF exams'[x] = None THEN MarksOf(x)' = {}
            ELSE exams'[x].result_count = Cardinality(MarksOf(x)')
        <3> TAKE x \in Exams
        <3>1. CASE x = e
            BY <1>3, <2>1, <3>1
        <3>2. CASE x # e
            BY <1>3, <1>5, <3>2 DEF Counts, ResultCountExact
        <3> QED
            BY <3>1, <3>2
    <2> QED
        BY <2>2 DEF ResultCountExact
<1>9. HighMarksExact'
    <2> SUFFICES ASSUME NEW v \in Students
                 PROVE  highTotal'[v] = sweptHigh'[v] + Cardinality(HighMarks(v)')
        BY DEF HighMarksExact, HighMarks
    <2> DEFINE h == Cardinality(HighMarks(v) \cap X)
    <2>1. /\ highTotal[v] = sweptHigh[v] + Cardinality(HighMarks(v))
          /\ highTotal[v] \in Nat /\ sweptHigh[v] \in Nat
        BY CountersRead DEF Counts, GradingTypeOK
    <2>2. IsFiniteSet(HighMarks(v)) /\ Cardinality(HighMarks(v)) \in Nat
        BY <1>4, PartsFinite
    <2>3. /\ Cardinality(HighMarks(v) \ X) = Cardinality(HighMarks(v)) - h
          /\ h \in Nat
        BY <2>2, DroppedCount
    <2>4. HighMarks(v) \cap X = HighMarks(v) \cap PairMarks(e, v)
        BY DEF HighMarks, PairMarks, MarksOf
    <2>5. Cardinality(HighMarked(e, v)) = h
        BY <2>4, HighPairCounted
    <2>6. sweptHigh'[v] = sweptHigh[v] + h /\ highTotal'[v] = highTotal[v]
        BY <2>5 DEF DeleteGraded
    <2>7. HighMarks(v)' = HighMarks(v) \ X
        BY <1>5
    <2> HIDE DEF h
    <2> QED
        BY <2>1, <2>2, <2>3, <2>6, <2>7
<1>10. UnlistedKindUnmarked'
    <2>1. \A c \in Kinds : kindRef'[c].retired = kindRef[c].retired
        BY DEF GradingTypeOK, DeleteGraded
    <2>2. \A m \in AllMarks' : exams'[m[1]].kind \in offered \cup raced
        BY <1>1, <1>6 DEF Counts, UnlistedKindUnmarked
    <2> QED
        BY <2>1, <2>2 DEF Counts, UnlistedKindUnmarked, DeleteGraded
<1> QED
    BY <1>5, <1>7, <1>8, <1>9, <1>10 DEF Counts

-----------------------------------------------------------------------------
(* One step of each writing operation. *)

\* grade's transaction.
LEMMA GradeWriteStep ==
    ASSUME GradingInv, NEW t \in Staff, GradeWrite(t)
    PROVE  GradingInv'
<1> USE DEF GradingInv
<1>1. Moves(t)
    BY WriteMoves
<1>2. PICK q \in Writing : q = req[t]
    BY RequestShape DEF GradingTypeOK, GradeWrite
<1>3. /\ q.exam \in Exams /\ q.user \in Students /\ q.seq \in Seqs
      /\ q.kind \in Kinds /\ q.by \in Graders /\ q.mark \in Marks
    BY DEF Writing
<1>4. KindKept(q) /\ q.pc = "grade_write"
    BY <1>2 DEF Kept, GradeWrite
<1> DEFINE e == q.exam
           u == q.user
           s == q.seq
           before == IF exams[e] = None THEN None ELSE result[e][u][s]
           lands == /\ exams[e] # None /\ ~exams[e].draft
                    /\ before = None => MayClaim(q.kind)
           row == [mark |-> q.mark, by |-> q.by]
<1>5. CASE ~lands
    <2>1. UNCHANGED <<tables, kinds, badges>>
        BY <1>2, <1>5 DEF GradeWrite, tables, kinds, badges
    <2> QED
        BY <1>1, <2>1, ReadOnly
<1>6. CASE lands
    <2>1. before = result[e][u][s] /\ exams[e] # None
        BY <1>6
    <2>2. row \in MarkRow /\ row.mark = q.mark
        BY <1>3 DEF MarkRow
    <2>3. /\ result' = [result EXCEPT ![e][u][s] = row]
          /\ exams' = [exams EXCEPT ![e].result_count =
                         @ + (IF result[e][u][s] = None THEN 1 ELSE 0)]
          /\ kindRef' = IF result[e][u][s] = None
                        THEN [kindRef EXCEPT ![q.kind].count = @ + 1] ELSE kindRef
          /\ highTotal' = [highTotal EXCEPT ![u] =
                             Floor(@ + HighMove(result[e][u][s], row.mark))]
          /\ marksGiven' = IF result[e][u][s] = None
                           THEN [marksGiven EXCEPT ![q.by] = @ + 1]
                           ELSE marksGiven
          /\ UNCHANGED <<sittings, offered, sweptHigh, raced>>
        BY <1>2, <1>6, <2>1 DEF GradeWrite, CountMark
    <2>4. q.kind = exams[e].kind \/ {q.kind, exams[e].kind} \subseteq raced
        BY <1>4, <2>1 DEF KindKept
    <2>5. result[e][u][s] = None => ~kindRef[q.kind].retired
        BY <1>6, <2>1 DEF MayClaim
    <2> HIDE DEF e, u, s, row, lands, before
    <2>6. e \in Exams /\ u \in Students /\ s \in Seqs
        BY <1>3 DEF e, u, s
    <2>7. Counts'
        BY <1>3, <2>1, <2>2, <2>3, <2>4, <2>5, <2>6, GradeCounts
    <2>8. /\ exams'[e] \in GradedRow /\ exams'[e].kind = exams[e].kind
          /\ \A x \in Exams \ {e} : exams'[x] = exams[x]
          /\ exams' \in [Exams -> GradedRow \cup {None}]
        <3>1. exams[e] \in GradedRow
            BY <2>1, <2>6 DEF GradingTypeOK
        <3>2. PICK n \in Nat : n = exams[e].result_count
                                     + (IF result[e][u][s] = None THEN 1 ELSE 0)
            BY <3>1 DEF GradedRow
        <3>3. exams' = [exams EXCEPT ![e] = [exams[e] EXCEPT !.result_count = n]]
            BY <2>3, <3>2
        <3>4. [exams[e] EXCEPT !.result_count = n] \in GradedRow
              /\ [exams[e] EXCEPT !.result_count = n].kind = exams[e].kind
            BY <3>1 DEF GradedRow
        <3> QED
            BY <2>6, <3>3, <3>4 DEF GradingTypeOK
    <2>9. GradingTypeOK'
        <3>1. result' \in [Exams -> [Students -> [Seqs -> MarkRow \cup {None}]]]
            BY <2>2, <2>3, <2>6 DEF GradingTypeOK
        <3>2. kindRef' \in [Kinds -> [count : Nat, retired : BOOLEAN]]
            <4>1. PICK n \in Nat : n = kindRef[q.kind].count + 1
                BY <1>3 DEF GradingTypeOK
            <4>2. [kindRef EXCEPT ![q.kind].count = @ + 1]
                    = [kindRef EXCEPT ![q.kind].count = n]
                BY <4>1
            <4>3. [kindRef EXCEPT ![q.kind].count = n]
                    \in [Kinds -> [count : Nat, retired : BOOLEAN]]
                BY <1>3 DEF GradingTypeOK
            <4> QED
                BY <2>3, <4>2, <4>3 DEF GradingTypeOK
        <3>3. marksGiven' \in [Graders -> Nat]
            BY <1>3, <2>3 DEF GradingTypeOK
        <3>4. highTotal' \in [Students -> Nat]
            <4>1. HighMove(result[e][u][s], row.mark) \in Int
                BY DEF HighMove
            <4>2. Floor(highTotal[u] + HighMove(result[e][u][s], row.mark)) \in Nat
                BY <2>6, <4>1, FloorIsNat DEF GradingTypeOK
            <4> QED
                BY <2>3, <2>6, <4>2 DEF GradingTypeOK
        <3>5. req' \in [Staff -> ReqRow]
            BY <1>1, MovesTyped
        <3>6. /\ sittings' = sittings /\ offered' = offered
              /\ raced' = raced /\ sweptHigh' = sweptHigh
            BY <2>3
        <3> QED
            BY <2>8, <3>1, <3>2, <3>3, <3>4, <3>5, <3>6 DEF GradingTypeOK
    <2>10. Kept'
        BY <1>1, <2>1, <2>3, <2>6, <2>8, MovesKept
    <2> QED
        BY <2>7, <2>9, <2>10
<1> QED
    BY <1>5, <1>6

\* remove's transaction.
LEMMA RemoveWriteStep ==
    ASSUME GradingInv, NEW t \in Staff, RemoveWrite(t)
    PROVE  GradingInv'
<1> USE DEF GradingInv
<1>1. Moves(t)
    BY WriteMoves
<1>2. PICK q \in Removing : q = req[t]
    BY RequestShape DEF GradingTypeOK, RemoveWrite
<1>3. q.exam \in Exams /\ q.user \in Students /\ q.kind \in Kinds
    BY DEF Removing
<1>4. KindKept(q) /\ q.pc = "remove"
    BY <1>2 DEF Kept, RemoveWrite
<1> DEFINE e == q.exam
           u == q.user
           rows == Marked(e, u)
<1>5. CASE rows = {}
    <2>1. UNCHANGED <<tables, kinds, badges>>
        BY <1>2, <1>5 DEF RemoveWrite, tables, kinds, badges
    <2> QED
        BY <1>1, <2>1, ReadOnly
<1>6. CASE rows # {}
    <2>1. exams[e] # None
        <3>1. PairMarks(e, u) # {}
            BY <1>3, <1>6, PairCounted
        <3>2. MarksOf(e) # {}
            BY <3>1 DEF PairMarks, MarksOf
        <3> QED
            BY <1>3, <3>2 DEF Counts, ResultCountExact
    <2>2. /\ result' = [result EXCEPT ![e][u] = [s \in Seqs |-> None]]
          /\ kindRef' = [kindRef EXCEPT ![q.kind].count =
                           Floor(@ - Cardinality(Marked(e, u)))]
          /\ exams' = [exams EXCEPT ![e].result_count =
                         Floor(@ - Cardinality(Marked(e, u)))]
          /\ highTotal' = [highTotal EXCEPT ![u] =
                             Floor(@ - Cardinality(HighMarked(e, u)))]
          /\ UNCHANGED <<sittings, offered, sweptHigh, raced>>
        BY <1>2, <1>6 DEF RemoveWrite, Released
    <2>3. marksGiven' = [g \in Graders |-> Floor(marksGiven[g] -
              Cardinality({s \in Marked(e, u) : result[e][u][s].by = g}))]
        BY <1>2, <1>6 DEF RemoveWrite
    <2>4. q.kind = exams[e].kind \/ {q.kind, exams[e].kind} \subseteq raced
        BY <1>4, <2>1 DEF KindKept
    <2> HIDE DEF e, u, rows
    <2>5. e \in Exams /\ u \in Students
        BY <1>3 DEF e, u
    <2>6. Cardinality(Marked(e, u)) \in Nat /\ Cardinality(HighMarked(e, u)) \in Nat
        BY <2>5, PairCounted, HighPairCounted
    <2>7. Counts'
        BY <1>3, <2>1, <2>2, <2>4, <2>5, RemoveCounts
    <2>8. /\ exams'[e] \in GradedRow /\ exams'[e].kind = exams[e].kind
          /\ \A x \in Exams \ {e} : exams'[x] = exams[x]
          /\ exams' \in [Exams -> GradedRow \cup {None}]
        <3>1. exams[e] \in GradedRow
            BY <2>1, <2>5 DEF GradingTypeOK
        <3>2. PICK n \in Nat :
                n = Floor(exams[e].result_count - Cardinality(Marked(e, u)))
            BY <2>6, <3>1, FloorIsNat DEF GradedRow
        <3>3. exams' = [exams EXCEPT ![e] = [exams[e] EXCEPT !.result_count = n]]
            BY <2>2, <3>2
        <3>4. [exams[e] EXCEPT !.result_count = n] \in GradedRow
              /\ [exams[e] EXCEPT !.result_count = n].kind = exams[e].kind
            BY <3>1 DEF GradedRow
        <3> QED
            BY <2>5, <3>3, <3>4 DEF GradingTypeOK
    <2>9. GradingTypeOK'
        <3>1. result' \in [Exams -> [Students -> [Seqs -> MarkRow \cup {None}]]]
            BY <2>2, <2>5 DEF GradingTypeOK
        <3>2. kindRef' \in [Kinds -> [count : Nat, retired : BOOLEAN]]
            <4>1. Floor(kindRef[q.kind].count - Cardinality(Marked(e, u))) \in Nat
                BY <1>3, <2>6, FloorIsNat DEF GradingTypeOK
            <4> QED
                BY <1>3, <2>2, <4>1 DEF GradingTypeOK
        <3>3. marksGiven' \in [Graders -> Nat]
            <4>1. \A g \in Graders :
                    Cardinality({s \in Marked(e, u) : result[e][u][s].by = g}) \in Nat
                <5> TAKE g \in Graders
                <5> DEFINE S == {s \in Marked(e, u) : result[e][u][s].by = g}
                <5>1. S \subseteq 1 .. MaxSeq
                    BY DEF Marked, Seqs
                <5>2. IsFiniteSet(1 .. MaxSeq)
                    BY FS_Interval, GradingAssumption
                <5> HIDE DEF S
                <5>3. Cardinality(S) \in Nat
                    BY <5>1, <5>2, FS_Subset, FS_CardinalityType
                <5> QED
                    BY <5>3 DEF S
            <4>2. \A g \in Graders : \A n \in Nat : Floor(marksGiven[g] - n) \in Nat
                BY FloorIsNat DEF GradingTypeOK
            <4>3. \A g \in Graders : Floor(marksGiven[g] -
                    Cardinality({s \in Marked(e, u) : result[e][u][s].by = g})) \in Nat
                BY <4>1, <4>2
            <4> QED
                BY <2>3, <4>3
        <3>4. highTotal' \in [Students -> Nat]
            <4>1. Floor(highTotal[u] - Cardinality(HighMarked(e, u))) \in Nat
                BY <2>5, <2>6, FloorIsNat DEF GradingTypeOK
            <4> QED
                BY <2>2, <2>5, <4>1 DEF GradingTypeOK
        <3>5. req' \in [Staff -> ReqRow]
            BY <1>1, MovesTyped
        <3>6. /\ sittings' = sittings /\ offered' = offered
              /\ raced' = raced /\ sweptHigh' = sweptHigh
            BY <2>2
        <3> QED
            BY <2>8, <3>1, <3>2, <3>3, <3>4, <3>5, <3>6 DEF GradingTypeOK
    <2>10. Kept'
        BY <1>1, <2>1, <2>2, <2>5, <2>8, MovesKept
    <2> QED
        BY <2>7, <2>9, <2>10
<1> QED
    BY <1>5, <1>6

\* A PATCH gives exam e the kind n: the counters stand, since the kind is the
\* same, or e has no mark, or both kinds are raced from here on.
LEMMA MoveCounts ==
    ASSUME GradingTypeOK, Counts, NEW e \in Exams, NEW n,
           exams[e] # None, exams'[e] # None, exams'[e].kind = n,
           exams'[e].result_count = exams[e].result_count,
           \A x \in Exams \ {e} : exams'[x] = exams[x],
           raced \subseteq raced',
           \/ n = exams[e].kind
           \/ MarksOf(e) = {}
           \/ {exams[e].kind, n} \subseteq raced',
           UNCHANGED <<result, kindRef, offered, highTotal, sweptHigh>>
    PROVE  Counts'
<1>1. AllMarks' = AllMarks /\ \A m : Row(m)' = Row(m)
    BY DEF AllMarks, Row
<1>2. /\ \A x : MarksOf(x)' = MarksOf(x)
      /\ \A u : HighMarks(u)' = HighMarks(u)
    BY <1>1 DEF MarksOf, HighMarks
<1>3. \A m \in AllMarks : m[1] \in Exams
    BY MarkKeys
<1>4. KindRefExact'
    <2> SUFFICES ASSUME NEW c \in Kinds \ raced'
                 PROVE  kindRef'[c].count = Cardinality(KindMarks(c)')
        BY DEF KindRefExact, KindMarks
    <2>1. \A m \in AllMarks : exams'[m[1]].kind = c <=> exams[m[1]].kind = c
        <3> TAKE m \in AllMarks
        <3>1. CASE m[1] = e
            BY <3>1 DEF MarksOf
        <3>2. CASE m[1] # e
            BY <1>3, <3>2
        <3> QED
            BY <3>1, <3>2
    <2>2. KindMarks(c)' = KindMarks(c)
        BY <1>1, <2>1 DEF KindMarks
    <2>3. kindRef[c].count = Cardinality(KindMarks(c))
        BY CountersRead DEF Counts
    <2> QED
        BY <2>2, <2>3
<1>5. ResultCountExact'
    <2>1. \A x \in Exams :
            IF exams'[x] = None THEN MarksOf(x)' = {}
            ELSE exams'[x].result_count = Cardinality(MarksOf(x)')
        <3> TAKE x \in Exams
        <3>1. IF exams[x] = None THEN MarksOf(x) = {}
              ELSE exams[x].result_count = Cardinality(MarksOf(x))
            BY DEF Counts, ResultCountExact
        <3>2. CASE x = e
            BY <1>2, <3>1, <3>2
        <3>3. CASE x # e
            BY <1>2, <3>1, <3>3
        <3> QED
            BY <3>2, <3>3
    <2> QED
        BY <2>1 DEF ResultCountExact
<1>6. HighMarksExact'
    <2>1. \A u \in Students : highTotal[u] = sweptHigh[u] + Cardinality(HighMarks(u))
        BY CountersRead DEF Counts
    <2>2. \A u \in Students : highTotal'[u] = sweptHigh'[u] + Cardinality(HighMarks(u)')
        BY <1>2, <2>1
    <2> QED
        BY <2>2 DEF HighMarksExact, HighMarks
<1>7. UnlistedKindUnmarked'
    <2>1. \A m \in AllMarks : exams'[m[1]].kind \in offered \cup raced'
        <3> TAKE m \in AllMarks
        <3>1. exams[m[1]].kind \in offered \cup raced
            BY DEF Counts, UnlistedKindUnmarked
        <3>2. CASE m[1] = e
            BY <3>1, <3>2 DEF MarksOf
        <3>3. CASE m[1] # e
            BY <1>3, <3>1, <3>3
        <3> QED
            BY <3>2, <3>3
    <2> QED
        BY <1>1, <2>1 DEF Counts, UnlistedKindUnmarked
<1> QED
    BY <1>1, <1>4, <1>5, <1>6, <1>7 DEF Counts

\* update_if_unchanged's UPDATE.
LEMMA PatchSaveStep ==
    ASSUME GradingInv, NEW t \in Staff, PatchKindSave(t)
    PROVE  GradingInv'
<1> USE DEF GradingInv
<1>1. Moves(t)
    BY PatchMoves
<1>2. PICK q \in Patching : q = req[t]
    BY RequestShape DEF GradingTypeOK, PatchKindSave
<1>3. q.exam \in Exams /\ q.base \in GradedRow /\ q.patch \in KindPatch
    BY DEF Patching
<1> DEFINE e == q.exam
           n == NewKind(q)
<1>4. CASE ~StillUnchanged(q)
    <2>1. UNCHANGED <<tables, kinds, badges>>
        BY <1>2, <1>4 DEF PatchKindSave, tables, kinds, badges
    <2> QED
        BY <1>1, <2>1, ReadOnly
<1>5. CASE StillUnchanged(q)
    <2>1. exams[e] # None /\ exams[e].kind = q.base.kind
        BY <1>5 DEF StillUnchanged
    <2>2. n \in Kinds /\ NewDraft(q) \in BOOLEAN
        BY <1>3 DEF NewKind, NewDraft, GradedRow, KindPatch
    <2>3. /\ exams' = [exams EXCEPT ![e].kind = n, ![e].draft = NewDraft(q)]
          /\ raced' = IF n # q.base.kind /\ KindInUse(e)
                      THEN raced \cup {q.base.kind, n} ELSE raced
          /\ req' = [req EXCEPT ![t] = Idle]
          /\ UNCHANGED <<result, sittings, kindRef, offered, badges>>
        BY <1>2, <1>5 DEF PatchKindSave
    <2> HIDE DEF e, n
    <2>4. e \in Exams
        BY <1>3 DEF e
    <2>5. exams[e] \in GradedRow
        BY <2>1, <2>4 DEF GradingTypeOK
    <2>6. PICK row : row = [exams[e] EXCEPT !.kind = n, !.draft = NewDraft(q)]
        OBVIOUS
    <2>7. /\ row \in GradedRow /\ row.kind = n
          /\ row.result_count = exams[e].result_count
        BY <2>2, <2>5, <2>6 DEF GradedRow
    <2>8. /\ exams' \in [Exams -> GradedRow \cup {None}]
          /\ exams'[e] = row
          /\ \A x \in Exams \ {e} : exams'[x] = exams[x]
        <3>1. exams' = [exams EXCEPT ![e] = row]
            BY <2>3, <2>4, <2>6 DEF GradingTypeOK
        <3> QED
            BY <2>4, <2>7, <3>1 DEF GradingTypeOK
    <2>9. row # None
        BY <2>7, GradingAssumption
    <2>10. raced \subseteq raced' /\ raced' \subseteq Kinds
        BY <1>3, <2>2, <2>3 DEF GradingTypeOK, GradedRow
    <2>11. GradingTypeOK'
        BY <1>1, <2>3, <2>8, <2>10, MovesTyped DEF GradingTypeOK, badges
    <2>12. \/ n = exams[e].kind
           \/ ~KindInUse(e)
           \/ {exams[e].kind, n} \subseteq raced'
        BY <2>1, <2>3
    <2>13. Counts'
        <3>1. ~KindInUse(e) => MarksOf(e) = {}
            BY DEF KindInUse
        <3> QED
            BY <2>1, <2>3, <2>4, <2>7, <2>8, <2>9, <2>10, <2>12, <3>1, MoveCounts
               DEF badges
    <2>14. Kept'
        <3> SUFFICES ASSUME NEW x \in Staff PROVE KindKept(req[x])'
            BY DEF Kept
        <3>1. CASE x = t
            BY <2>3, <3>1 DEF KindKept, Idle, GradingTypeOK
        <3>2. CASE x # t
            <4>1. req'[x] = req[x] /\ req[x] \in ReqRow /\ KindKept(req[x])
                BY <2>3, <3>2 DEF GradingTypeOK, Kept
            <4> SUFFICES ASSUME req[x].pc \in {"grade_gate", "grade_write", "remove"},
                                exams'[req[x].exam] # None
                         PROVE  \/ req[x].kind = exams'[req[x].exam].kind
                                \/ {req[x].kind, exams'[req[x].exam].kind}
                                      \subseteq raced'
                BY <4>1 DEF KindKept
            <4>2. req[x].exam \in Exams
                BY <4>1, RequestShape DEF Gating, Writing, Removing
            <4>3. CASE req[x].exam = e
                <5>1. KindInUse(e)
                    BY <4>3 DEF KindInUse
                <5>2. n = exams[e].kind \/ {exams[e].kind, n} \subseteq raced'
                    BY <2>12, <5>1
                <5>3. \/ req[x].kind = exams[e].kind
                      \/ {req[x].kind, exams[e].kind} \subseteq raced
                    BY <2>1, <4>1, <4>3 DEF KindKept
                <5> QED
                    BY <2>7, <2>8, <2>10, <4>3, <5>2, <5>3
            <4>4. CASE req[x].exam # e
                BY <2>8, <2>10, <4>1, <4>2, <4>4 DEF KindKept
            <4> QED
                BY <4>3, <4>4
        <3> QED
            BY <3>1, <3>2
    <2> QED
        BY <2>11, <2>13, <2>14
<1> QED
    BY <1>4, <1>5

\* A step that moves no request and changes no kind keeps every request's kind.
LEMMA SameRequestsKept ==
    ASSUME GradingTypeOK, Kept, UNCHANGED <<req, raced>>,
           \A e \in Exams : exams'[e] # None =>
               exams[e] # None /\ exams'[e].kind = exams[e].kind
    PROVE  Kept'
<1> SUFFICES ASSUME NEW x \in Staff PROVE KindKept(req[x])'
    BY DEF Kept
<1>1. req'[x] = req[x] /\ req[x] \in ReqRow /\ KindKept(req[x])
    BY DEF GradingTypeOK, Kept
<1>2. req[x].pc \in {"grade_gate", "grade_write", "remove"} => req[x].exam \in Exams
    BY <1>1, RequestShape DEF Gating, Writing, Removing
<1> QED
    BY <1>1, <1>2 DEF KindKept

\* delete's transaction.
LEMMA DeleteStep ==
    ASSUME GradingInv, NEW e \in Exams, DeleteGraded(e)
    PROVE  GradingInv'
<1> USE DEF GradingInv
<1>1. Counts'
    BY DeleteCounts
<1>2. Kept'
    <2>1. \A x \in Exams : exams'[x] # None =>
            exams[x] # None /\ exams'[x].kind = exams[x].kind
        BY DEF GradingTypeOK, DeleteGraded
    <2> QED
        BY <2>1, SameRequestsKept DEF DeleteGraded
<1>3. exams[e].kind \in Kinds /\ Cardinality(MarksOf(e)) \in Nat
    BY PartsFinite DEF GradingTypeOK, DeleteGraded, GradedRow, Counts
<1>4. GradingTypeOK'
    <2>1. exams' \in [Exams -> GradedRow \cup {None}]
        BY DEF GradingTypeOK, DeleteGraded
    <2>2. result' \in [Exams -> [Students -> [Seqs -> MarkRow \cup {None}]]]
        BY DEF GradingTypeOK, DeleteGraded, NoMarks
    <2>3. sittings' \in [Exams -> [Students -> 0 .. MaxSeq]]
        <3>1. 0 \in 0 .. MaxSeq
            BY GradingAssumption
        <3> QED
            BY <3>1 DEF GradingTypeOK, DeleteGraded
    <2>4. kindRef' \in [Kinds -> [count : Nat, retired : BOOLEAN]]
        <3>1. PICK n \in Nat :
                n = Floor(kindRef[exams[e].kind].count - Cardinality(MarksOf(e)))
            BY <1>3, FloorIsNat DEF GradingTypeOK
        <3>2. kindRef' = [kindRef EXCEPT ![exams[e].kind].count = n]
            BY <3>1 DEF DeleteGraded
        <3> QED
            BY <1>3, <3>2 DEF GradingTypeOK
    <2>5. sweptHigh' \in [Students -> Nat]
        <3>1. \A u \in Students : Cardinality(HighMarked(e, u)) \in Nat
            BY HighPairCounted
        <3>2. \A u \in Students :
                sweptHigh[u] + Cardinality(HighMarked(e, u)) \in Nat
            BY <3>1 DEF GradingTypeOK
        <3> QED
            BY <3>2 DEF DeleteGraded
    <2>6. UNCHANGED <<offered, raced, marksGiven, highTotal, req>>
        BY DEF DeleteGraded
    <2> QED
        BY <2>1, <2>2, <2>3, <2>4, <2>5, <2>6 DEF GradingTypeOK
<1> QED
    BY <1>1, <1>2, <1>4

\* A student starts a sitting.
LEMMA SitStep ==
    ASSUME GradingInv, NEW e \in Exams, NEW u \in Students, Sit(e, u)
    PROVE  GradingInv'
<1> USE DEF GradingInv
<1>1. Counts'
    BY CountsFrame DEF Sit, kinds, badges
<1>2. Kept'
    BY SameRequestsKept DEF Sit, kinds
<1>3. GradingTypeOK'
    <2>1. sittings' \in [Exams -> [Students -> 0 .. MaxSeq]]
        <3>1. PICK n \in 0 .. MaxSeq : n = sittings[e][u] + 1
            BY GradingAssumption DEF Sit, GradingTypeOK
        <3>2. sittings' = [sittings EXCEPT ![e][u] = n]
            BY <3>1 DEF Sit
        <3> QED
            BY <3>2 DEF GradingTypeOK
    <2> QED
        BY <2>1 DEF GradingTypeOK, Sit, kinds, badges
<1> QED
    BY <1>1, <1>2, <1>3

\* apply's transaction.
LEMMA SettingsSaveStep ==
    ASSUME GradingInv, NEW t \in Staff, SettingsSave(t)
    PROVE  GradingInv'
<1> USE DEF GradingInv
<1>1. Moves(t)
    BY SettingsMoves
<1>2. PICK q \in Listing : q = req[t]
    BY RequestShape DEF GradingTypeOK, SettingsSave
<1>3. q.list \subseteq Kinds
    BY DEF Listing
<1> DEFINE lands == /\ \A k \in q.was \ q.list : RetireKind(k)
                    /\ offered = q.was
<1>4. CASE ~lands
    <2>1. UNCHANGED <<tables, kinds, badges>>
        BY <1>2, <1>4 DEF SettingsSave, tables, kinds, badges
    <2> QED
        BY <1>1, <2>1, ReadOnly
<1>5. CASE lands
    <2>1. /\ offered' = q.list
          /\ kindRef' = [k \in Kinds |->
                 [kindRef[k] EXCEPT !.retired = RetiredAfter(q.was, q.list, k)]]
          /\ UNCHANGED <<exams, result, sittings, raced, marksGiven, highTotal,
                         sweptHigh>>
        BY <1>2, <1>5 DEF SettingsSave, tables, badges
    <2>2. offered = q.was /\ \A k \in q.was \ q.list : kindRef[k].count = 0
        BY <1>5 DEF RetireKind
    <2>3. \A k \in Kinds : /\ kindRef'[k].count = kindRef[k].count
                           /\ kindRef'[k].retired = RetiredAfter(q.was, q.list, k)
                           /\ kindRef'[k] \in [count : Nat, retired : BOOLEAN]
        <3>1. \A k \in Kinds : RetiredAfter(q.was, q.list, k) \in BOOLEAN
            BY DEF RetiredAfter, GradingTypeOK
        <3> QED
            BY <2>1, <3>1 DEF GradingTypeOK
    <2>4. GradingTypeOK'
        <3>1. kindRef' \in [Kinds -> [count : Nat, retired : BOOLEAN]]
            BY <2>1, <2>3
        <3> QED
            BY <1>1, <1>3, <2>1, <3>1, MovesTyped DEF GradingTypeOK
    <2>5. Kept'
        BY <1>1, <2>1, MovesKept
    <2>6. AllMarks' = AllMarks /\ \A m : Row(m)' = Row(m)
        BY <2>1 DEF AllMarks, Row
    <2>7. /\ \A x : MarksOf(x)' = MarksOf(x)
          /\ \A u : HighMarks(u)' = HighMarks(u)
          /\ \A k : KindMarks(k)' = KindMarks(k)
        BY <2>1, <2>6 DEF MarksOf, HighMarks, KindMarks
    <2>8. KindRefExact'
        <3>1. \A k \in Kinds \ raced : kindRef[k].count = Cardinality(KindMarks(k))
            BY CountersRead DEF Counts
        <3>2. \A k \in Kinds \ raced' : kindRef'[k].count = Cardinality(KindMarks(k)')
            BY <2>1, <2>3, <2>7, <3>1
        <3> QED
            BY <3>2 DEF KindRefExact, KindMarks
    <2>9. HighMarksExact'
        <3>1. \A u \in Students : highTotal[u] = sweptHigh[u] + Cardinality(HighMarks(u))
            BY CountersRead DEF Counts
        <3>2. \A u \in Students : highTotal'[u] = sweptHigh'[u] + Cardinality(HighMarks(u)')
            BY <2>1, <2>7, <3>1
        <3> QED
            BY <3>2 DEF HighMarksExact, HighMarks
    <2>10. ResultCountExact'
        BY <2>1, <2>7 DEF Counts, ResultCountExact
    <2>11. UnlistedKindUnmarked'
        <3>1. \A k \in Kinds : k \in offered' <=> ~kindRef'[k].retired
            BY <2>1, <2>2, <2>3 DEF RetiredAfter, Counts, UnlistedKindUnmarked
        <3>2. ASSUME NEW m \in AllMarks
              PROVE  exams[m[1]].kind \in q.list \cup raced
            <4> SUFFICES ASSUME exams[m[1]].kind \notin raced
                         PROVE  exams[m[1]].kind \in q.list
                OBVIOUS
            <4> DEFINE k == exams[m[1]].kind
            <4>1. k \in offered /\ k \in Kinds
                BY DEF Counts, UnlistedKindUnmarked, GradingTypeOK
            <4>2. kindRef[k].count = Cardinality(KindMarks(k))
                BY <4>1, CountersRead DEF Counts
            <4>3. m \in KindMarks(k) /\ IsFiniteSet(KindMarks(k))
                BY PartsFinite DEF KindMarks, Counts
            <4>4. Cardinality(KindMarks(k)) # 0
                BY <4>3, FS_EmptySet
            <4> QED
                BY <2>2, <4>1, <4>2, <4>4
        <3>3. \A m \in AllMarks' : exams'[m[1]].kind \in offered' \cup raced'
            BY <2>1, <2>6, <3>2
        <3> QED
            BY <3>1, <3>3 DEF UnlistedKindUnmarked
    <2> QED
        BY <2>4, <2>5, <2>6, <2>8, <2>9, <2>10, <2>11 DEF Counts
<1> QED
    BY <1>4, <1>5

-----------------------------------------------------------------------------
(* The induction. *)

\* A school with no mark yet.
LEMMA GradingStarts == GradingInit => GradingInv
<1> SUFFICES ASSUME GradingInit PROVE GradingInv
    OBVIOUS
<1> USE DEF GradingInit
<1>1. /\ exams \in [Exams -> GradedRow]
      /\ \A e \in Exams : exams[e] # None /\ exams[e].result_count = 0
    <2> DEFINE R == [kind : Kinds, draft : {FALSE}, result_count : {0}]
    <2>1. \A r \in R : r \in GradedRow /\ r.result_count = 0
        <3>1. {FALSE} \subseteq BOOLEAN /\ {0} \subseteq Nat
            OBVIOUS
        <3>2. ASSUME NEW D, D \subseteq BOOLEAN, NEW Z, Z \subseteq Nat,
                     NEW r \in [kind : Kinds, draft : D, result_count : Z]
              PROVE  r \in GradedRow /\ r.result_count \in Z
            BY <3>2 DEF GradedRow
        <3> QED
            BY <3>1, <3>2
    <2>2. exams \in [Exams -> R]
        OBVIOUS
    <2> HIDE DEF R
    <2> QED
        BY <2>1, <2>2, GradingAssumption
<1>2. AllMarks = {}
    BY DEF AllMarks, Row, NoMarks
<1>3. GradingTypeOK
    <2>1. 0 \in 0 .. MaxSeq
        BY GradingAssumption
    <2>2. sittings \in [Exams -> [Students -> 0 .. MaxSeq]]
        BY <2>1
    <2>3. result \in [Exams -> [Students -> [Seqs -> MarkRow \cup {None}]]]
        BY DEF NoMarks
    <2>4. kindRef \in [Kinds -> [count : Nat, retired : BOOLEAN]]
        OBVIOUS
    <2>5. req \in [Staff -> ReqRow]
        BY IdleMoves
    <2> QED
        BY <1>1, <2>2, <2>3, <2>4, <2>5 DEF GradingTypeOK
<1>4. /\ \A e : MarksOf(e) = {}
      /\ \A k : KindMarks(k) = {}
      /\ \A u : HighMarks(u) = {}
    BY <1>2 DEF MarksOf, KindMarks, HighMarks
<1>5. IsFiniteSet({}) /\ Cardinality({}) = 0
    BY FS_EmptySet
<1>6. KindRefExact /\ HighMarksExact
    <2>1. \A k \in Kinds : kindRef[k].count = Cardinality(KindMarks(k))
        BY <1>4, <1>5
    <2>2. \A u \in Students : highTotal[u] = sweptHigh[u] + Cardinality(HighMarks(u))
        <3>1. \A u \in Students : highTotal[u] = 0 /\ sweptHigh[u] = 0
            OBVIOUS
        <3>2. \A u \in Students : Cardinality(HighMarks(u)) = 0
            BY <1>4, <1>5
        <3>3. 0 = 0 + 0
            OBVIOUS
        <3> QED
            BY <3>1, <3>2, <3>3
    <2> QED
        BY <2>1, <2>2 DEF KindRefExact, HighMarksExact, KindMarks, HighMarks
<1>7. ResultCountExact /\ UnlistedKindUnmarked
    BY <1>1, <1>2, <1>4, <1>5 DEF ResultCountExact, UnlistedKindUnmarked
<1>8. Kept
    BY IdleMoves DEF Kept
<1> QED
    BY <1>2, <1>3, <1>5, <1>6, <1>7, <1>8 DEF GradingInv, Counts

\* Every step of grading keeps the invariant.
LEMMA GradingSteps == GradingInv /\ [GradingNext]_gradingVars => GradingInv'
<1> SUFFICES ASSUME GradingInv, [GradingNext]_gradingVars PROVE GradingInv'
    OBVIOUS
<1>1. ASSUME NEW t \in Staff, StaffStep(t) PROVE GradingInv'
    <2>1. ASSUME NEW e \in Exams, NEW u \in Students, NEW g \in Graders,
                 NEW n \in Marks, GradeRead(t, e, u, g, n)
          PROVE  GradingInv'
        BY <2>1, GradeReadMoves, ReadOnly DEF GradeRead, GradingInv
    <2>2. CASE GradeGate(t)
        BY <2>2, GradeGateMoves, ReadOnly DEF GradeGate, GradingInv
    <2>3. CASE GradeWrite(t)
        BY <2>3, GradeWriteStep
    <2>4. ASSUME NEW e \in Exams, NEW u \in Students, RemoveRead(t, e, u)
          PROVE  GradingInv'
        BY <2>4, RemoveReadMoves, ReadOnly DEF RemoveRead, GradingInv
    <2>5. CASE RemoveWrite(t)
        BY <2>5, RemoveWriteStep
    <2>6. ASSUME NEW e \in Exams, NEW p \in KindPatches, PatchKindRead(t, e, p)
          PROVE  GradingInv'
        BY <2>6, PatchMoves, ReadOnly DEF PatchKindRead, GradingInv
    <2>7. CASE PatchKindGate(t)
        BY <2>7, PatchMoves, ReadOnly DEF PatchKindGate, GradingInv
    <2>8. CASE PatchKindCheck(t)
        BY <2>8, PatchMoves, ReadOnly DEF PatchKindCheck, GradingInv
    <2>9. CASE PatchKindPin(t)
        BY <2>9, PatchMoves, ReadOnly DEF PatchKindPin, GradingInv
    <2>10. CASE PatchKindSave(t)
        BY <2>10, PatchSaveStep
    <2>11. ASSUME NEW list \in SUBSET Kinds, SettingsRead(t, list)
           PROVE  GradingInv'
        BY <2>11, SettingsMoves, ReadOnly DEF SettingsRead, GradingInv
    <2>12. CASE SettingsSave(t)
        BY <2>12, SettingsSaveStep
    <2> QED
        BY <1>1, <2>1, <2>2, <2>3, <2>4, <2>5, <2>6, <2>7, <2>8, <2>9, <2>10,
           <2>11, <2>12 DEF StaffStep
<1>2. ASSUME NEW e \in Exams, DeleteGraded(e) PROVE GradingInv'
    BY <1>2, DeleteStep
<1>3. ASSUME NEW e \in Exams, NEW u \in Students, Sit(e, u) PROVE GradingInv'
    BY <1>3, SitStep
<1>4. CASE UNCHANGED gradingVars
    <2>1. UNCHANGED <<exams, result, sittings, kindRef, offered, raced,
                      marksGiven, highTotal, sweptHigh, req>>
        BY <1>4 DEF gradingVars, tables, kinds, badges
    <2>2. GradingTypeOK'
        BY <2>1 DEF GradingInv, GradingTypeOK
    <2>3. Counts'
        BY <2>1, CountsFrame DEF GradingInv
    <2>4. Kept'
        BY <2>1, SameRequestsKept DEF GradingInv
    <2> QED
        BY <2>2, <2>3, <2>4 DEF GradingInv
<1> QED
    BY <1>1, <1>2, <1>3, <1>4 DEF GradingNext

\* The invariant of grading holds in every reachable state, for any number of
\* exams, students, graders, kinds and requests, and any PATCH bodies.
THEOREM GradingInvariance == GradingSpec => []GradingInv
BY GradingStarts, GradingSteps, PTL DEF GradingSpec

\* Rows, counters and suspended requests keep their shape; the counters never
\* go below zero and a request that keeps losing its compare-and-set ends.
THEOREM GradingTypes == GradingSpec => []GradingTypeOK
<1>1. GradingInv => GradingTypeOK
    BY DEF GradingInv
<1> QED
    BY <1>1, GradingInvariance, PTL

\* kind_ref.count is the number of marks under the kind, whatever grades,
\* removals, deletes, PATCHes and settings edits do to each other, for every
\* kind no PATCH took away from under a mark or a request in flight.
THEOREM KindsCounted == GradingSpec => []KindRefExact
<1>1. GradingInv => KindRefExact
    BY DEF GradingInv, Counts
<1> QED
    BY <1>1, GradingInvariance, PTL

\* exam.result_count is the number of the exam's stored marks, raced or not, so
\* the pre-flight of update reads the truth.
THEOREM ResultsCounted == GradingSpec => []ResultCountExact
<1>1. GradingInv => ResultCountExact
    BY DEF GradingInv, Counts
<1> QED
    BY <1>1, GradingInvariance, PTL

\* app_user.high_mark_total is the student's stored high marks and those that
\* exam deletes took: grade's differences and remove's refunds add up.
THEOREM HighMarksCounted == GradingSpec => []HighMarksExact
<1>1. GradingInv => HighMarksExact
    BY DEF GradingInv, Counts
<1> QED
    BY <1>1, GradingInvariance, PTL

\* A kind off the settings list is retired and carries no mark, unless a PATCH
\* raced it: a grade and the edit that drops its kind never both succeed.
THEOREM UnlistedUnmarked == GradingSpec => []UnlistedKindUnmarked
<1>1. GradingInv => UnlistedKindUnmarked
    BY DEF GradingInv, Counts
<1> QED
    BY <1>1, GradingInvariance, PTL
=============================================================================
