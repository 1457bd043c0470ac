----------------------------- MODULE ExamGrading -----------------------------
(***************************************************************************)
(* Marks, and the counters that ride them.  Staff grade, regrade and       *)
(* remove marks, PATCH an exam's kind and draft flag, delete exams, and    *)
(* edit the school's list of exam kinds, all at once.                      *)
(*                                                                         *)
(* Each mark holds a reference on its exam's kind (kind_ref.count) and on  *)
(* its exam (exam.result_count), and credits its grader and, when it is    *)
(* high, its student.  A kind leaves the settings by being retired, which  *)
(* needs its counter at zero.  Handlers read first and write later: what a *)
(* request read before its transaction is kept in its record.              *)
(*                                                                         *)
(* Grade, remove and the exam delete are one step each.  The first and the *)
(* last take the exam row FOR UPDATE first; remove takes its result rows,  *)
(* the kind row and the exam row, and an interleaving of the three waits   *)
(* in a cycle, which Postgres breaks by aborting one for tx_with_retry to  *)
(* run again.  The PATCH transaction locks nothing before its UPDATE and   *)
(* is one step per statement.                                              *)
(*                                                                         *)
(* The gates that only refuse and read nothing kept here (role, enrolment, *)
(* the archived year, the mark's range, no grading of oneself) are a       *)
(* request that is never taken further.                                    *)
(***************************************************************************)
EXTENDS ExamRules

CONSTANTS
    Exams, Graders, Kinds,
    Staff,       \* staff requests in flight
    KindPatches  \* the PATCH bodies staff send, kind and draft

Marks == {"low", "high"}    \* below and at or above HIGH_MARK_MIN

\* The columns of table exam that grading reads.
GradedRow == [kind : Kinds, draft : BOOLEAN, result_count : Nat]

\* The columns of table exam_result, besides its key.
MarkRow == [mark : Marks, by : Graders]

KindPatch == [kind : Kinds \cup {Keep}, draft : BOOLEAN \cup {Keep}]

ASSUME GradingAssumption ==
    /\ MaxSeq \in Nat \ {0}
    /\ Tries \in Nat \ {0}
    /\ KindPatches \subseteq KindPatch
    /\ None \notin GradedRow
    /\ None \notin MarkRow

VARIABLES
    exams,      \* Exams -> [kind, draft, result_count] or None once deleted
    result,     \* exam_result: Exams -> Students -> seq -> row or None
    sittings,   \* Exams -> Students -> the latest sitting's seq, 0 for none
    kindRef,    \* kind_ref: Kinds -> [count, retired]
    offered,    \* settings.exam_kinds, as names
    marksGiven, \* app_user.marks_given_total of each grader
    highTotal,  \* app_user.high_mark_total of each student
    req,        \* per staff request, where it is suspended and what it read
    sweptHigh,  \* history: high marks an exam delete took with it
    raced       \* history: kinds between which a graded exam, or one with a
                \*   grade or removal in flight, was moved

badges      == <<marksGiven, highTotal, sweptHigh>>
tables      == <<exams, result, sittings>>
kinds       == <<kindRef, offered, raced>>
gradingVars == <<tables, kinds, badges, req>>

Idle == [pc |-> "idle"]

-----------------------------------------------------------------------------
(* Reading the rows. *)

\* The sittings of u at e that carry a mark, and those that carry a high one.
Marked(e, u)     == {s \in Seqs : result[e][u][s] # None}
HighMarked(e, u) == {s \in Marked(e, u) : result[e][u][s].mark = "high"}

\* Every stored mark, as the key of its row.
Row(m)     == result[m[1]][m[2]][m[3]]
AllMarks   == {m \in Exams \X Students \X Seqs : Row(m) # None}
MarksOf(e) == {m \in AllMarks : m[1] = e}

\* GREATEST(n, 0)
Floor(n) == IF n < 0 THEN 0 ELSE n

NoMarks == [u \in Students |-> [s \in Seqs |-> None]]

-----------------------------------------------------------------------------
(* POST /exams/{id}/results *)

\* grade (service): the exam is read, its kind kept.
GradeRead(t, e, u, g, m) ==
    /\ req[t] = Idle
    /\ exams[e] # None /\ ~exams[e].draft
    /\ req' = [req EXCEPT ![t] =
                 [pc |-> "grade_gate", exam |-> e, user |-> u, by |-> g,
                  mark |-> m, kind |-> exams[e].kind, seq |-> 0]]
    /\ UNCHANGED <<tables, kinds, badges>>

\* grade (service): the kind must be offered; the mark lands on the latest
\* sitting, or on seq 1 of an exam graded offline.
GradeGate(t) ==
    /\ req[t].pc = "grade_gate"
    /\ LET q == req[t]
           n == sittings[q.exam][q.user]
       IN req' = [req EXCEPT ![t] =
                    IF q.kind \in offered
                    THEN [q EXCEPT !.pc = "grade_write",
                                   !.seq = IF n = 0 THEN 1 ELSE n]
                    ELSE Idle]
    /\ UNCHANGED <<tables, kinds, badges>>

\* Variant: the claim does not look at the retired bit.
MayClaimRetired(kind) == TRUE

\* The kind_ref upsert of grade: a retired name refuses the claim.
MayClaim(kind) == ~kindRef[kind].retired

\* Variant: the high-mark credit decided on the first branch alone.
HighMoveFirstOnly(before, mark) ==
    IF before = None /\ mark = "high" THEN 1 ELSE 0

\* How a mark moves the student's high_mark_total: by the difference between
\* the mark about to be stored and the one already there.
HighMove(before, mark) ==
    (IF mark = "high" THEN 1 ELSE 0)
    - (IF before # None /\ before.mark = "high" THEN 1 ELSE 0)

\* Variant: a regrade claims the exam's counter again.
CountMarkAlways(e, before) ==
    exams' = [exams EXCEPT ![e].result_count = @ + 1]

\* Only a mark that adds a row is counted on its exam.
CountMark(e, before) ==
    exams' = [exams EXCEPT ![e].result_count = @ + (IF before = None THEN 1 ELSE 0)]

\* grade (db): exists, not a draft, then the claims of a first mark, the
\* student's difference and the upsert, all on the locked exam row.
GradeWrite(t) ==
    /\ req[t].pc = "grade_write"
    /\ LET q      == req[t]
           before == IF exams[q.exam] = None THEN None
                     ELSE result[q.exam][q.user][q.seq]
       IN IF /\ exams[q.exam] # None /\ ~exams[q.exam].draft
             /\ before = None => MayClaim(q.kind)
          THEN /\ CountMark(q.exam, before)
               /\ kindRef' = IF before = None
                             THEN [kindRef EXCEPT ![q.kind].count = @ + 1]
                             ELSE kindRef
               /\ marksGiven' = IF before = None
                                THEN [marksGiven EXCEPT ![q.by] = @ + 1]
                                ELSE marksGiven
               /\ highTotal' = [highTotal EXCEPT ![q.user] =
                                  Floor(@ + HighMove(before, q.mark))]
               /\ result' = [result EXCEPT ![q.exam][q.user][q.seq] =
                               [mark |-> q.mark, by |-> q.by]]
          ELSE UNCHANGED <<exams, kindRef, marksGiven, highTotal, result>>
    /\ req' = [req EXCEPT ![t] = Idle]
    /\ UNCHANGED <<sittings, offered, sweptHigh, raced>>

-----------------------------------------------------------------------------
(* DELETE /exams/{id}/results/{user} *)

\* remove_result: the handler's exam row, whose kind the release will name.
RemoveRead(t, e, u) ==
    /\ req[t] = Idle
    /\ exams[e] # None
    /\ req' = [req EXCEPT ![t] = [pc |-> "remove", exam |-> e, user |-> u,
                                  kind |-> exams[e].kind]]
    /\ UNCHANGED <<tables, kinds, badges>>

\* Variant: one reference given back however many sittings were marked.
ReleasedOne(rows) == 1

\* How many references the removed rows give back.
Released(rows) == Cardinality(rows)

\* remove: every sitting's mark of the pair at once; the counters move by the
\* rows this delete removed, each grader's by their own.
RemoveWrite(t) ==
    /\ req[t].pc = "remove"
    /\ LET q    == req[t]
           rows == Marked(q.exam, q.user)
           n    == Released(rows)
           by(g) == Cardinality({s \in rows : result[q.exam][q.user][s].by = g})
       IN IF rows # {}
          THEN /\ result' = [result EXCEPT ![q.exam][q.user] =
                               [s \in Seqs |-> None]]
               /\ kindRef' = [kindRef EXCEPT ![q.kind].count = Floor(@ - n)]
               /\ exams' = [exams EXCEPT ![q.exam].result_count = Floor(@ - n)]
               /\ highTotal' =
                    [highTotal EXCEPT ![q.user] =
                       Floor(@ - Cardinality(HighMarked(q.exam, q.user)))]
               /\ marksGiven' =
                    [g \in Graders |-> Floor(marksGiven[g] - by(g))]
          ELSE UNCHANGED <<result, kindRef, exams, highTotal, marksGiven>>
    /\ req' = [req EXCEPT ![t] = Idle]
    /\ UNCHANGED <<sittings, offered, sweptHigh, raced>>

-----------------------------------------------------------------------------
(* PATCH /exams/{id}: kind and draft. *)

\* A lost compare-and-set: one more round, or 409 when they are spent.
NextRound(q) == IF q.left = 1 THEN Idle ELSE [q EXCEPT !.left = @ - 1]

\* update_exam, then update's fresh read.  A kind the request sets must be on
\* the settings list.
PatchKindRead(t, e, p) ==
    /\ req[t] = Idle
    /\ exams[e] # None
    /\ p.kind # Keep => p.kind \in offered
    /\ req' = [req EXCEPT ![t] =
                 [pc |-> "patch_gate", exam |-> e, patch |-> p,
                  base |-> exams[e], pinned |-> 0, left |-> Tries]]
    /\ UNCHANGED <<tables, kinds, badges>>

\* The merge over the row that was read.
NewKind(q)  == IF q.patch.kind = Keep THEN q.base.kind ELSE q.patch.kind
NewDraft(q) == IF q.patch.draft = Keep THEN q.base.draft ELSE q.patch.draft

MakesDraft(q) == NewDraft(q) /\ ~q.base.draft
SatOrMarked(e) ==
    MarksOf(e) # {} \/ \E u \in Students : sittings[e][u] > 0

\* update's pre-flight: a re-draft of a sat or graded exam, and a kind change
\* of a graded one, are refused.
PatchKindGate(t) ==
    /\ req[t].pc = "patch_gate"
    /\ LET q == req[t]
           e == q.exam
       IN req' = [req EXCEPT ![t] =
                    IF \/ MakesDraft(q) /\ SatOrMarked(e)
                       \/ /\ NewKind(q) # q.base.kind
                          /\ exams[e] # None /\ exams[e].result_count > 0
                    THEN Idle ELSE [q EXCEPT !.pc = "patch_check"]]
    /\ UNCHANGED <<tables, kinds, badges>>

\* update_if_unchanged, first statement: the re-draft gate in the transaction.
PatchKindCheck(t) ==
    /\ req[t].pc = "patch_check"
    /\ LET q == req[t]
       IN req' = [req EXCEPT ![t] =
                    IF MakesDraft(q) /\ SatOrMarked(q.exam)
                    THEN Idle ELSE [q EXCEPT !.pc = "patch_pin"]]
    /\ UNCHANGED <<tables, kinds, badges>>

\* Second statement: the mark counter is read, to be pinned (a missing row
\* reads as 0).
PatchKindPin(t) ==
    /\ req[t].pc = "patch_pin"
    /\ LET q == req[t]
           n == IF exams[q.exam] = None THEN 0 ELSE exams[q.exam].result_count
       IN req' = [req EXCEPT ![t] = [q EXCEPT !.pc = "patch_save", !.pinned = n]]
    /\ UNCHANGED <<tables, kinds, badges>>

\* The UPDATE's WHERE: the replaced columns as read, the counter as pinned.
StillUnchanged(q) ==
    /\ exams[q.exam] # None
    /\ exams[q.exam].kind = q.base.kind
    /\ exams[q.exam].draft = q.base.draft
    /\ exams[q.exam].result_count = q.pinned

\* The exam is marked, or a grade or removal that read its kind is in flight.
KindInUse(e) ==
    \/ MarksOf(e) # {}
    \/ \E t \in Staff :
          /\ req[t].pc \in {"grade_gate", "grade_write", "remove"}
          /\ req[t].exam = e

\* Third statement: the guarded UPDATE lands the merge, or another round
\* starts over a fresh read (an exam that is gone is a 404).
PatchKindSave(t) ==
    /\ req[t].pc = "patch_save"
    /\ LET q == req[t]
           e == q.exam
       IN IF StillUnchanged(q)
          THEN /\ exams' = [exams EXCEPT ![e].kind = NewKind(q),
                                         ![e].draft = NewDraft(q)]
               /\ raced' = IF NewKind(q) # q.base.kind /\ KindInUse(e)
                           THEN raced \cup {q.base.kind, NewKind(q)}
                           ELSE raced
               /\ req' = [req EXCEPT ![t] = Idle]
          ELSE /\ req' = [req EXCEPT ![t] =
                    IF exams[e] = None THEN Idle
                    ELSE NextRound([q EXCEPT !.pc = "patch_gate",
                                             !.base = exams[e], !.pinned = 0])]
               /\ UNCHANGED <<exams, raced>>
    /\ UNCHANGED <<result, sittings, kindRef, offered, badges>>

-----------------------------------------------------------------------------
(* DELETE /exams/{id} *)

\* delete: the marks give their kind references back, counted per the exam's
\* kind, and go with the exam; the badge counters stay.
DeleteGraded(e) ==
    /\ exams[e] # None
    /\ kindRef' = [kindRef EXCEPT ![exams[e].kind].count =
                     Floor(@ - Cardinality(MarksOf(e)))]
    /\ exams' = [exams EXCEPT ![e] = None]
    /\ result' = [result EXCEPT ![e] = NoMarks]
    /\ sittings' = [sittings EXCEPT ![e] = [u \in Students |-> 0]]
    /\ sweptHigh' = [u \in Students |->
                       sweptHigh[u] + Cardinality(HighMarked(e, u))]
    /\ UNCHANGED <<offered, marksGiven, highTotal, req, raced>>

\* A student starts the next sitting (ExamSitting's StartCreate).
Sit(e, u) ==
    /\ exams[e] # None /\ ~exams[e].draft
    /\ sittings[e][u] < MaxSeq
    /\ sittings' = [sittings EXCEPT ![e][u] = @ + 1]
    /\ UNCHANGED <<exams, result, kinds, badges, req>>

-----------------------------------------------------------------------------
(* PATCH /settings: the list of exam kinds. *)

\* apply: the list is read; the wanted one, which may not be empty, replaces it.
SettingsRead(t, list) ==
    /\ req[t] = Idle
    /\ list # {}
    /\ req' = [req EXCEPT ![t] = [pc |-> "settings", was |-> offered,
                                  list |-> list, left |-> Tries]]
    /\ UNCHANGED <<tables, kinds, badges>>

\* retire_kind: lands only while nothing references the name.
RetireKind(kind) == kindRef[kind].count = 0

\* retire_kind for every name dropped, unretire_kind for every name back.
RetiredAfter(was, list, k) ==
    \/ k \in was \ list
    \/ kindRef[k].retired /\ k \notin list \ was

\* apply's transaction: retirements, returns and the compare-and-set of the
\* list commit together or not at all.
SettingsSave(t) ==
    /\ req[t].pc = "settings"
    /\ LET q == req[t]
       IN IF \E k \in q.was \ q.list : ~RetireKind(k)
          THEN /\ req' = [req EXCEPT ![t] = Idle]
               /\ UNCHANGED <<kindRef, offered>>
          ELSE IF offered = q.was
          THEN /\ offered' = q.list
               /\ kindRef' = [k \in Kinds |->
                                [kindRef[k] EXCEPT !.retired =
                                   RetiredAfter(q.was, q.list, k)]]
               /\ req' = [req EXCEPT ![t] = Idle]
          ELSE /\ req' = [req EXCEPT ![t] =
                            NextRound([q EXCEPT !.was = offered])]
               /\ UNCHANGED <<kindRef, offered>>
    /\ UNCHANGED <<tables, badges, raced>>

-----------------------------------------------------------------------------
GradingInit ==
    /\ exams \in [Exams -> [kind : Kinds, draft : {FALSE}, result_count : {0}]]
    /\ result = [e \in Exams |-> NoMarks]
    /\ sittings = [e \in Exams |-> [u \in Students |-> 0]]
    /\ kindRef = [k \in Kinds |-> [count |-> 0, retired |-> FALSE]]
    /\ offered = Kinds
    /\ marksGiven = [g \in Graders |-> 0]
    /\ highTotal = [u \in Students |-> 0]
    /\ req = [t \in Staff |-> Idle]
    /\ sweptHigh = [u \in Students |-> 0]
    /\ raced = {}

StaffStep(t) ==
    \/ \E e \in Exams, u \in Students, g \in Graders, m \in Marks :
          GradeRead(t, e, u, g, m)
    \/ GradeGate(t) \/ GradeWrite(t)
    \/ \E e \in Exams, u \in Students : RemoveRead(t, e, u)
    \/ RemoveWrite(t)
    \/ \E e \in Exams, p \in KindPatches : PatchKindRead(t, e, p)
    \/ PatchKindGate(t) \/ PatchKindCheck(t)
    \/ PatchKindPin(t) \/ PatchKindSave(t)
    \/ \E list \in SUBSET Kinds : SettingsRead(t, list)
    \/ SettingsSave(t)

GradingNext ==
    \/ \E t \in Staff : StaffStep(t)
    \/ \E e \in Exams : DeleteGraded(e)
    \/ \E e \in Exams, u \in Students : Sit(e, u)

GradingSpec == GradingInit /\ [][GradingNext]_gradingVars

-----------------------------------------------------------------------------
(* What grading promises. *)

\* Where a request can be suspended, and what it keeps there.
Gating   == [pc : {"grade_gate"}, exam : Exams, user : Students, by : Graders,
             mark : Marks, kind : Kinds, seq : {0}]
Writing  == [pc : {"grade_write"}, exam : Exams, user : Students, by : Graders,
             mark : Marks, kind : Kinds, seq : Seqs]
Removing == [pc : {"remove"}, exam : Exams, user : Students, kind : Kinds]
Patching == [pc : {"patch_gate", "patch_check", "patch_pin", "patch_save"},
             exam : Exams, patch : KindPatch, base : GradedRow, pinned : Nat,
             left : 1 .. Tries]
Listing  == [pc : {"settings"}, was : SUBSET Kinds, list : SUBSET Kinds,
             left : 1 .. Tries]
ReqRow   == {Idle} \cup Gating \cup Writing \cup Removing \cup Patching
                   \cup Listing

\* Every variable keeps its shape, the counters their sign, and a request that
\* keeps losing its compare-and-set ends within its rounds (update, apply).
GradingTypeOK ==
    /\ exams \in [Exams -> GradedRow \cup {None}]
    /\ result \in [Exams -> [Students -> [Seqs -> MarkRow \cup {None}]]]
    /\ sittings \in [Exams -> [Students -> 0 .. MaxSeq]]
    /\ kindRef \in [Kinds -> [count : Nat, retired : BOOLEAN]]
    /\ offered \subseteq Kinds
    /\ raced \subseteq Kinds
    /\ marksGiven \in [Graders -> Nat]
    /\ highTotal \in [Students -> Nat]
    /\ sweptHigh \in [Students -> Nat]
    /\ req \in [Staff -> ReqRow]

\* kind_ref.count is exactly the marks whose exam carries the kind, across
\* every exam: no claim leaks and none is released twice, whatever grades,
\* removals, deletes and PATCHes collide.  Only a kind that a PATCH took away
\* from under a mark or from under a request that had read it may drift.
KindRefExact ==
    \A k \in Kinds \ raced :
        kindRef[k].count =
            Cardinality({m \in AllMarks : exams[m[1]].kind = k})

\* exam.result_count is exactly the exam's stored marks: a regrade adds none,
\* a removal gives back what it removed.
ResultCountExact ==
    \A e \in Exams :
        IF exams[e] = None THEN MarksOf(e) = {}
        ELSE exams[e].result_count = Cardinality(MarksOf(e))

\* high_mark_total is exactly the student's stored high marks plus what exam
\* deletes took: a mark walked across the line by a regrade and then removed
\* leaves no credit behind (grade, remove).
HighMarksExact ==
    \A u \in Students :
        highTotal[u] = sweptHigh[u]
            + Cardinality({m \in AllMarks : m[2] = u /\ Row(m).mark = "high"})

\* A kind off the settings list carries no mark, and its retired bit says so:
\* a mark racing the edit that drops its kind refuses it or is refused.  Only a
\* raced kind, whose counter no longer speaks for its marks, may be dropped
\* from under one.
UnlistedKindUnmarked ==
    /\ \A k \in Kinds : k \in offered <=> ~kindRef[k].retired
    /\ \A m \in AllMarks : exams[m[1]].kind \in offered \cup raced
=============================================================================
