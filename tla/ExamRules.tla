------------------------------ MODULE ExamRules ------------------------------
(***************************************************************************)
(* The pure rules of an exam and of one sitting of it: which schedules can *)
(* be stored, when a sitting's clock runs out, whether another sitting is  *)
(* allowed, and how a PATCH is merged over a stored row.                   *)
(*                                                                         *)
(* A row keeps the columns the sitting paths read.  Title, description and *)
(* allow_review decide nothing here and are left out; the kind and the     *)
(* mark counter belong to ExamGrading.                                     *)
(***************************************************************************)
EXTENDS Integers, FiniteSets

CONSTANTS
    Students, \* accounts that may hold the student role
    None,     \* an absent value (SQL NULL, Rust's Option::None), and no row
    Keep,     \* a field a PATCH does not set
    Tries,    \* CAS_UPDATE_RETRIES
    MaxSeq,   \* bound: sittings per student and exam
    MaxTime   \* bound: the clock stops here

ASSUME TimeAssumption == MaxTime \in Nat

Time == 0 .. MaxTime
Seqs == 1 .. MaxSeq

Modes == {"sync", "async", "open"}

\* The stored columns of table exam that decide a sitting.
ExamRow ==
    [draft : BOOLEAN, mode : Modes \cup {None},
     starts_at : Time \cup {None}, ends_at : Time \cup {None},
     duration_ms : Time \cup {None}, max_attempts : Nat,
     allow_rejoin : BOOLEAN]

\* The stored columns of table exam_attempt, besides its key.
AttemptRow ==
    [started_at : Time, finished_at : Time \cup {None},
     left_at : Time \cup {None}]

\* An absent value is none of the values it stands in for.
ASSUME NoneAssumption ==
    /\ None \notin Time
    /\ None \notin ExamRow
    /\ None \notin AttemptRow
    /\ None \notin Modes

-----------------------------------------------------------------------------
\* ExamSchedule::try_new: the schedule columns only make sense together.
ValidSchedule(e) ==
    \/ /\ e.mode = None
       /\ e.starts_at = None /\ e.ends_at = None /\ e.duration_ms = None
    \/ /\ e.mode = "open"
       /\ e.starts_at = None /\ e.ends_at = None
    \/ /\ e.mode \in {"sync", "async"}
       /\ e.starts_at # None /\ e.ends_at # None
       /\ e.ends_at > e.starts_at
       /\ (e.mode = "async") <=> (e.duration_ms # None)
       /\ e.mode = "async" => e.duration_ms <= e.ends_at - e.starts_at

\* ExamAttemptLimit::allows_another; 0 is unlimited.
AllowsAnother(limit, used) == limit = 0 \/ used < limit

\* ensure_sittable: a draft is invisible, an exam without a mode is not sat.
Sittable(e) == ~e.draft /\ e.mode # None

\* The window gate of start_attempt and guard_start.
WindowOpen(e, t) ==
    /\ e.starts_at # None => t >= e.starts_at
    /\ e.ends_at # None => t < e.ends_at

\* ExamAttempt::deadline has passed: the earlier of the window's end and
\* started_at + duration_ms, whichever exist, judged on the given exam row.
PastDeadline(row, e, t) ==
    \/ e.ends_at # None /\ t >= e.ends_at
    \/ e.duration_ms # None /\ t >= row.started_at + e.duration_ms

\* ExamAttempt::status = InProgress.
InProgress(row, e, t) == row.finished_at = None /\ ~PastDeadline(row, e, t)

\* check_rejoin: a student who walked out may not answer while the door is shut.
RejoinOpen(row, e) == row.left_at = None \/ e.allow_rejoin

-----------------------------------------------------------------------------
\* ExamPatch: a field is set to a value, or kept.
Patch ==
    [draft : BOOLEAN \cup {Keep}, mode : Modes \cup {None, Keep},
     starts_at : Time \cup {None, Keep}, ends_at : Time \cup {None, Keep},
     duration_ms : Time \cup {None, Keep}, max_attempts : Nat \cup {Keep},
     allow_rejoin : BOOLEAN \cup {Keep}]

\* One field of the merge: the patch's value if it sets one.
Set(v, old) == IF v = Keep THEN old ELSE v

\* The merge of a PATCH over a freshly read row.
Merge(e, p) ==
    [draft |-> Set(p.draft, e.draft), mode |-> Set(p.mode, e.mode),
     starts_at |-> Set(p.starts_at, e.starts_at),
     ends_at |-> Set(p.ends_at, e.ends_at),
     duration_ms |-> Set(p.duration_ms, e.duration_ms),
     max_attempts |-> Set(p.max_attempts, e.max_attempts),
     allow_rejoin |-> Set(p.allow_rejoin, e.allow_rejoin)]

\* check_not_past: only the times this request sets must not lie in the past
\* (the clock's unit is coarser than the grace, which is therefore zero here).
NotPast(p, t) ==
    /\ p.starts_at \notin {None, Keep} => p.starts_at >= t
    /\ p.ends_at \notin {None, Keep} => p.ends_at >= t
=============================================================================
