---------------------------- MODULE MCExamSitting ----------------------------
(***************************************************************************)
(* Instances of ExamSitting for TLC.                                       *)
(***************************************************************************)
EXTENDS ExamSitting, TLC

KeepAll ==
    [draft |-> Keep, mode |-> Keep, starts_at |-> Keep, ends_at |-> Keep,
     duration_ms |-> Keep, max_attempts |-> Keep, allow_rejoin |-> Keep]

OpenExam ==
    [draft |-> FALSE, mode |-> "open", starts_at |-> None, ends_at |-> None,
     duration_ms |-> 1, max_attempts |-> 1, allow_rejoin |-> FALSE]

SyncExam ==
    [draft |-> FALSE, mode |-> "sync", starts_at |-> 0, ends_at |-> 1,
     duration_ms |-> None, max_attempts |-> 1, allow_rejoin |-> FALSE]

\* REST starts racing each other, a limit edit and the delete.
CoreExams  == {OpenExam}
CorePatches == {[KeepAll EXCEPT !.max_attempts = 2]}

\* Two staff requests editing one row.
EditExams == {SyncExam, [OpenExam EXCEPT !.draft = TRUE]}
EditPatches ==
    {[KeepAll EXCEPT !.max_attempts = 2],
     [KeepAll EXCEPT !.ends_at = 2],
     [KeepAll EXCEPT !.allow_rejoin = TRUE],
     [KeepAll EXCEPT !.draft = FALSE]}

\* Rooms.
RoomExams == {[OpenExam EXCEPT !.max_attempts = 2]}
NoPatches == {}
=============================================================================
