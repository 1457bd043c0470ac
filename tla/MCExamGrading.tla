---------------------------- MODULE MCExamGrading ----------------------------
(***************************************************************************)
(* Instances of ExamGrading for TLC.                                       *)
(***************************************************************************)
EXTENDS ExamGrading, TLC

\* Publish, re-draft, or move the kind.
EveryMove ==
    [kind : {Keep}, draft : BOOLEAN] \cup [kind : Kinds, draft : {Keep}]

\* Bound: the counter of a raced kind may drift without limit, and stops here.
DriftBound == \A k \in raced : kindRef[k].count <= MaxSeq

\* Two requests in flight are interchangeable.
StaffSymmetry == Permutations(Staff)
=============================================================================
