SPECIFICATION GradingSpec
CONSTANTS
    None = None
    Keep = Keep
    Exams = {maths}
    Students = {ali}
    Graders = {derya}
    Kinds = {quiz, oral}
    Staff = {t1, t2}
    MaxSeq = 2
    MaxTime = 0
    KindPatches <- EveryMove
    Tries = 2
INVARIANTS KindRefExact ResultCountExact HighMarksExact UnlistedKindUnmarked
CONSTRAINT DriftBound
SYMMETRY StaffSymmetry
