SPECIFICATION Spec
CONSTANTS
    None = None
    Keep = Keep
    MaxTime = 2
    Students = {ali}
    Requests = {r1, r2}
    Sockets = {}
    Editors = {e1}
    InitExams <- CoreExams
    Patches <- CorePatches
    MaxSeq = 3
    MaxRevision = 1
    Tries = 2
INVARIANTS SittingsContiguous SatCountedOnce LimitHolds NoOrphanAnswers
PROPERTIES QuestionsFrozen
