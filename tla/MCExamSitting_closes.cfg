SPECIFICATION FairSpec
CONSTANTS
    None = None
    Keep = Keep
    MaxTime = 1
    Students = {ali}
    Requests = {r1}
    Sockets = {s1, s2}
    Editors = {e1}
    InitExams <- RoomExams
    Patches <- NoPatches
    MaxSeq = 1
    MaxRevision = 0
    Tries = 1
PROPERTIES RoomEndsWithSitting

