SPECIFICATION Spec
CONSTANTS
    None = None
    Keep = Keep
    MaxTime = 1
    Students = {ali}
    Requests = {r1}
    Sockets = {s1, s2}
    Editors = {e1}
    InitExams <- RoomExams
    Patches <- NoPatches
    MaxSeq = 2
    MaxRevision = 0
    Tries = 1
INVARIANTS PresenceExact
PROPERTIES RoomBoundToSitting SittingsStand
