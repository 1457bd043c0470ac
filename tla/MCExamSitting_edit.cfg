SPECIFICATION Spec
CONSTANTS
    None = None
    Keep = Keep
    MaxTime = 2
    Students = {ali}
    Requests = {}
    Sockets = {}
    Editors = {e1, e2}
    InitExams <- EditExams
    Patches <- EditPatches
    MaxSeq = 2
    MaxRevision = 1
    Tries = 2
PROPERTIES PatchesCompose
