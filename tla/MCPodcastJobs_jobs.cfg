SPECIFICATION Spec
CONSTANTS
    None = None
    MaxWorkers = 1
    MaxConcurrent = 1
    Calls = {q1, q2}
    Jobs = {j1}
    Reports = {r1, r2}
    Uploads = {u1}
SYMMETRY Sym
INVARIANTS SlotsExact RowFollowsService VerdictsEndTheJob
PROPERTIES JobsSettleOnce
CHECK_DEADLOCK FALSE
