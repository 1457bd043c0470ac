SPECIFICATION Spec
CONSTANTS
    None = None
    Students = {ali, veli}
    Requests = {r1, r2}
    Capacities = {1, 2}
    Prices = {0, 5}
    MaxAttempts = 2
    MaxVersion = 1
    MaxPublished = 2
    Tries = 2
SYMMETRY Interchangeable
INVARIANTS LedgerExact HeldSeatsCounted
PROPERTIES ClaimsAreFresh
