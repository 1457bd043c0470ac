SPECIFICATION Spec
CONSTANTS
    None = None
    Desk = {d1, d2}
    Plans <- TwoPlans
    Amounts = {1, 2}
    Keys = {k1}
    MaxApplied = 4
    MaxLines = 5
SYMMETRY Interchangeable
INVARIANTS ChargesFollowPlan KeyedAnswers
PROPERTIES PaymentsFit
CHECK_DEADLOCK FALSE
