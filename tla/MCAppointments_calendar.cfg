SPECIFICATION Spec
CONSTANTS
    None = None
    Requests = {r1, r2}
    Teachers = {t1}
    Managers = {}
    People = {p1}
    Slots = {s1, s2}
    Bookings = {b1, b2}
    Hours <- FirstHour
    Offers <- TwoHours
    Week = 1
    Repeats = {2}
    MaxTime = 1
CONSTRAINT RolesBeforeHour
SYMMETRY Interchangeable
INVARIANTS NoDoubleBooking SeatsExact StudentsHaveNoCalendar
PROPERTIES AcceptedAsNamed
CHECK_DEADLOCK FALSE
