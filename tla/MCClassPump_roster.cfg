SPECIFICATION Spec
CONSTANTS
    None = None
    Requests = {r1, r2}
    Classes = {c1}
    Users = {u1, u2}
    Courses = {k1}
    Instances = {i1, i2}
    Lists <- AnyList
    MaxRows = 1
    MaxMembers = 2
    MaxCourses = 1
SYMMETRY Interchangeable
INVARIANTS PairsEnrolled NoEnrolmentOutlives CountsExact TagsStand
PROPERTY HandAttachedStays
