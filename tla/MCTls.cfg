SPECIFICATION Spec
CONSTANTS
    a12 = a12
    b12 = b12
    a13 = a13
    b13 = b13
    unknown = unknown
    Suites12 = {a12, b12}
    Suites13 = {a13, b13}
    Lists <- MCLists
    Ends <- MCEnds
    Absent = Absent
INVARIANT MinimumIsAMinimum
CHECK_DEADLOCK FALSE
