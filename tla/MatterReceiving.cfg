\* Three requests, two dates: every order of links, pages and the command.
SPECIFICATION Spec
CONSTANTS
    Requests = {q1, q2, q3}
    Dates = {d1, d2}
    None = None
INVARIANTS
    TypeOK
    DateWasApproved
PROPERTIES
    ResolvedStaysResolved
    DueIsDecided
CHECK_DEADLOCK FALSE
