\* The command approves a request disputed since it was loaded.
SPECIFICATION Spec
CONSTANTS
    Requests = {q1, q2}
    Dates = {d1, d2, d3}
    None = None
PROPERTIES
    ConfirmingAppliesTheDate
CHECK_DEADLOCK FALSE
