SPECIFICATION Spec
CONSTANTS
    Path = {p}
    Question = {q1}
    Command = {c1, c2}
    Tier = {"once"}
    Edit = {}
    Budget = 1
    None = None
PROPERTIES OnceReachesItsCommand
CHECK_DEADLOCK FALSE
