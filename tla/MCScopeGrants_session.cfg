SPECIFICATION Spec
CONSTANTS
    Path = {p}
    Question = {q1, q2}
    Command = {c1}
    Tier = {"once", "always"}
    Edit = {"none"}
    Budget = 1
    None = None
SYMMETRY Alike
INVARIANTS OneOpenQuestion NoQuestionIsLost LiveIsHeld
PROPERTIES NotAskedAgain
CHECK_DEADLOCK FALSE
