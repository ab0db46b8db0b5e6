SPECIFICATION CommandSpec
CONSTANTS
    p1 = p1  p2 = p2  q1 = q1  Nothing = Nothing
    Process = {p1, p2}
    Client = {q1}
    Overlap = FALSE
    MaxKills = 1
    Kinds = {"forward", "up", "serve", "mosh"}
 
PROPERTIES ControlHolds CommandEnds
CHECK_DEADLOCK FALSE
