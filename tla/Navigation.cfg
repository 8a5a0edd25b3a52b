SPECIFICATION Spec
CONSTANTS
    Windows = {w1, w2}
    Frames = {w2}
    Targets = {"A", "B"}
    None = "none"
    Addresses = {"A"}
    MaxIds = 6
    MaxActs = 3
    MaxEnds = 1
INVARIANTS OwnTab 
   
CHECK_DEADLOCK FALSE
