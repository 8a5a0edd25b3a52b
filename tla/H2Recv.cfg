SPECIFICATION Spec
CONSTANTS
    MaxStream = 2
    Bodies = {1}
    Plain = {2}
    Sizes = {1}
    Pads = {0, 1}
    Lengths = {1}
    MaxData = 2
    DefaultWindow = 1
    InitWindow = 5
    ConnDefault = 1
    ConnTarget = 2
    MaxReset = 1
    MaxErrors = 1
    MaxEvents = 1
INVARIANTS WindowExact NeverStarved CleanEndWhole
CHECK_DEADLOCK FALSE
