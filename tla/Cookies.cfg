SPECIFICATION JarSpec
CONSTANTS
    Jars = {j1}
    Cookies = {a, b}
    Tabs = {t1}
    MaxWrites = 3
    MaxFailures = 1
    MaxFlights = 3
    MaxLives = 2
    Pages = {p1, p2}
    Present = {p1}
    Requesters = {p1}
    MaxMade = 2
    MaxCarried = 1
    Target = target
 
PROPERTIES StoreMovesForward OwnWriteStands Mirrored
CHECK_DEADLOCK FALSE
