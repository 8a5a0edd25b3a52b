SPECIFICATION Spec
CONSTANTS
    Handlers = {h1, h2}
    Pumps = {}
PROPERTIES CloseDropsAll
CHECK_DEADLOCK FALSE
