\* The server destroys a window on its own.
SPECIFICATION Spec
CONSTANTS
    Posters = {}
    Main = main
    Windows = {w1, w2}
    Initial = {w1, w2}
    Redrawing = {w1, w2}
    Exposures <- Cross
    Places = 2
    Callbacks = {"close quits", "close destroys", "wait quits"}
    OutCapacity = 1
    ServerDestroys = TRUE
    Breaks = TRUE
    MaxQuits = 2
    MaxEvents = 2
    MaxRequests = 1
INVARIANT
    InvalidatedIsTold
CHECK_DEADLOCK FALSE
