\* One close request more than the ring has places, in one batch of events.
SPECIFICATION Spec
CONSTANTS
    Posters = {}
    Main = main
    Windows = {w1}
    Initial = {w1}
    Redrawing = {w1}
    Exposures <- Cross
    Places = 2
    Callbacks = {"close quits"}
    OutCapacity = 1
    ServerDestroys = FALSE
    Breaks = FALSE
    MaxQuits = 3
    MaxEvents = 3
    MaxRequests = 0
PROPERTY
    QuitReturns
CHECK_DEADLOCK FALSE
