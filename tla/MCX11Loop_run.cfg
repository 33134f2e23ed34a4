\* No more quits in flight than the ring has places.
SPECIFICATION Spec
CONSTANTS
    Posters = {t1}
    Main = main
    Windows = {w1, w2}
    Initial = {w1}
    Redrawing = {w1, w2}
    Exposures <- Cross
    Places = 2
    Callbacks = {"close quits", "close destroys", "wait quits", "wait creates", "redraw quits", "redraw destroys"}
    OutCapacity = 1
    ServerDestroys = FALSE
    Breaks = TRUE
    MaxQuits = 2
    MaxEvents = 2
    MaxRequests = 1
INVARIANTS
    TypeOK
    OneQuitPerRun
    RedrawnBeforeSleep
    ExposedIsDirty
PROPERTIES
    QuitReturns
    LostConnectionEndsRun
