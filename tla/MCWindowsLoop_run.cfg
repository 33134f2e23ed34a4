SPECIFICATION Spec
CONSTANTS
    w1 = w1
    Windows = {w1}
    StackSize = 3
    Align = 4
    SizeCount = 32
    ObjectSize = 5
    DriverDataSize = 6
    UserSizes = {0, 12, 13, 31}
    Titles <- ShortTitles
    Failures <- FailureKinds
    MaxQuits = 2
    MaxEvents = 2
INVARIANTS TypeOK OneQuitPerRun ToldOfLosses HandlesAgree BrushesOwned TitleIsText BlocksSound
PROPERTIES QuitReturns Painted
CHECK_DEADLOCK FALSE
