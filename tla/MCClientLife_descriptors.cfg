SPECIFICATION Spec
CONSTANTS
    c1 = c1
    c2 = c2
    w1 = w1
    t1 = t1
    t2 = t2
    none = none
    Clients = {c1, c2}
    Windows = {w1}
    LastDescriptor = 6
    Failures <- AllFailures
    StyleObjects = {1, 2}
    Holders = {t1}
    Classes <- TwoClasses
    Extensions <- TheirExtensions
    Queries <- ThreeQueries
    Increment = 1
    Wrap = 5
    NoStyle = none
    DefaultQuery <- Base
    DefaultClass = "win9x"
    Titles <- TwoTitles
    StackSize = 3
INVARIANTS LiveDescriptors
