SPECIFICATION Spec
CONSTANTS
    e1 = e1
    e2 = e2
    e3 = e3
    e4 = e4
    Missing = Missing
    Unreadable = Unreadable
    Events <- MCEvents
    MaxFaults = 3
SYMMETRY Symmetry
INVARIANTS
    TypeOK
    NamedUnlessBadStart
    FoundUnlessBadStart
    MappingNeedsIndex
CHECK_DEADLOCK FALSE
