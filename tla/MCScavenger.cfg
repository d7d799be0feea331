\* Two connections, one volume; clients close only forks they have open.
SPECIFICATION Spec
CONSTANTS
    c1 = c1
    c2 = c2
    v1 = v1
    NoConnection = NoConnection
    Connection = {c1, c2}
    Volume = {v1}
    TickleInterval = 1
    DeadInterval = 2
    SelectTimeout = 3
    SleepingInterval = 4
    MaxPass = 1
    UnknownForks = FALSE
SYMMETRY MCSymmetry
INVARIANTS
    TypeOK
    PointerIsLive
PROPERTIES
    AnnouncedBeforeClean
    KilledForAReason
