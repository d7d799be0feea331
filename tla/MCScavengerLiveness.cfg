\* One connection; clients may close forks they do not have open.
SPECIFICATION FairSpec
CONSTANTS
    c1 = c1
    v1 = v1
    v2 = v2
    NoConnection = NoConnection
    Connection = {c1}
    Volume = {v1, v2}
    TickleInterval = 1
    DeadInterval = 2
    SelectTimeout = 3
    SleepingInterval = 4
    MaxPass = 1
    UnknownForks = TRUE
PROPERTIES
    DeadSessionEndsUnlessBlocked
    ClosedConnectionEndsUnlessBlocked
    QuietClientIsTickledUnlessBlocked
