CONSTANTS
    Session = {s1}
    Name = {Guest, u1}
    Guest = Guest
    Password = {Blank, p1}
    Blank = Blank
    Settings <- MCSettings
    p1 = p1
    None = None
    MaxDeletions = 1

SPECIFICATION Spec
INVARIANT TypeOK
INVARIANT IDsAreUnique
INVARIANT FoundUnlessDeleted
PROPERTY OnlyRacingWritesAreLost
