CONSTANTS
    s1 = s1
    s2 = s2
    c0 = c0
    c1 = c1
    c2 = c2
    g = g
    Session = {s1}
    File = {f1}
    Content <- MCContent
    Size <- MCSize
    Empty = c0
    Garbage = g
    Absent = Absent
    RefRange = 2
    MaxFiles = 2
    MaxOpens = 3

SPECIFICATION Spec
INVARIANT OpenForkLengthIsTheBuffers
