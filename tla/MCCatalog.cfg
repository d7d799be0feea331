CONSTANTS
    s1 = s1
    s2 = s2
    f1 = f1
    f2 = f2
    Session = {s1, s2}
    Folder = {root, d}
    Root = root
    File = {f1, f2}
    Name <- MCName
    Mapped = 0
    Reserved = Reserved
    None = None
    Batch = 1
    MaxCalls = 3

SPECIFICATION Spec
SYMMETRY MCSymmetry
INVARIANT TypeOK
 
 
 
