\* One session; three paths, two of one name; the third volume's ID is never found.
SPECIFICATION Spec
CONSTANTS
    s1 = s1
    a1 = a1
    a2 = a2
    p1 = p1
    p2 = p2
    p3 = p3
    work = work
    home = home
    Session = {s1}
    Path = {p1, p2, p3}
    Leaf <- MCLeaf
    Address = {a1, a2}
    IDRange = 6
    MaxOpenVolumes = 2
    MaxFiles = 1
    MaxShares = 3
SYMMETRY MCSymmetry
INVARIANTS
    TypeOK
    SharedNamesAreUnique
    
    ListedFilesAreOpen
    OpenIsKnown
