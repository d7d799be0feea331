SPECIFICATION Spec
CONSTANTS
    s1 = s1
    s2 = s2
    n1 = n1
    NoNode = NoNode
    Session = {s1, s2}
    Node = {n1}
    Ref = {1}
    MaxLocks = 2
    MaxSize = 1
    Offset <- MCOffset
    Length <- MCLength
SYMMETRY MCSymmetry
INVARIANTS
    TypeOK
    
    
    ListsAgree
    DeadSessionHoldsNothing

    
