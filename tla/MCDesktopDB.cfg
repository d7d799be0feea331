SPECIFICATION Spec
CONSTANTS
    s1 = s1
    s2 = s2
    c1 = c1
    c2 = c2
    k1 = k1
    t1 = t1
    o1 = o1
    text = text
    Blank = Blank
    None = None
    Session <- MCSession
    Creator <- MCCreator
    Kind <- MCKind
    Size <- MCSize
    Tag <- MCTag
    Object <- MCObject
    Comment <- MCComment
    MaxEntries = 3
    MaxDeskRefs = 1
SYMMETRY MCSymmetry
INVARIANT TypeOK
 
 
 
