SPECIFICATION Spec
CONSTANTS
    None = None
    p1 = p1
    d1 = d1
    a1 = a1
    a2 = a2
    a3 = a3
    b1 = b1
    r1 = r1
    r2 = r2
    i1 = i1
    i2 = i2
    e1 = e1
    e2 = e2
    s1 = s1
    m1 = m1
    m2 = m2
SYMMETRY Symmetry
INVARIANT
    StockroomSound
PROPERTY
    AppliedAsCounted
CHECK_DEADLOCK FALSE
