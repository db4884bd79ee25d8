\* The first m-line under late closes: violated.
SPECIFICATION Spec
CONSTANTS
    a = a
    b = b
    c = c
    i1 = i1
    i2 = i2
    Mids <- MCMids
    IceParams <- MCIceParams
    MaxSections = 3
    MaxVersion = 1
SYMMETRY MCSymmetry
INVARIANTS
    FirstSectionNeverClosed
