\* Any mid ever used may be closed or disabled, also after its m-line was recycled.
SPECIFICATION Spec
CONSTANTS
    a = a
    b = b
    c = c
    i1 = i1
    i2 = i2
    Mids <- MCMids
    IceParams <- MCIceParams
    MaxSections = 3
    MaxVersion = 1
SYMMETRY MCSymmetry
INVARIANTS
    TypeOK
    FirstSectionOpen
    IndexFindsSection
    DocumentAgrees
    OneTransport
PROPERTIES
    PositionsStable
