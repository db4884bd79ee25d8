\* Two threads one after the other, windows of 2x6, 2x4, 3x4 and 3x6: two of the
\* sizes have the same area.
SPECIFICATION Spec
CONSTANTS
    Widths = {2, 3}
    Heights = {4, 6}
    MaxStarts = 2
INVARIANTS
    TypeOK
    NoUseAfterDeinit
    FrameShape
PROPERTIES
    DeinitReturns
CHECK_DEADLOCK FALSE
