SPECIFICATION Spec
CONSTANTS
    Blank = Blank
    Malformed = Malformed
    None = None
    Absent = Absent
    e = e
    p = p
    Empty = e
    Payloads = {e, p}
    Size <- MCSize
    Keys = {1, 2, 3}
    Under = {1, 2, 3}
    Files = {1, 2}
    Below = {1, 2}
    KeyFor <- MCKeyFor
    TargetFor <- MCTargetFor
    Asked = {None, 1}
    Environments <- AllEnvironments
INVARIANTS
    TypeOK
    RacedWithinPieces
PROPERTIES
    UndisturbedWithinCap
    NoClobber
    ReportedIsMoved
    TransfersAreGoverned
