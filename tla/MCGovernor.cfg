SPECIFICATION Spec
CONSTANTS
    Blank = Blank
    Malformed = Malformed
    None = None
    Absent = Absent
    s1 = s1
    s2 = s2
    b1 = b1
    b2 = b2
    d1 = d1
    d2 = d2
    tmp = tmp
    all = all
    Servers = {s1, s2}
    Buckets = {b1, b2}
    Keys = {1, 2}
    WildKeys = {2}
    Prefixes = {tmp, all}
    EmptyPrefix = all
    Under <- MCUnder
    Payloads = {d1, d2}
    Size <- MCSize
    Asked = {None}
    Environments <- AllEnvironments
SYMMETRY Symmetric
INVARIANTS
    TypeOK
    RemovalIsGoverned
PROPERTIES
    MoveKeepsObject
    GovernedSpec
