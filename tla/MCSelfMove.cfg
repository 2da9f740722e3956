SPECIFICATION Spec
CONSTANTS
    Blank = Blank
    Malformed = Malformed
    None = None
    Absent = Absent
    s1 = s1
    s2 = s2
    b1 = b1
    b2 = b2
    d1 = d1
    d2 = d2
    tmp = tmp
    all = all
    Servers = {s1}
    Buckets = {b1}
    Keys = {1, 2}
    WildKeys = {2}
    Prefixes = {tmp, all}
    EmptyPrefix = all
    Under <- MCUnder
    Payloads = {d1}
    Size <- MCSize
    Asked = {None}
    Environments <- OpenOnly
PROPERTIES
    MoveNeverDestroys
