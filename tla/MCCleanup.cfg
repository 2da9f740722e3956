SPECIFICATION CleanupSpec
CONSTANTS
    Blank = Blank
    Malformed = Malformed
    None = None
    Absent = Absent
    s1 = s1
    s2 = s2
    b1 = b1
    b2 = b2
    d1 = d1
    d2 = d2
    tmp = tmp
    all = all
    Servers = {s1, s2}
    Buckets = {b1}
    Keys = {1, 2, 3, 4}
    WildKeys = {}
    Prefixes = {tmp, all}
    EmptyPrefix = all
    Under <- MCUnder
    Payloads = {d1}
    Size <- MCSize
    Asked = {None, 0, 1}
    Environments <- OpenOnly
PROPERTIES
    PrefixEventuallyEmpty
