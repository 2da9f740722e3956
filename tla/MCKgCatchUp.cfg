SPECIFICATION FairSpec
CONSTANTS
    a1 = a1
    a2 = a2
    Agents = {a1, a2}
    Segments = {"m", "b", "c", "k"}
    Objects <- MCPlain
    Rank <- MCPlainRank
    ListCap = 1
    MaxTime = 2
    Idle = Idle
    Absent = Absent
PROPERTIES
    GraphCatchesUp
