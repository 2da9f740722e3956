SPECIFICATION Spec
CONSTANTS
    local = local
    media = media
    backup = backup
    disk = disk
    cloud = cloud
    other = other
    alice = alice
    bob = bob
    eve = eve
    stdio = stdio
    Names = {local, media, backup}
    Local = local
    Configs = {disk, cloud, other}
    Callers = {alice, bob, eve, stdio}
    Unbound = {stdio}
    Strangers = {eve}
    Environments <- MCEnvironments
    Blank = Blank
    Omitted = Omitted
    Absent = Absent
SYMMETRY MemberSymmetry
INVARIANTS
    TypeOK
    
    RefusesOnlyUnlisted
PROPERTIES
    UncachedSpec
