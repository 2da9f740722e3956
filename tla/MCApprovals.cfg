SPECIFICATION ApprovalSpec
CONSTANTS
    local = local
    media = media
    disk = disk
    cloud = cloud
    alice = alice
    Names = {local, media}
    Local = local
    Configs = {disk, cloud}
    Callers = {alice}
    Unbound = {}
    Strangers = {}
    Environments <- MCEnvironments
    Blank = Blank
    Omitted = Omitted
    Absent = Absent
    Keys = {1, 2, 3}
    BatchCap = 2
    Nothing = Nothing
INVARIANTS
    ApprovalTypeOK
    LateIsBounded
PROPERTIES
    ApprovedOnly
