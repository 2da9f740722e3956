SPECIFICATION Spec
CONSTANTS
    a1 = a1
    a2 = a2
    b1 = b1
    b2 = b2
    k1 = k1
    logs = logs
    temp = temp
    all = all
    cold = cold
    t1 = t1
    t2 = t2
    Agents = {a1, a2}
    Buckets = {b1}
    Keys = {k1}
    S3Buckets = {b1}
    Ids = {logs, temp}
    Prefixes = {logs, all}
    EmptyPrefix = all
    Classes = {cold}
    Periods = {0, 1}
    None = None
    Rules <- MCRules
    Foreign <- MCForeign
    Tags = {t1, t2}
    TagLimit = 1
INVARIANTS
    PrefixIsTheRules
