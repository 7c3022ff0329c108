SPECIFICATION MCSpec
CONSTANTS
    r1 = r1
    r2 = r2
    r3 = r3
    alice = alice
    bob = bob
    k1 = k1
    k2 = k2
    t1 = t1
    t2 = t2
    Configured = {"verifier", "travel"}
    MaxStarts = 2
    Requests = {r1, r2, r3}
    UserOf <- MCUserOf
    Kids = {k1, k2}
    FirstKeys = {k1}
    NextKeys = {k2}
    Pause = 1
    Ttl = 2
    Limit <- MCLimit
    MaxNow = 3
    MaxMinute = 1
    MaxDay = 1
    Threads = {t1, t2}
    MaxClicks = 3
    v1 = v1
    v2 = v2
    v3 = v3
    Values = {v1, v2, v3}
    Runs = {r1, r2}
    Removals = {k1}
    ListLimit = 2
    Configs <- MCConfigs
    ToolRetries = 1
    Retries <- MCRetries
INVARIANT AbortEndsStream
CHECK_DEADLOCK FALSE
