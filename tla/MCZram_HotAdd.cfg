\* zramctl -f when the only device is used and reading hot_add fails.
CONSTANTS
    c1 = c1
    c2 = c2
    f1 = f1
    r1 = r1
    s1 = s1
    NoProc = NoProc
    Other = Other
    Procs <- MCProcsFind
    Cmd <- MCCmdFind
    MaxDev = 2
    InitDevs = {0}
    InitUsed = {0}
    HotAddCanFail = TRUE
SPECIFICATION Spec
CHECK_DEADLOCK FALSE
INVARIANT FoundExists
