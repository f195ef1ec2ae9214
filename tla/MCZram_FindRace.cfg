\* Two zramctl -f -a lz4 -s 1G at once, with one free device.
CONSTANTS
    c1 = c1
    c2 = c2
    f1 = f1
    r1 = r1
    s1 = s1
    NoProc = NoProc
    Other = Other
    Procs <- MCProcsTwo
    Cmd <- MCCmdTwo
    MaxDev = 2
    InitDevs = {0}
    InitUsed = {}
    HotAddCanFail = FALSE
SPECIFICATION Spec
CHECK_DEADLOCK FALSE
INVARIANT FoundDistinct
