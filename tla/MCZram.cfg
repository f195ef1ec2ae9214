\* create --find, create on a named device, reset of two devices and
\* the status listing at once, with and without zram-control.
CONSTANTS
    c1 = c1
    c2 = c2
    f1 = f1
    r1 = r1
    s1 = s1
    NoProc = NoProc
    Other = Other
    Procs <- MCProcsMix
    Cmd <- MCCmdMix
    MaxDev = 3
    InitDevs = {0, 1}
    InitUsed = {0}
    HotAddCanFail = TRUE
SPECIFICATION Spec
\* every zramctl exits, and then nothing is left to do
CHECK_DEADLOCK FALSE
INVARIANT TypeOK
PROPERTY Terminates
