\* The test program's consumer loop over the mountinfo, utab and fanotify entries.
CONSTANTS
    kernel = kernel
    userspace = userspace
    fanotify = fanotify
    NoEntry = NoEntry
    Entries <- MCEntries
    EdgeTriggered <- MCEdgeTriggered
    Ignoring <- MCIgnoring
    FdCanFail = TRUE
    MaxRef = 1
    MaxChanges = 3
SPECIFICATION LoopSpec
\* mnt_monitor_wait(mn, -1) blocks for ever once no mount table changes,
\* and the program ends after mnt_unref_monitor.
CHECK_DEADLOCK FALSE
PROPERTY ChangeReported
