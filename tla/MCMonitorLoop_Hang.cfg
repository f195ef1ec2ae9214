\* Every call of the interface returns: the drain loop ends.
CONSTANTS
    kernel = kernel
    userspace = userspace
    fanotify = fanotify
    NoEntry = NoEntry
    Entries <- MCEntries
    EdgeTriggered <- MCEdgeTriggered
    Ignoring <- MCIgnoring
    FdCanFail = TRUE
    MaxRef = 1
    MaxChanges = 3
SPECIFICATION LoopSpec
CHECK_DEADLOCK FALSE
INVARIANT NoHang
