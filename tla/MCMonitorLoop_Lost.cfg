\* Spec section 1: no change is lost between enabling and reading.
CONSTANTS
    kernel = kernel
    userspace = userspace
    fanotify = fanotify
    NoEntry = NoEntry
    Entries <- MCEntries
    EdgeTriggered <- MCEdgeTriggered
    Ignoring <- MCIgnoring
    FdCanFail = TRUE
    MaxRef = 1
    MaxChanges = 3
SPECIFICATION LoopSpec
CHECK_DEADLOCK FALSE
INVARIANT ChangeRetained
