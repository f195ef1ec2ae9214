\* Any sequence of calls of the interface on the mountinfo and fanotify entries.
CONSTANTS
    kernel = kernel
    userspace = userspace
    fanotify = fanotify
    NoEntry = NoEntry
    Entries <- MCEntries2
    EdgeTriggered <- MCEdgeTriggered
    Ignoring <- MCIgnoring
    FdCanFail = TRUE
    MaxRef = 2
    MaxChanges = 2
SPECIFICATION Spec
\* mnt_monitor_wait(mn, -1) blocks for ever once no mount table changes.
CHECK_DEADLOCK FALSE
INVARIANT TypeOK NoSpuriousNotification ActiveIsWatched
PROPERTY ImplementsFdContract
