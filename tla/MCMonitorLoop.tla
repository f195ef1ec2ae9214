--------------------------- MODULE MCMonitorLoop ---------------------------
(* Model-checking instance of MonitorLoop: the consumer enables the         *)
(* mountinfo and utab entries, or also the fanotify entry.                 *)
EXTENDS MonitorLoop

CONSTANTS kernel, userspace, fanotify

MCEntries == {kernel, userspace, fanotify}
MCEdgeTriggered == {kernel}
MCIgnoring == {fanotify}
=============================================================================
