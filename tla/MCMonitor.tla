----------------------------- MODULE MCMonitor -----------------------------
(* Model-checking instance of Monitor: the mountinfo entry (kernel, edge-  *)
(* triggered), the utab entry (userspace, level-triggered) and the         *)
(* fanotify entry (level-triggered, may ignore a record).                   *)
EXTENDS Monitor

CONSTANTS kernel, userspace, fanotify

MCEntries == {kernel, userspace, fanotify}
MCEntries2 == {kernel, fanotify}
MCEdgeTriggered == {kernel}
MCIgnoring == {fanotify}
=============================================================================
