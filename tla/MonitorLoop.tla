---------------------------- MODULE MonitorLoop ----------------------------
(***************************************************************************)
(* The consumer of the monitor in the test program of monitor.c          *)
(* (test_wait, and test_epoll with or without event cleanup): create the  *)
(* monitor, enable the entries named on the command line in that order,   *)
(* then loop: wait for the monitor to become ready and drain it with      *)
(* mnt_monitor_next_change (or mnt_monitor_event_cleanup) until it        *)
(* reports no change.  findmnt --poll uses the monitor the same way.      *)
(***************************************************************************)
EXTENDS Monitor

VARIABLES
    cl,     \* client: "start", "setup", "callwait", "inwait", "drain", "innext", "exit", "done"
    mode    \* "wait" (test_wait), "epoll" (test_epoll), "clean" (test_epoll with cleanup)

loopVars == <<vars, cl, mode>>

Modes == {"wait", "epoll", "clean"}

LoopInit ==
    /\ Init
    /\ cl = "start"
    /\ mode \in Modes

\* create_test_monitor: mnt_new_monitor
ClStart ==
    /\ cl = "start"
    /\ NewMonitor
    /\ cl' = "setup"
    /\ UNCHANGED mode

\* create_test_monitor: mnt_monitor_enable_<type>(mn, TRUE) for the next
\* argument (before any descriptor exists, so it cannot fail)
ClEnable(e) ==
    /\ cl = "setup"
    /\ ~Listed(e)
    /\ Enable(e)
    /\ UNCHANGED <<cl, mode>>

\* end of the arguments; test_epoll then calls mnt_monitor_get_fd
ClSetupDone ==
    /\ cl = "setup"
    /\ Len(ents) > 0
    /\ IF mode = "wait"
       THEN /\ cl' = "callwait"
            /\ UNCHANGED vars
       ELSE /\ cl' = "inwait"
            /\ GetFd
    /\ UNCHANGED mode

\* test_wait: mnt_monitor_wait(mn, -1)
ClWait ==
    /\ cl = "callwait"
    /\ mode = "wait"
    /\ Wait("inf")
    /\ cl' = "inwait"
    /\ UNCHANGED mode

\* test_epoll: epoll_wait(efd, ..., -1) on the monitor's descriptor returns
\* when the monitor's epoll instance has a ready entry
ClEpollWait ==
    /\ cl = "callwait"
    /\ mode # "wait"
    /\ pc = "idle"
    /\ \E e \in Entries : Ready(e)
    /\ cl' = "drain"
    /\ UNCHANGED <<vars, mode>>

\* mnt_monitor_wait or mnt_monitor_get_fd returned: go on while it
\* succeeded, else leave the loop
ClWaited ==
    /\ cl = "inwait"
    /\ pc = "idle"
    /\ cl' = IF rc = "ok" THEN (IF mode = "wait" THEN "drain" ELSE "callwait")
                         ELSE "exit"
    /\ UNCHANGED <<vars, mode>>

\* while (mnt_monitor_next_change(mn, ...) == 0), or mnt_monitor_event_cleanup
ClNext ==
    /\ cl = "drain"
    /\ IF mode = "clean" THEN EventCleanup ELSE NextChange
    /\ cl' = "innext"
    /\ UNCHANGED mode

ClNextDone ==
    /\ cl = "innext"
    /\ pc = "idle"
    /\ cl' = IF rc = "ok" /\ mode # "clean" THEN "drain" ELSE "callwait"
    /\ UNCHANGED <<vars, mode>>

\* mnt_unref_monitor after the loop
ClExit ==
    /\ cl = "exit"
    /\ UnrefMonitor
    /\ cl' = "done"
    /\ UNCHANGED mode

Client ==
    \/ ClStart
    \/ \E e \in Entries : ClEnable(e)
    \/ ClSetupDone
    \/ ClWait
    \/ ClEpollWait
    \/ ClWaited
    \/ ClNext
    \/ ClNextDone
    \/ ClExit

LoopNext ==
    \/ Client
    \/ (Internal \/ Kernel) /\ UNCHANGED <<cl, mode>>

\* The client keeps calling, and a call in progress keeps running; the
\* kernel is not obliged to change anything.
LoopFairness ==
    /\ WF_loopVars(Client)
    /\ WF_loopVars(Internal /\ UNCHANGED <<cl, mode>>)

LoopSpec == LoopInit /\ [][LoopNext]_loopVars /\ LoopFairness

-----------------------------------------------------------------------------
(* Properties *)

\* The monitor descriptor exists and no mnt_monitor_get_fd is running: the
\* client is in its wait/drain loop.
Running == cl \in {"callwait", "inwait", "drain", "innext"} /\ epfd /\ pc \notin {"getfd", "hung"}

\* Every change is reported (spec section 8, the utab scenario): once the
\* loop runs, a change notification on a registered entry is eventually
\* returned by mnt_monitor_next_change (or discarded by event cleanup).
ChangeReported ==
    \A e \in Entries :
        (Running /\ e \in reg /\ pend[e] = "change") ~> (e \notin due)
=============================================================================
