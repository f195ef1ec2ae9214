------------------------------ MODULE Monitor ------------------------------
(***************************************************************************)
(* The libmount mount-table monitor (libmount/src/monitor.c): one         *)
(* libmnt_monitor with its list of monitor_entry records, the top-level   *)
(* epoll descriptor that multiplexes the entries' own descriptors, and    *)
(* the kernel side of every descriptor (is a notification pending on it). *)
(*                                                                         *)
(* Every public call (mnt_new_monitor, mnt_ref/unref_monitor,             *)
(* mnt_monitor_enable_*, mnt_monitor_close_fd, mnt_monitor_get_fd,        *)
(* mnt_monitor_wait, mnt_monitor_next_change, mnt_monitor_event_cleanup)  *)
(* is an action.  The calls that loop over entries or over epoll events   *)
(* are split at the points where the kernel may deliver a notification   *)
(* in between: the registration loop of mnt_monitor_get_fd (pc "getfd")   *)
(* and the epoll_wait loop of read_epoll_events (pc "read").  The        *)
(* environment changes a watched mount table at any time.                 *)
(*                                                                         *)
(* Two ghost variables record what the consumer is owed: fresh[e] says a  *)
(* real change of e's table happened after the last notification of e   *)
(* was consumed by op_process_event, due[e] says a change of e happened   *)
(* that mnt_monitor_next_change has not yet reported.                     *)
(***************************************************************************)
EXTENDS Naturals, Sequences, Functions

CONSTANTS
    Entries,        \* the monitor entries, one per (type, id): kernel, userspace, fanotify
    EdgeTriggered,  \* entries registered with EPOLLIN | EPOLLET (the mountinfo entry)
    Ignoring,       \* entries whose op_process_event may answer "ignore" (fanotify)
    FdCanFail,      \* whether epoll_create1, op_get_fd or epoll_ctl may fail
    MaxRef,         \* bound on the reference counter
    MaxChanges,     \* bound on the number of kernel notifications
    NoEntry         \* mn->last == NULL

ASSUME ConstantsAssumption ==
    /\ EdgeTriggered \subseteq Entries
    /\ Ignoring \subseteq Entries
    /\ FdCanFail \in BOOLEAN
    /\ MaxRef \in Nat \ {0}
    /\ MaxChanges \in Nat
    /\ NoEntry \notin Entries

VARIABLES
    pc,       \* "free" (no monitor), "idle", "getfd", "read", "cleanup", "hung"
    caller,   \* who runs the get_fd loop or read_epoll_events: "get", "wait", "next", "cleanup"
    tmo,      \* timeout of the running read_epoll_events: "inf" (-1), "fin" (>0), "zero"
    it,       \* position of the mnt_monitor_get_fd iterator in ents
    refcnt,   \* mn->refcount
    epfd,     \* mn->fd >= 0
    ents,     \* mn->ents, in list order
    enabled,  \* me->enabled
    active,   \* me->active
    efd,      \* me->fd >= 0
    reg,      \* the entries whose descriptor is in the epoll interest list
    pend,     \* kernel: notification pending on me->fd: "none", "noise", "change"
    last,     \* mn->last
    rc,       \* result of the last call that returned: "ok", "none", "err"
    changes,  \* number of kernel notifications so far
    fresh,    \* ghost: real change not yet consumed by op_process_event
    due       \* ghost: change not yet reported by mnt_monitor_next_change

vars == <<pc, caller, tmo, it, refcnt, epfd, ents, enabled, active, efd,
          reg, pend, last, rc, changes, fresh, due>>

PendValues == {"none", "noise", "change"}
-----------------------------------------------------------------------------
(* Helpers *)

\* the entry is on mn->ents
Listed(e) == e \in Range(ents)

\* epoll_wait would report e: registered and its descriptor is readable
Ready(e) == e \in reg /\ pend[e] # "none"

\* get_active(): the first entry of the list with me->active set
HasActive == \E i \in 1..Len(ents) : active[ents[i]]
FirstActive ==
    ents[CHOOSE i \in 1..Len(ents) :
            active[ents[i]] /\ \A j \in 1..(i - 1) : ~active[ents[j]]]

\* pending notifications after op_get_fd and EPOLL_CTL_ADD of e: a new
\* descriptor has nothing pending; adding an edge-triggered descriptor
\* that is already readable queues the initial event
AddedPend(e) ==
    IF e \in EdgeTriggered /\ e \notin reg
    THEN [pend EXCEPT ![e] = "change"]
    ELSE IF ~efd[e] THEN [pend EXCEPT ![e] = "none"] ELSE pend

\* while (epoll_wait(mn->fd, events, 1, 0) > 0): reporting an edge-triggered
\* descriptor consumes its event, whichever entry it belongs to
Drained(p, r) ==
    [x \in Entries |-> IF x \in r /\ x \in EdgeTriggered THEN "none" ELSE p[x]]

\* a level-triggered registered descriptor with unread data: epoll_wait
\* keeps returning it and the drain loop never ends
Stuck(p, r) == \E x \in r \ EdgeTriggered : p[x] # "none"

-----------------------------------------------------------------------------
(* monitor_modify_epoll(mn, me, TRUE) once mn->fd exists: op_get_fd,      *)
(* EPOLL_CTL_ADD (EEXIST ignored) and the drain loop.                     *)

\* fault variant: the drain loop after EPOLL_CTL_ADD is left out
RegisterOkUndrained(e) ==
    /\ ~Stuck(AddedPend(e), reg \cup {e})
    /\ efd' = [efd EXCEPT ![e] = TRUE]
    /\ reg' = reg \cup {e}
    /\ pend' = AddedPend(e)

RegisterOk(e) ==
    /\ ~Stuck(AddedPend(e), reg \cup {e})
    /\ efd' = [efd EXCEPT ![e] = TRUE]
    /\ reg' = reg \cup {e}
    /\ pend' = Drained(AddedPend(e), reg \cup {e})

RegisterHang(e) ==
    /\ Stuck(AddedPend(e), reg \cup {e})
    /\ efd' = [efd EXCEPT ![e] = TRUE]
    /\ reg' = reg \cup {e}
    /\ pend' = Drained(AddedPend(e), reg \cup {e})

-----------------------------------------------------------------------------
(* The monitor's operations *)

Init ==
    /\ pc = "free"
    /\ caller = "get"
    /\ tmo = "zero"
    /\ it = 1
    /\ refcnt = 0
    /\ epfd = FALSE
    /\ ents = << >>
    /\ enabled = [e \in Entries |-> FALSE]
    /\ active = [e \in Entries |-> FALSE]
    /\ efd = [e \in Entries |-> FALSE]
    /\ reg = {}
    /\ pend = [e \in Entries |-> "none"]
    /\ last = NoEntry
    /\ rc = "ok"
    /\ changes = 0
    /\ fresh = [e \in Entries |-> FALSE]
    /\ due = {}

\* the state of every monitor variable when no monitor exists
Released ==
    /\ epfd' = FALSE
    /\ ents' = << >>
    /\ enabled' = [e \in Entries |-> FALSE]
    /\ active' = [e \in Entries |-> FALSE]
    /\ efd' = [e \in Entries |-> FALSE]
    /\ reg' = {}
    /\ pend' = [e \in Entries |-> "none"]
    /\ last' = NoEntry
    /\ fresh' = [e \in Entries |-> FALSE]
    /\ due' = {}

\* mnt_new_monitor
NewMonitor ==
    /\ pc = "free"
    /\ pc' = "idle"
    /\ refcnt' = 1
    /\ rc' = "ok"
    /\ Released
    /\ UNCHANGED <<caller, tmo, it, changes>>

\* mnt_ref_monitor
RefMonitor ==
    /\ pc = "idle"
    /\ refcnt < MaxRef
    /\ refcnt' = refcnt + 1
    /\ UNCHANGED <<pc, caller, tmo, it, epfd, ents, enabled, active, efd,
                   reg, pend, last, rc, changes, fresh, due>>

\* fault variant: the monitor is freed only below zero (refcount < 0)
UnrefMonitorLate ==
    /\ pc = "idle"
    /\ refcnt' = refcnt - 1
    /\ IF refcnt - 1 < 0
       THEN /\ pc' = "free"
            /\ Released
       ELSE UNCHANGED <<pc, epfd, ents, enabled, active, efd, reg, pend,
                        last, fresh, due>>
    /\ UNCHANGED <<caller, tmo, it, rc, changes>>

\* mnt_unref_monitor: on zero mnt_monitor_close_fd, free_monitor_entry for
\* every entry (closes me->fd), free(mn)
UnrefMonitor ==
    /\ pc = "idle"
    /\ refcnt' = refcnt - 1
    /\ IF refcnt - 1 <= 0
       THEN /\ pc' = "free"
            /\ Released
       ELSE UNCHANGED <<pc, epfd, ents, enabled, active, efd, reg, pend,
                        last, fresh, due>>
    /\ UNCHANGED <<caller, tmo, it, rc, changes>>

\* mnt_monitor_enable_<type>(mn, TRUE): monitor_get_entry, monitor_new_entry
\* for a new entry, then monitor_modify_epoll(mn, me, TRUE)
Enable(e) ==
    /\ pc = "idle"
    /\ ents' = IF Listed(e) THEN ents ELSE Append(ents, e)
    /\ enabled' = [enabled EXCEPT ![e] = TRUE]
    /\ active' = [active EXCEPT ![e] = FALSE]
    /\ IF ~epfd
       THEN /\ rc' = "ok"
            /\ UNCHANGED <<pc, efd, reg, pend>>
       ELSE \/ /\ RegisterOk(e)
               /\ rc' = "ok"
               /\ UNCHANGED pc
            \/ /\ RegisterHang(e)
               /\ pc' = "hung"
               /\ UNCHANGED rc
            \/ /\ FdCanFail
               /\ rc' = "err"
               /\ UNCHANGED <<pc, efd, reg, pend>>
    /\ UNCHANGED <<caller, tmo, it, refcnt, epfd, last, changes, fresh, due>>

\* fault variant: monitor_modify_epoll(FALSE) without "me->active = 0"
DisableKeepActive(e) ==
    /\ pc = "idle"
    /\ Listed(e)
    /\ enabled' = [enabled EXCEPT ![e] = FALSE]
    /\ efd' = [efd EXCEPT ![e] = FALSE]
    /\ reg' = reg \ {e}
    /\ pend' = [pend EXCEPT ![e] = "none"]
    /\ fresh' = [fresh EXCEPT ![e] = FALSE]
    /\ due' = due \ {e}
    /\ rc' = IF epfd /\ ~efd[e] THEN "err" ELSE "ok"
    /\ UNCHANGED <<pc, caller, tmo, it, refcnt, epfd, ents, last, changes, active>>

\* mnt_monitor_enable_<type>(mn, FALSE) on an existing entry:
\* monitor_modify_epoll(mn, me, FALSE) then op_close_fd.  The removal is
\* guarded by "else if (me->fd)", so a closed descriptor (-1) is passed to
\* EPOLL_CTL_DEL and the call returns -EBADF.
Disable(e) ==
    /\ pc = "idle"
    /\ Listed(e)
    /\ enabled' = [enabled EXCEPT ![e] = FALSE]
    /\ active' = [active EXCEPT ![e] = FALSE]
    /\ efd' = [efd EXCEPT ![e] = FALSE]
    /\ reg' = reg \ {e}
    /\ pend' = [pend EXCEPT ![e] = "none"]
    /\ fresh' = [fresh EXCEPT ![e] = FALSE]
    /\ due' = due \ {e}
    /\ rc' = IF epfd /\ ~efd[e] THEN "err" ELSE "ok"
    /\ UNCHANGED <<pc, caller, tmo, it, refcnt, epfd, ents, last, changes>>

\* mnt_monitor_close_fd: with mn->fd open every entry is disabled by
\* monitor_modify_epoll(FALSE); every entry's op_close_fd; close(mn->fd)
CloseFd ==
    /\ pc = "idle"
    /\ enabled' = IF epfd THEN [e \in Entries |-> FALSE] ELSE enabled
    /\ active' = IF epfd THEN [e \in Entries |-> FALSE] ELSE active
    /\ efd' = [e \in Entries |-> FALSE]
    /\ reg' = {}
    /\ pend' = [e \in Entries |-> "none"]
    /\ epfd' = FALSE
    /\ fresh' = [e \in Entries |-> FALSE]
    /\ due' = {}
    /\ rc' = "ok"
    /\ UNCHANGED <<pc, caller, tmo, it, refcnt, ents, last, changes>>

\* mnt_monitor_get_fd without mn->fd, called directly (c = "get") or from
\* mnt_monitor_wait (c = "wait"): epoll_create1, then the registration loop
GetFdBegin(c) ==
    /\ pc = "idle"
    /\ ~epfd
    /\ \/ /\ epfd' = TRUE
          /\ pc' = "getfd"
          /\ it' = 1
          /\ caller' = c
          /\ UNCHANGED rc
       \/ /\ FdCanFail
          /\ rc' = "err"
          /\ UNCHANGED <<pc, it, caller, epfd>>
    /\ UNCHANGED <<refcnt, ents, enabled, active, efd, reg, pend, last,
                   changes, fresh, due>>

GetFd == GetFdBegin("get") /\ UNCHANGED tmo

\* fault variant: the error path of the loop does not close mn->fd
GetFdStepKeepFd ==
    /\ pc = "getfd"
    /\ it <= Len(ents)
    /\ LET e == ents[it] IN
       IF ~enabled[e]
       THEN /\ it' = it + 1
            /\ UNCHANGED <<pc, rc, epfd, active, efd, reg, pend>>
       ELSE /\ active' = [active EXCEPT ![e] = FALSE]
            /\ \/ /\ RegisterOk(e)
                  /\ it' = it + 1
                  /\ UNCHANGED <<pc, rc, epfd>>
               \/ /\ RegisterHang(e)
                  /\ pc' = "hung"
                  /\ UNCHANGED <<it, rc, epfd>>
               \/ /\ FdCanFail
                  /\ pc' = "idle"
                  /\ rc' = "err"
                  /\ UNCHANGED <<it, epfd, efd, reg, pend>>
    /\ UNCHANGED <<caller, tmo, refcnt, ents, enabled, last, changes,
                   fresh, due>>

\* one turn of the registration loop: skip a disabled entry, or
\* monitor_modify_epoll(mn, me, TRUE); on failure close(mn->fd)
GetFdStep ==
    /\ pc = "getfd"
    /\ it <= Len(ents)
    /\ LET e == ents[it] IN
       IF ~enabled[e]
       THEN /\ it' = it + 1
            /\ UNCHANGED <<pc, rc, epfd, active, efd, reg, pend>>
       ELSE /\ active' = [active EXCEPT ![e] = FALSE]
            /\ \/ /\ RegisterOk(e)
                  /\ it' = it + 1
                  /\ UNCHANGED <<pc, rc, epfd>>
               \/ /\ RegisterHang(e)
                  /\ pc' = "hung"
                  /\ UNCHANGED <<it, rc, epfd>>
               \/ /\ FdCanFail
                  /\ epfd' = FALSE
                  /\ reg' = {}
                  /\ pc' = "idle"
                  /\ rc' = "err"
                  /\ UNCHANGED <<it, efd, pend>>
    /\ UNCHANGED <<caller, tmo, refcnt, ents, enabled, last, changes,
                   fresh, due>>

\* the loop is over: mnt_monitor_get_fd returns mn->fd, and
\* mnt_monitor_wait goes on to read_epoll_events
GetFdDone ==
    /\ pc = "getfd"
    /\ it > Len(ents)
    /\ pc' = IF caller = "wait" THEN "read" ELSE "idle"
    /\ rc' = "ok"
    /\ UNCHANGED <<caller, tmo, it, refcnt, epfd, ents, enabled, active,
                   efd, reg, pend, last, changes, fresh, due>>

\* mnt_monitor_wait(mn, timeout), t = "inf" for -1 and "fin" for > 0
Wait(t) ==
    /\ pc = "idle"
    /\ tmo' = t
    /\ IF epfd
       THEN /\ pc' = "read"
            /\ caller' = "wait"
            /\ UNCHANGED <<it, rc, epfd>>
       ELSE GetFdBegin("wait")
    /\ UNCHANGED <<refcnt, ents, enabled, active, efd, reg, pend, last,
                   changes, fresh, due>>

\* read_epoll_events: epoll_wait returns e and op_process_event accepts it;
\* mnt_monitor_wait leaves it active, mnt_monitor_next_change reports it
ReadAccept(e) ==
    /\ pc = "read"
    /\ e \in reg
    /\ pend[e] = "change"
    /\ pend' = [pend EXCEPT ![e] = "none"]
    /\ fresh' = [fresh EXCEPT ![e] = FALSE]
    /\ rc' = "ok"
    /\ IF caller = "wait"
       THEN /\ active' = [active EXCEPT ![e] = TRUE]
            /\ pc' = "idle"
            /\ UNCHANGED <<last, due>>
       ELSE /\ last' = e
            /\ due' = due \ {e}
            /\ pc' = IF caller = "cleanup" THEN "cleanup" ELSE "idle"
            /\ UNCHANGED active
    /\ UNCHANGED <<caller, tmo, it, refcnt, epfd, ents, enabled, efd, reg,
                   changes>>

\* op_process_event answers "ignore": epoll_wait is called again
ReadIgnore(e) ==
    /\ pc = "read"
    /\ e \in reg
    /\ pend[e] = "noise"
    /\ pend' = [pend EXCEPT ![e] = "none"]
    /\ UNCHANGED <<pc, caller, tmo, it, refcnt, epfd, ents, enabled, active,
                   efd, reg, last, rc, changes, fresh, due>>

\* epoll_wait times out: "nothing"
ReadTimeout ==
    /\ pc = "read"
    /\ tmo # "inf"
    /\ \A e \in Entries : ~Ready(e)
    /\ pc' = "idle"
    /\ rc' = "none"
    /\ UNCHANGED <<caller, tmo, it, refcnt, epfd, ents, enabled, active,
                   efd, reg, pend, last, changes, fresh, due>>

\* fault variant: next_change does not look for an entry left active by
\* mnt_monitor_wait and always reads epoll
NextChangeNoActive ==
    /\ pc \in {"idle", "cleanup"}
    /\ \/ /\ ~epfd
          /\ rc' = "err"
          /\ UNCHANGED <<pc, caller, tmo, last>>
       \/ /\ epfd
          /\ last' = NoEntry
          /\ pc' = "read"
          /\ tmo' = "zero"
          /\ caller' = IF pc = "cleanup" THEN "cleanup" ELSE "next"
          /\ UNCHANGED rc
    /\ UNCHANGED <<active, due>>
    /\ UNCHANGED <<it, refcnt, epfd, ents, enabled, efd, reg, pend, changes,
                   fresh>>

\* mnt_monitor_next_change, called by the consumer (pc "idle") or by the
\* loop of mnt_monitor_event_cleanup (pc "cleanup"): -EINVAL without
\* mn->fd; else report the first active entry, or read_epoll_events(mn, 0)
NextChange ==
    /\ pc \in {"idle", "cleanup"}
    /\ \/ /\ ~epfd
          /\ rc' = "err"
          /\ UNCHANGED <<pc, caller, tmo, active, last, due>>
       \/ /\ epfd
          /\ HasActive
          /\ active' = [active EXCEPT ![FirstActive] = FALSE]
          /\ last' = FirstActive
          /\ due' = due \ {FirstActive}
          /\ rc' = "ok"
          /\ UNCHANGED <<pc, caller, tmo>>
       \/ /\ epfd
          /\ ~HasActive
          /\ last' = NoEntry
          /\ pc' = "read"
          /\ tmo' = "zero"
          /\ caller' = IF pc = "cleanup" THEN "cleanup" ELSE "next"
          /\ UNCHANGED <<active, due, rc>>
    /\ UNCHANGED <<it, refcnt, epfd, ents, enabled, efd, reg, pend, changes,
                   fresh>>

\* mnt_monitor_event_cleanup: call mnt_monitor_next_change until it fails
EventCleanup ==
    /\ pc = "idle"
    /\ IF epfd
       THEN /\ pc' = "cleanup"
            /\ UNCHANGED rc
       ELSE /\ rc' = "err"
            /\ UNCHANGED pc
    /\ UNCHANGED <<caller, tmo, it, refcnt, epfd, ents, enabled, active, efd,
                   reg, pend, last, changes, fresh, due>>

-----------------------------------------------------------------------------
(* The kernel *)

\* the mount table watched by e changes; an open descriptor becomes readable
KernelChange(e) ==
    /\ changes < MaxChanges
    /\ changes' = changes + 1
    /\ efd[e]
    /\ pend' = [pend EXCEPT ![e] = "change"]
    /\ fresh' = [fresh EXCEPT ![e] = TRUE]
    /\ due' = due \cup {e}
    /\ UNCHANGED <<pc, caller, tmo, it, refcnt, epfd, ents, enabled, active,
                   efd, reg, last, rc>>

\* a fanotify record outside the tracked scope arrives
KernelNoise(e) ==
    /\ changes < MaxChanges
    /\ changes' = changes + 1
    /\ e \in Ignoring
    /\ efd[e]
    /\ pend[e] = "none"
    /\ pend' = [pend EXCEPT ![e] = "noise"]
    /\ UNCHANGED <<pc, caller, tmo, it, refcnt, epfd, ents, enabled, active,
                   efd, reg, last, rc, fresh, due>>

-----------------------------------------------------------------------------
(* Internal steps of a call in progress *)
\* the next turn of the mnt_monitor_event_cleanup loop
CleanupNext == pc = "cleanup" /\ NextChange

Internal ==
    \/ GetFdStep
    \/ CleanupNext
    \/ GetFdDone
    \/ \E e \in Entries : ReadAccept(e) \/ ReadIgnore(e)
    \/ ReadTimeout

Kernel == \E e \in Entries : KernelChange(e) \/ KernelNoise(e)

\* calls of the public interface, in any order
ApiCall ==
    \/ NewMonitor
    \/ RefMonitor
    \/ UnrefMonitor
    \/ \E e \in Entries : Enable(e) \/ Disable(e)
    \/ CloseFd
    \/ GetFd
    \/ \E t \in {"inf", "fin"} : Wait(t)
    \/ pc = "idle" /\ NextChange
    \/ EventCleanup

Next == ApiCall \/ Internal \/ Kernel

Spec == Init /\ [][Next]_vars

-----------------------------------------------------------------------------
(* Properties *)

\* Type correctness of every variable: of the control state of the calls,
\* of the counters, of the monitor's list, of the flags of the monitor and
\* its entries, and of the kernel's pending notifications.
ControlOK ==
    /\ pc \in {"free", "idle", "getfd", "read", "cleanup", "hung"}
    /\ caller \in {"get", "wait", "next", "cleanup"}
    /\ tmo \in {"inf", "fin", "zero"}
    /\ it \in Nat \ {0}
    /\ rc \in {"ok", "none", "err"}

CounterOK ==
    /\ refcnt \in 0..MaxRef
    /\ pc # "free" => refcnt > 0
    /\ changes \in 0..MaxChanges

ListOK ==
    /\ ents \in Seq(Entries)
    /\ last \in Entries \cup {NoEntry}
    /\ reg \in SUBSET Entries
    /\ due \in SUBSET Entries

FlagOK ==
    /\ epfd \in BOOLEAN
    /\ enabled \in [Entries -> BOOLEAN]
    /\ active \in [Entries -> BOOLEAN]
    /\ efd \in [Entries -> BOOLEAN]
    /\ fresh \in [Entries -> BOOLEAN]

PendOK == pend \in [Entries -> PendValues]

TypeOK == ControlOK /\ CounterOK /\ ListOK /\ FlagOK /\ PendOK

\* No spurious change (spec section 8: a freshly enabled mountinfo entry
\* never reports its own activation): every change notification pending on
\* an entry's descriptor stands for a real mount-table change that
\* op_process_event has not consumed.  The initial edge-triggered event
\* that EPOLL_CTL_ADD queues in monitor_modify_epoll must be drained.
NoSpuriousNotification ==
    \A e \in Entries : pend[e] = "change" => fresh[e]

\* No lost change (spec section 1: "without losing events"): a real change
\* of an enabled entry's table that op_process_event has not consumed is
\* still pending on the entry's descriptor.
ChangeRetained ==
    \A e \in Entries : fresh[e] => pend[e] = "change"

\* mnt_monitor_next_change never reports a stale entry: an entry that
\* mnt_monitor_wait accepted and left active for get_active is still
\* enabled and its descriptor is still in the epoll set, whatever
\* enable, disable and close_fd calls came in between.
ActiveIsWatched ==
    \A e \in Entries : active[e] => enabled[e] /\ e \in reg

\* A call of the interface returns: the drain loop of
\* monitor_modify_epoll terminates.
NoHang == pc # "hung"

\* The descriptor state as the monitor's promise sees it: the aggregator
\* exists while it is not freed, and the registration loop of
\* mnt_monitor_get_fd is not visible until it has finished.
MF == INSTANCE MonitorFd
        WITH live <- pc # "free",
             enabledSet <- {e \in Entries : enabled[e]},
             fdOpen <- epfd /\ pc # "getfd",
             registered <- IF pc = "getfd" THEN {} ELSE reg,
             hung <- pc = "hung"

\* mnt_monitor_get_fd is all or nothing (spec 4.1, "on any registration
\* failure, close the freshly created descriptor, reset it to unset"): the
\* calls change the descriptor state only as MonitorFd allows, so a
\* get_fd that returns has registered exactly the enabled entries, and one
\* that fails in the middle of its loop leaves no descriptor behind.
ImplementsFdContract == MF!Spec

=============================================================================
