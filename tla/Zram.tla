-------------------------------- MODULE Zram --------------------------------
(***************************************************************************)
(* zramctl (sys-utils/zramctl.c) run as several concurrent processes over *)
(* the kernel's zram devices and udevd.                                   *)
(*                                                                         *)
(* Each process runs one command line: --find, --size (with --find or on  *)
(* a named device, optionally with --algorithm), --reset of a list of     *)
(* devices, or the status listing.  A process steps through main() as     *)
(* pc shows; every sysfs read or write, flock and hot_add / hot_remove is *)
(* a step of its own, or part of one loop iteration, so that the other    *)
(* processes and udevd act in between.                                     *)
(*                                                                         *)
(* The kernel side keeps whether zram-control exists and, per device     *)
(* number: whether it exists, who                                        *)
(* wrote its disksize (init_done), who wrote its comp_algorithm, whether *)
(* udevd has processed it (sd_device_get_is_initialized), the uevents    *)
(* udevd has still to process, whether udevd has it open (it takes       *)
(* LOCK_SH while it runs its rules) and the zramctl holding LOCK_EX.      *)
(***************************************************************************)
EXTENDS Naturals, Sequences

CONSTANTS
    Procs,          \* the zramctl processes
    Cmd,            \* Cmd[p]: the command line of p
    MaxDev,         \* device numbers the kernel can allocate: 0..MaxDev-1
    InitDevs,       \* devices that exist at the start (zram num_devices)
    InitUsed,       \* those of them already set up by someone else
    HotAddCanFail,  \* reading hot_add may fail (-ENOMEM)
    NoProc,         \* no process: disksize 0, default algorithm, unlocked
    Other           \* a configuration made outside these processes

Dev == 0..(MaxDev - 1)
Acts == {"create", "findonly", "reset", "status"}
Command == [act : Acts, find : BOOLEAN, devs : Seq(Dev), alg : BOOLEAN]

ASSUME ZramAssumption ==
    /\ MaxDev \in Nat \ {0}
    /\ InitDevs \subseteq Dev
    /\ InitUsed \subseteq InitDevs
    /\ HotAddCanFail \in BOOLEAN
    /\ Cmd \in [Procs -> Command]
    /\ NoProc \notin Procs
    /\ Other \notin Procs \cup {NoProc}

VARIABLES
    hasControl, \* /sys/class/zram-control exists (hot_add, hot_remove)
    exists,     \* devices with a sysfs directory and a device node
    owner,      \* owner[d]: who wrote disksize (NoProc: disksize is 0)
    algOf,      \* algOf[d]: who wrote comp_algorithm (NoProc: default)
    inited,     \* devices udevd has initialized
    uevq,       \* devices with a uevent udevd has not processed
    udevOpen,   \* devices udevd has open and LOCK_SH-locked
    holder,     \* holder[d]: the zramctl holding LOCK_EX on d, or NoProc
    pc,         \* pc[p]: where p is in main()
    dev,        \* dev[p]: the number in z->devname
    i,          \* i[p]: the find loop's i, or the reset loop's optind
    rc,         \* rc[p]: the reset loop's rc
    exit,       \* exit[p]: "running", "success" or "failure"
    out         \* out[p]: the devices p printed

kVars == <<hasControl, exists, owner, algOf, inited, uevq, udevOpen, holder>>
pVars == <<pc, dev, i, rc, exit, out>>
vars == <<kVars, pVars>>

\* zram_used(): the sysfs directory exists and disksize is not 0
Used(d) == d \in exists /\ owner[d] # NoProc

\* the device is open (bd_openers > 0): the kernel refuses reset and
\* hot_remove with EBUSY
Opened(d) == d \in udevOpen \/ holder[d] # NoProc

\* the id the kernel's idr_alloc() gives to a hot-added device
FirstFree == CHOOSE m \in Dev \ exists : \A k \in Dev \ exists : m <= k
-----------------------------------------------------------------------------
Init ==
    /\ hasControl \in BOOLEAN
    /\ exists = InitDevs
    /\ owner = [d \in Dev |-> IF d \in InitUsed THEN Other ELSE NoProc]
    /\ algOf = [d \in Dev |-> NoProc]
    /\ inited = InitDevs
    /\ uevq = {}
    /\ udevOpen = {}
    /\ holder = [d \in Dev |-> NoProc]
    /\ pc = [p \in Procs |-> "start"]
    /\ dev = [p \in Procs |-> 0]
    /\ i = [p \in Procs |-> 0]
    /\ rc = [p \in Procs |-> 0]
    /\ exit = [p \in Procs |-> "running"]
    /\ out = [p \in Procs |-> {}]

\* free_zram() and return from main() with status st
Finish(p, st) ==
    /\ pc' = [pc EXCEPT ![p] = "done"]
    /\ exit' = [exit EXCEPT ![p] = st]

\* a step of the set-up of a device failing: err(EXIT_FAILURE) in the
\* create path, warn() and rc = 1 in the reset loop, which goes on to
\* zram_control_remove()
Failed(p) ==
    IF Cmd[p].act = "reset"
    THEN /\ pc' = [pc EXCEPT ![p] = "remove"]
         /\ rc' = [rc EXCEPT ![p] = 1]
         /\ UNCHANGED exit
    ELSE Finish(p, "failure") /\ UNCHANGED rc

\* main(), A_FINDONLY or A_CREATE with --find: into find_free_zram()
StartFind(p) ==
    /\ pc[p] = "start"
    /\ Cmd[p].act = "findonly" \/ (Cmd[p].act = "create" /\ Cmd[p].find)
    /\ pc' = [pc EXCEPT ![p] = "find"]
    /\ i' = [i EXCEPT ![p] = 0]
    /\ UNCHANGED <<kVars, dev, rc, exit, out>>

\* main(), A_CREATE on a named device: new_zram() and zram_exist()
StartCreate(p) ==
    /\ pc[p] = "start"
    /\ Cmd[p].act = "create" /\ ~Cmd[p].find
    /\ IF Cmd[p].devs = << >>
       THEN Finish(p, "failure") /\ UNCHANGED dev
       ELSE /\ dev' = [dev EXCEPT ![p] = Cmd[p].devs[1]]
            /\ IF Cmd[p].devs[1] \in exists
               THEN pc' = [pc EXCEPT ![p] = "wait"] /\ UNCHANGED exit
               ELSE Finish(p, "failure")
    /\ UNCHANGED <<kVars, i, rc, out>>

\* main(), A_RESET: "no device specified", else the loop over the names
StartReset(p) ==
    /\ pc[p] = "start"
    /\ Cmd[p].act = "reset"
    /\ IF Cmd[p].devs = << >>
       THEN Finish(p, "failure")
       ELSE pc' = [pc EXCEPT ![p] = "rnext"] /\ UNCHANGED exit
    /\ i' = [i EXCEPT ![p] = 1]
    /\ UNCHANGED <<kVars, dev, rc, out>>

\* main(), A_STATUS: status() of the named device, or of every used
\* device found in /dev (a read-only listing)
Status(p) ==
    /\ pc[p] = "start"
    /\ Cmd[p].act = "status"
    /\ IF Cmd[p].devs = << >>
       THEN /\ out' = [out EXCEPT ![p] = {d \in exists : Used(d)}]
            /\ Finish(p, "success")
       ELSE IF Cmd[p].devs[1] \in exists
            THEN /\ out' = [out EXCEPT ![p] = {Cmd[p].devs[1]}]
                 /\ Finish(p, "success")
            ELSE Finish(p, "failure") /\ UNCHANGED out
    /\ UNCHANGED <<kVars, dev, i, rc>>
-----------------------------------------------------------------------------
(* find_free_zram(): one turn of its loop *)

\* the loop ends with z on device d: --find prints it, --size goes on
Found(p, d) ==
    /\ dev' = [dev EXCEPT ![p] = d]
    /\ IF Cmd[p].act = "findonly"
       THEN out' = [out EXCEPT ![p] = {d}] /\ Finish(p, "success")
       ELSE pc' = [pc EXCEPT ![p] = "wait"] /\ UNCHANGED <<exit, out>>

\* zram_set_devname(z, NULL, i) and zram_exist(z).  A missing device:
\* zram_control_add() reads hot_add, which creates the device FirstFree,
\* and renames z to it; if the read fails, n keeps its initial 0 and
\* zram_control_add() returns 0, so z stays on the missing device i.
\* Without zram-control the loop breaks.  zram_used() is the next step.
FindStep(p) ==
    /\ pc[p] = "find"
    /\ LET n == i[p] IN
       \/ /\ n \in exists
          /\ dev' = [dev EXCEPT ![p] = n]
          /\ pc' = [pc EXCEPT ![p] = "used"]
          /\ UNCHANGED <<kVars, exit>>
       \/ /\ n \notin exists /\ ~hasControl
          /\ Finish(p, "failure")
          /\ UNCHANGED <<kVars, dev>>
       \/ /\ n \notin exists /\ hasControl /\ Dev \ exists # {}
          /\ exists' = exists \cup {FirstFree}
          /\ uevq' = uevq \cup {FirstFree}
          /\ dev' = [dev EXCEPT ![p] = FirstFree]
          /\ pc' = [pc EXCEPT ![p] = "used"]
          /\ UNCHANGED <<hasControl, owner, algOf, inited, udevOpen, holder, exit>>
       \/ /\ n \notin exists /\ hasControl
          /\ HotAddCanFail \/ Dev \ exists = {}
          /\ dev' = [dev EXCEPT ![p] = n]
          /\ pc' = [pc EXCEPT ![p] = "used"]
          /\ UNCHANGED <<kVars, exit>>
    /\ UNCHANGED <<i, rc, out>>

\* the i++ of the loop
FindSkip(p) == i' = [i EXCEPT ![p] = i[p] + 1]

\* isfree = !zram_used(z): disksize is read again, and fails (0) for a
\* device that is missing by now; a used device: i++ and the next turn
FindUsed(p) ==
    /\ pc[p] = "used"
    /\ \/ /\ Used(dev[p])
          /\ FindSkip(p)
          /\ pc' = [pc EXCEPT ![p] = "find"]
          /\ UNCHANGED <<dev, exit, out>>
       \/ /\ ~Used(dev[p])
          /\ Found(p, dev[p])
          /\ UNCHANGED i
    /\ UNCHANGED <<kVars, rc>>
-----------------------------------------------------------------------------
(* Setting up the device: main(), A_CREATE, and the reset loop *)

\* zram_wait_initialized(): sd_device_new_from_devname() fails for a
\* missing device; an initialized device needs no wait; otherwise the
\* device monitor (started before the check) waits for udevd
WaitCheck(p) ==
    /\ pc[p] = "wait"
    /\ \/ dev[p] \notin exists /\ Failed(p)
       \/ dev[p] \in exists /\ dev[p] \in inited
          /\ pc' = [pc EXCEPT ![p] = "lock"] /\ UNCHANGED <<rc, exit>>
       \/ dev[p] \in exists /\ dev[p] \notin inited
          /\ pc' = [pc EXCEPT ![p] = "waitev"] /\ UNCHANGED <<rc, exit>>
    /\ UNCHANGED <<kVars, dev, i, out>>

\* monitor_callback(): a non-remove uevent of the device, initialized
WaitEvent(p) ==
    /\ pc[p] = "waitev"
    /\ dev[p] \in inited
    /\ pc' = [pc EXCEPT ![p] = "lock"]
    /\ UNCHANGED <<kVars, dev, i, rc, exit, out>>

\* the 3 second timer ends sd_event_loop() with -ETIMEDOUT
WaitTimeout(p) ==
    /\ pc[p] = "waitev"
    /\ Failed(p)
    /\ UNCHANGED <<kVars, dev, i, out>>
\* zram_lock(): open the device node (it fails for a missing device) and
\* flock() it: LOCK_EX waits for udevd's LOCK_SH and any other LOCK_EX,
\* the reset loop's LOCK_EX|LOCK_NB fails with EWOULDBLOCK instead
Lock(p) ==
    /\ pc[p] = "lock"
    /\ LET d == dev[p] IN
       \/ /\ d \notin exists
          /\ Failed(p) /\ UNCHANGED holder
       \/ /\ d \in exists /\ ~Opened(d)
          /\ holder' = [holder EXCEPT ![d] = p]
          /\ pc' = [pc EXCEPT ![p] = "unlock"]
          /\ UNCHANGED <<rc, exit>>
       \/ /\ d \in exists /\ Opened(d) /\ Cmd[p].act = "reset"
          /\ Failed(p) /\ UNCHANGED holder
    /\ UNCHANGED <<hasControl, exists, owner, algOf, inited, uevq, udevOpen, dev, i, out>>

\* fault variant: the lock is not released before 'reset' is written
UnlockNoRelease(p) ==
    /\ pc[p] = "unlock"
    /\ pc' = [pc EXCEPT ![p] = "reset"]
    /\ UNCHANGED <<kVars, dev, i, rc, exit, out>>

\* zram_unlock(): close(lock_fd), because the kernel refuses 'reset' on
\* an open device
Unlock(p) ==
    /\ pc[p] = "unlock"
    /\ holder' = [holder EXCEPT ![dev[p]] = NoProc]
    /\ pc' = [pc EXCEPT ![p] = "reset"]
    /\ UNCHANGED <<hasControl, exists, owner, algOf, inited, uevq, udevOpen, dev, i, rc, exit, out>>

\* zram_set_u64parm(z, "reset", 1): -EINVAL without sysfs; reset_store()
\* refuses an open device; a reset clears disksize and the algorithm, and
\* the capacity change of a set-up device is a uevent
WriteReset(p) ==
    /\ pc[p] = "reset"
    /\ LET d == dev[p] IN
       IF d \notin exists \/ Opened(d)
       THEN Failed(p) /\ UNCHANGED <<owner, algOf, uevq>>
       ELSE /\ owner' = [owner EXCEPT ![d] = NoProc]
            /\ algOf' = [algOf EXCEPT ![d] = NoProc]
            /\ uevq' = IF owner[d] # NoProc THEN uevq \cup {d} ELSE uevq
            /\ pc' = [pc EXCEPT ![p] =
                        IF Cmd[p].act = "reset" THEN "remove"
                        ELSE IF Cmd[p].alg THEN "alg" ELSE "disksize"]
            /\ UNCHANGED <<rc, exit>>
    /\ UNCHANGED <<hasControl, exists, inited, udevOpen, holder, dev, i, out>>

\* zram_set_strparm(z, "comp_algorithm", algorithm): the kernel refuses
\* it once disksize is set (init_done)
WriteAlg(p) ==
    /\ pc[p] = "alg"
    /\ LET d == dev[p] IN
       IF d \notin exists \/ owner[d] # NoProc
       THEN Failed(p) /\ UNCHANGED algOf
       ELSE /\ algOf' = [algOf EXCEPT ![d] = p]
            /\ pc' = [pc EXCEPT ![p] = "disksize"]
            /\ UNCHANGED <<rc, exit>>
    /\ UNCHANGED <<hasControl, exists, owner, inited, uevq, udevOpen, holder, dev, i, out>>

\* zram_set_u64parm(z, "disksize", size): refused once set; it sets the
\* capacity (a uevent); then --find prints the name and main() returns
WriteDisksize(p) ==
    /\ pc[p] = "disksize"
    /\ LET d == dev[p] IN
       IF d \notin exists \/ owner[d] # NoProc
       THEN Failed(p) /\ UNCHANGED <<owner, uevq, out>>
       ELSE /\ owner' = [owner EXCEPT ![d] = p]
            /\ uevq' = uevq \cup {d}
            /\ out' = [out EXCEPT ![p] = IF Cmd[p].find THEN {d} ELSE {}]
            /\ Finish(p, "success")
            /\ UNCHANGED rc
    /\ UNCHANGED <<hasControl, exists, algOf, inited, udevOpen, holder, dev, i>>

\* the reset loop: new_zram(argv[optind]) and zram_exist(), or the end
\* of the loop and the exit status from rc
ResetNext(p) ==
    /\ pc[p] = "rnext"
    /\ IF i[p] <= Len(Cmd[p].devs)
       THEN LET d == Cmd[p].devs[i[p]] IN
            /\ dev' = [dev EXCEPT ![p] = d]
            /\ IF d \in exists
               THEN pc' = [pc EXCEPT ![p] = "wait"] /\ UNCHANGED rc
               ELSE /\ pc' = [pc EXCEPT ![p] = "remove"]
                    /\ rc' = [rc EXCEPT ![p] = 1]
            /\ UNCHANGED exit
       ELSE Finish(p, IF rc[p] = 0 THEN "success" ELSE "failure")
            /\ UNCHANGED <<dev, rc>>
    /\ UNCHANGED <<kVars, i, out>>

\* fault variant: the reset loop does not advance to the next argument
ResetAdvanceNone(p) == i' = i

\* the optind++ of the reset loop
ResetAdvance(p) == i' = [i EXCEPT ![p] = i[p] + 1]

\* zram_control_remove(), whatever the reset gave, and optind++:
\* hot_remove_store() fails for a missing or an open device, and
\* otherwise deletes it
Remove(p) ==
    /\ pc[p] = "remove"
    /\ LET d == dev[p] IN
       IF hasControl /\ d \in exists /\ ~Opened(d)
       THEN /\ exists' = exists \ {d}
            /\ owner' = [owner EXCEPT ![d] = NoProc]
            /\ algOf' = [algOf EXCEPT ![d] = NoProc]
            /\ inited' = inited \ {d}
            /\ uevq' = uevq \ {d}
       ELSE UNCHANGED <<exists, owner, algOf, inited, uevq>>
    /\ pc' = [pc EXCEPT ![p] = "rnext"]
    /\ ResetAdvance(p)
    /\ UNCHANGED <<hasControl, udevOpen, holder, dev, rc, exit, out>>
-----------------------------------------------------------------------------
(* udevd: a worker takes LOCK_SH|LOCK_NB on the device (and requeues the *)
(* event while a LOCK_EX is held), runs the rules, and marks the device  *)
(* initialized                                                             *)

UdevBegin(d) ==
    /\ d \in uevq /\ d \notin udevOpen
    /\ holder[d] = NoProc
    /\ udevOpen' = udevOpen \cup {d}
    /\ uevq' = uevq \ {d}
    /\ UNCHANGED <<hasControl, exists, owner, algOf, inited, holder, pVars>>

UdevEnd(d) ==
    /\ d \in udevOpen
    /\ udevOpen' = udevOpen \ {d}
    /\ inited' = inited \cup {d}
    /\ UNCHANGED <<hasControl, exists, owner, algOf, uevq, holder, pVars>>
-----------------------------------------------------------------------------
ProcStep(p) ==
    \/ StartFind(p) \/ StartCreate(p) \/ StartReset(p) \/ Status(p)
    \/ FindStep(p) \/ FindUsed(p)
    \/ WaitCheck(p) \/ WaitEvent(p) \/ WaitTimeout(p)
    \/ Lock(p) \/ Unlock(p)
    \/ WriteReset(p) \/ WriteAlg(p) \/ WriteDisksize(p)
    \/ ResetNext(p) \/ Remove(p)

Udev(d) == UdevBegin(d) \/ UdevEnd(d)

Next ==
    \/ \E p \in Procs : ProcStep(p)
    \/ \E d \in Dev : Udev(d)

\* the processes are scheduled, and udevd works its queue
Fairness ==
    /\ \A p \in Procs : WF_vars(ProcStep(p))
    /\ \A d \in Dev : WF_vars(Udev(d))

Spec == Init /\ [][Next]_vars /\ Fairness
-----------------------------------------------------------------------------
(* Properties *)

PC == {"start", "find", "used", "wait", "waitev", "lock", "unlock", "reset", "alg",
       "disksize", "rnext", "remove", "done"}

\* the kernel's state is well typed
KernelOK ==
    /\ exists \subseteq Dev
    /\ owner \in [Dev -> Procs \cup {NoProc, Other}]
    /\ algOf \in [Dev -> Procs \cup {NoProc}]
    /\ inited \subseteq Dev /\ uevq \subseteq Dev /\ udevOpen \subseteq Dev
    /\ holder \in [Dev -> Procs \cup {NoProc}]

\* the processes' state is well typed
ProcOK ==
    /\ pc \in [Procs -> PC]
    /\ dev \in [Procs -> Nat]
    /\ i \in [Procs -> Nat]
    /\ rc \in [Procs -> {0, 1}]
    /\ exit \in [Procs -> {"running", "success", "failure"}]
    /\ out \in [Procs -> SUBSET Nat]

\* LOCK_EX is held exactly by the processes between zram_lock() and
\* zram_unlock(), each on the device it names, which exists; only the
\* reset loop is at its head or at zram_control_remove(), and its optind
\* is past argv[0] once it has started
LockOK ==
    /\ \A d \in Dev : holder[d] # NoProc =>
           pc[holder[d]] = "unlock" /\ dev[holder[d]] = d
    /\ \A p \in Procs : pc[p] = "unlock" => dev[p] \in exists /\ holder[dev[p]] = p
    /\ \A p \in Procs : pc[p] \in {"rnext", "remove"} => Cmd[p].act = "reset"
    /\ \A p \in Procs : Cmd[p].act = "reset" /\ pc[p] # "start" => i[p] >= 1

\* Type correctness, with where LOCK_EX can be held: zram_unlock()
\* releases the lock zram_lock() took and no other, and no two zramctl
\* hold the lock of one device.
TypeOK == KernelOK /\ ProcOK /\ LockOK

\* Every zramctl process ends: the blocking LOCK_EX waits only for
\* udevd's rules and for another zramctl between its lock and unlock, the
\* wait for udevd ends at the latest with its 3 second timeout, and
\* find_free_zram() passes each device once.
Terminates == \A p \in Procs : <>(exit[p] # "running")

\* Two zramctl --find --size processes that both succeed were given
\* different devices (find_free_zram() is what "find a free device"
\* promises each of them).
FoundDistinct ==
    \A p, q \in Procs :
        /\ p # q
        /\ Cmd[p].act = "create" /\ Cmd[p].find /\ exit[p] = "success"
        /\ Cmd[q].act = "create" /\ Cmd[q].find /\ exit[q] = "success"
        => out[p] # out[q]

\* The device zramctl --find prints exists.
FoundExists ==
    \A p \in Procs : Cmd[p].act = "findonly" /\ exit[p] = "success" => out[p] \subseteq exists
=============================================================================
