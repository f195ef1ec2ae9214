------------------------- MODULE MonitorLoopProofs -------------------------
(***************************************************************************)
(* The consumer loop of monitor.c's test program uses the monitor only   *)
(* through its public calls, so the monitor with its consumer implements *)
(* the monitor alone, and what is proved of the monitor holds of the     *)
(* loop.                                                                   *)
(***************************************************************************)
EXTENDS MonitorLoop, MonitorProofs

(* Every step of the consumer, of a call it runs and of the kernel is a  *)
(* step of the monitor's interface, or leaves the monitor alone.         *)
LEMMA LoopStepMonitorStep == [LoopNext]_loopVars => [Next]_vars
<1>. SUFFICES ASSUME [LoopNext]_loopVars PROVE [Next]_vars
    OBVIOUS
<1>1. CASE ClStart
    BY <1>1 DEF ClStart, Next, ApiCall
<1>2. CASE \E e \in Entries : ClEnable(e)
    BY <1>2 DEF ClEnable, Next, ApiCall
<1>3. CASE ClSetupDone
    BY <1>3 DEF ClSetupDone, Next, ApiCall
<1>4. CASE ClWait
    BY <1>4 DEF ClWait, Next, ApiCall
<1>5. CASE ClEpollWait \/ ClWaited \/ ClNextDone
    BY <1>5 DEF ClEpollWait, ClWaited, ClNextDone
<1>6. CASE ClNext
    <2>1. CASE mode = "clean"
        BY <1>6, <2>1 DEF ClNext, Next, ApiCall
    <2>2. CASE mode # "clean" /\ pc = "idle"
        BY <1>6, <2>2 DEF ClNext, Next, ApiCall
    <2>3. CASE mode # "clean" /\ pc # "idle"
        <3>1. pc = "cleanup"
            BY <1>6, <2>3 DEF ClNext, NextChange
        <3>. QED
            BY <1>6, <2>3, <3>1 DEF ClNext, Next, Internal, CleanupNext
    <2>. QED
        BY <2>1, <2>2, <2>3
<1>7. CASE ClExit
    BY <1>7 DEF ClExit, Next, ApiCall
<1>8. CASE (Internal \/ Kernel) /\ UNCHANGED <<cl, mode>>
    BY <1>8 DEF Next
<1>9. CASE UNCHANGED loopVars
    BY <1>9 DEF loopVars
<1>. QED
    BY <1>1, <1>2, <1>3, <1>4, <1>5, <1>6, <1>7, <1>8, <1>9 DEF LoopNext, Client

(* The test program's consumer (and findmnt --poll, which loops the same *)
(* way) drives a monitor that behaves as the monitor's specification      *)
(* allows: the loop adds no step of its own to the monitor's state.      *)
THEOREM LoopImplementsMonitor == LoopSpec => Spec
<1>1. LoopInit => Init
    BY DEF LoopInit
<1>. QED
    BY <1>1, LoopStepMonitorStep, PTL DEF LoopSpec, Spec

(* In the consumer loop no change notification is spurious: what         *)
(* mnt_monitor_next_change reports is an entry whose table changed since  *)
(* it was last reported (NoSpuriousNotification, as the run checks it).  *)
THEOREM LoopNoSpurious == LoopSpec => []NoSpuriousNotification
BY LoopImplementsMonitor, NoSpurious, PTL
=============================================================================
