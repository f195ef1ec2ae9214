---------------------------- MODULE MonitorFdProofs ----------------------------
(***************************************************************************)
(* The refinement of MonitorFd by Monitor, for every set of entries and   *)
(* every bound: mnt_monitor_get_fd builds the epoll descriptor one entry  *)
(* at a time, with kernel notifications and failures in between, and is *)
(* still the all-or-nothing get_descriptor() of the spec.                 *)
(***************************************************************************)
EXTENDS MonitorProofs

\* a freed monitor has no descriptor and no enabled entry
FreeClean == pc = "free" => ~epfd /\ reg = {} /\ \A e \in Entries : ~enabled[e]

\* without mn->fd nothing is registered
NoFdNoReg == ~epfd => reg = {}

\* an enabled entry is on mn->ents, where the get_fd loop will find it
EnabledListed == \A e \in Entries : enabled[e] => Listed(e)

\* the get_fd loop has registered exactly the enabled entries it passed
LoopRegistered ==
    pc = "getfd" =>
        /\ it \in 1..(Len(ents) + 1)
        /\ reg = {e \in Entries : enabled[e] /\ \E j \in 1..(it - 1) : ents[j] = e}

(* The invariant the refinement rests on: WInv (types, registered entries *)
(* are enabled, the loop runs on mn->fd), a freed monitor is empty, no    *)
(* registration survives mn->fd, enabled entries are listed, and the loop *)
(* invariant of mnt_monitor_get_fd.                                        *)
FdInv == WInv /\ FreeClean /\ NoFdNoReg /\ EnabledListed /\ LoopRegistered

-----------------------------------------------------------------------------
(* The invariant *)

\* appending to mn->ents keeps what was listed and lists the new entry
LEMMA ListedAppend ==
    ASSUME NEW s \in Seq(Entries), NEW e \in Entries, NEW x \in Entries
    PROVE  x \in Range(Append(s, e)) <=> x \in Range(s) \/ x = e
BY DEF Range

LEMMA InitFdInv == Init => FdInv
<1> SUFFICES ASSUME Init PROVE FdInv
    OBVIOUS
<1>1. FreeClean /\ NoFdNoReg /\ EnabledListed /\ LoopRegistered
    BY DEF Init, FreeClean, NoFdNoReg, EnabledListed, LoopRegistered
<1>. QED
    BY <1>1, InitWInv DEF FdInv

LEMMA NextFdInv == FdInv /\ [Next]_vars => FdInv'
<1> SUFFICES ASSUME FdInv, [Next]_vars PROVE FdInv'
    OBVIOUS
<1>1. WInv'
    BY NextWInv DEF FdInv
<1>. DEFINE F == FreeClean /\ NoFdNoReg /\ EnabledListed /\ LoopRegistered
<1>. SUFFICES F'
    BY <1>1 DEF FdInv
<1>. USE DEF FdInv, WInv, TypeOK, FlagOK, ListOK, ControlOK
<1>2. CASE NewMonitor \/ UnrefMonitor
    <2>1. FreeClean'
        BY <1>2 DEF NewMonitor, UnrefMonitor, Released, FreeClean
    <2>2. NoFdNoReg'
        BY <1>2 DEF NewMonitor, UnrefMonitor, Released, NoFdNoReg
    <2>3. EnabledListed'
        BY <1>2 DEF NewMonitor, UnrefMonitor, Released, EnabledListed, Listed
    <2>4. LoopRegistered'
        BY <1>2 DEF NewMonitor, UnrefMonitor, Released, LoopRegistered
    <2>. QED
        BY <2>1, <2>2, <2>3, <2>4 DEF F
<1>3. CASE RefMonitor \/ GetFdDone \/ ReadTimeout \/ EventCleanup \/ UNCHANGED vars
    <2>1. FreeClean'
        BY <1>3 DEF RefMonitor, GetFdDone, ReadTimeout, EventCleanup, vars, FreeClean
    <2>2. NoFdNoReg'
        BY <1>3 DEF RefMonitor, GetFdDone, ReadTimeout, EventCleanup, vars, NoFdNoReg
    <2>3. EnabledListed'
        BY <1>3 DEF RefMonitor, GetFdDone, ReadTimeout, EventCleanup, vars, EnabledListed, Listed
    <2>4. LoopRegistered'
        BY <1>3 DEF RefMonitor, GetFdDone, ReadTimeout, EventCleanup, vars, LoopRegistered
    <2>. QED
        BY <2>1, <2>2, <2>3, <2>4 DEF F
<1>4. ASSUME NEW e \in Entries, Enable(e) PROVE F'
    <2>1. FreeClean'
        BY <1>4 DEF Enable, RegisterOk, RegisterHang, FreeClean
    <2>2. NoFdNoReg'
        BY <1>4 DEF Enable, RegisterOk, RegisterHang, NoFdNoReg
    <2>3. EnabledListed'
    <3>1. \A x \in Entries : Listed(x) => Listed(x)'
            BY <1>4, ListedAppend DEF Enable, Listed
        <3>2. Listed(e)'
            BY <1>4, ListedAppend DEF Enable, Listed
        <3>. QED
            BY <1>4, <3>1, <3>2 DEF Enable, EnabledListed
    <2>4. LoopRegistered'
        BY <1>4 DEF Enable, RegisterOk, RegisterHang, LoopRegistered
    <2>. QED
        BY <2>1, <2>2, <2>3, <2>4 DEF F
<1>5. ASSUME NEW e \in Entries, Disable(e) PROVE F'
    <2>1. FreeClean'
        BY <1>5 DEF Disable, FreeClean
    <2>2. NoFdNoReg'
        BY <1>5 DEF Disable, NoFdNoReg
    <2>3. EnabledListed'
        BY <1>5 DEF Disable, EnabledListed, Listed
    <2>4. LoopRegistered'
        BY <1>5 DEF Disable, LoopRegistered
    <2>. QED
        BY <2>1, <2>2, <2>3, <2>4 DEF F
<1>6. CASE CloseFd
    <2>1. FreeClean'
        BY <1>6 DEF CloseFd, FreeClean
    <2>2. NoFdNoReg'
        BY <1>6 DEF CloseFd, NoFdNoReg
    <2>3. EnabledListed'
        BY <1>6 DEF CloseFd, EnabledListed, Listed
    <2>4. LoopRegistered'
        BY <1>6 DEF CloseFd, LoopRegistered
    <2>. QED
        BY <2>1, <2>2, <2>3, <2>4 DEF F
<1>7. CASE GetFd \/ \E t \in {"inf", "fin"} : Wait(t)
    <2>1. FreeClean'
        BY <1>7 DEF GetFd, Wait, GetFdBegin, FreeClean
    <2>2. NoFdNoReg'
        BY <1>7 DEF GetFd, Wait, GetFdBegin, NoFdNoReg
    <2>3. EnabledListed'
        BY <1>7 DEF GetFd, Wait, GetFdBegin, EnabledListed, Listed
    <2>4. LoopRegistered'
        BY <1>7 DEF GetFd, Wait, GetFdBegin, LoopRegistered, NoFdNoReg
    <2>. QED
        BY <2>1, <2>2, <2>3, <2>4 DEF F
<1>8. CASE GetFdStep
    <2>0. ents[it] \in Entries /\ it \in 1..Len(ents)
        BY <1>8 DEF GetFdStep, LoopRegistered
    <2>. DEFINE f == ents[it]
    <2>1. CASE ~enabled[f]
        <3>1. FreeClean'
            BY <1>8, <2>0, <2>1 DEF GetFdStep, FreeClean
        <3>2. NoFdNoReg'
            BY <1>8, <2>0, <2>1 DEF GetFdStep, NoFdNoReg
        <3>3. EnabledListed'
            BY <1>8, <2>0, <2>1 DEF GetFdStep, EnabledListed, Listed
        <3>4. LoopRegistered'
            BY <1>8, <2>0, <2>1 DEF GetFdStep, LoopRegistered
        <3>. QED
            BY <3>1, <3>2, <3>3, <3>4 DEF F
    <2>2. CASE enabled[f] /\ RegisterOk(f) /\ it' = it + 1 /\ pc' = pc
        <3>1. FreeClean'
            BY <1>8, <2>0, <2>2 DEF GetFdStep, RegisterOk, FreeClean
        <3>2. NoFdNoReg'
            BY <1>8, <2>0, <2>2 DEF GetFdStep, RegisterOk, NoFdNoReg, CallHasFd
        <3>3. EnabledListed'
            BY <1>8, <2>0, <2>2 DEF GetFdStep, RegisterOk, EnabledListed, Listed
        <3>4. LoopRegistered'
            BY <1>8, <2>0, <2>2 DEF GetFdStep, RegisterOk, LoopRegistered
        <3>. QED
            BY <3>1, <3>2, <3>3, <3>4 DEF F
    <2>3. CASE enabled[f] /\ RegisterHang(f) /\ pc' = "hung"
        <3>1. FreeClean'
            BY <1>8, <2>0, <2>3 DEF GetFdStep, RegisterHang, FreeClean
        <3>2. NoFdNoReg'
            BY <1>8, <2>0, <2>3 DEF GetFdStep, RegisterHang, NoFdNoReg, CallHasFd
        <3>3. EnabledListed'
            BY <1>8, <2>0, <2>3 DEF GetFdStep, RegisterHang, EnabledListed, Listed
        <3>4. LoopRegistered'
            BY <1>8, <2>0, <2>3 DEF GetFdStep, RegisterHang, LoopRegistered
        <3>. QED
            BY <3>1, <3>2, <3>3, <3>4 DEF F
    <2>4. CASE enabled[f] /\ reg' = {} /\ epfd' = FALSE /\ pc' = "idle"
        <3>1. FreeClean'
            BY <1>8, <2>0, <2>4 DEF GetFdStep, FreeClean
        <3>2. NoFdNoReg'
            BY <1>8, <2>0, <2>4 DEF GetFdStep, NoFdNoReg
        <3>3. EnabledListed'
            BY <1>8, <2>0, <2>4 DEF GetFdStep, EnabledListed, Listed
        <3>4. LoopRegistered'
            BY <1>8, <2>0, <2>4 DEF GetFdStep, LoopRegistered
        <3>. QED
            BY <3>1, <3>2, <3>3, <3>4 DEF F
    <2>. QED
        BY <1>8, <2>1, <2>2, <2>3, <2>4 DEF GetFdStep
<1>9. CASE NextChange
    <2>1. FreeClean'
        BY <1>9 DEF NextChange, FreeClean
    <2>2. NoFdNoReg'
        BY <1>9 DEF NextChange, NoFdNoReg
    <2>3. EnabledListed'
        BY <1>9 DEF NextChange, EnabledListed, Listed
    <2>4. LoopRegistered'
        BY <1>9 DEF NextChange, LoopRegistered
    <2>. QED
        BY <2>1, <2>2, <2>3, <2>4 DEF F
<1>10. ASSUME NEW e \in Entries,
              ReadAccept(e) \/ ReadIgnore(e) \/ KernelChange(e) \/ KernelNoise(e)
       PROVE F'
    <2>1. FreeClean'
        BY <1>10 DEF ReadAccept, ReadIgnore, KernelChange, KernelNoise, FreeClean
    <2>2. NoFdNoReg'
        BY <1>10 DEF ReadAccept, ReadIgnore, KernelChange, KernelNoise, NoFdNoReg
    <2>3. EnabledListed'
        BY <1>10 DEF ReadAccept, ReadIgnore, KernelChange, KernelNoise, EnabledListed, Listed
    <2>4. LoopRegistered'
        BY <1>10 DEF ReadAccept, ReadIgnore, KernelChange, KernelNoise, LoopRegistered
    <2>. QED
        BY <2>1, <2>2, <2>3, <2>4 DEF F
<1>. QED
    BY <1>2, <1>3, <1>4, <1>5, <1>6, <1>7, <1>8, <1>9, <1>10
    DEF Next, ApiCall, Internal, Kernel, CleanupNext

-----------------------------------------------------------------------------
(* Every step is a step of MonitorFd or leaves its state alone *)

\* a step that keeps the monitor's lifetime, its get_fd loop and its hang,
\* its flags, mn->fd and the epoll set does not change what MonitorFd sees
LEMMA MappedUnchanged ==
    ASSUME (pc' = "free") <=> (pc = "free"),
           (pc' = "getfd") <=> (pc = "getfd"),
           (pc' = "hung") <=> (pc = "hung"),
           UNCHANGED <<enabled, epfd, reg>>
    PROVE  UNCHANGED MF!fdVars
BY DEF MF!fdVars

\* mnt_new_monitor is create(), and the last mnt_unref_monitor release()
LEMMA LifetimeFdStep ==
    ASSUME FdInv, NewMonitor \/ UnrefMonitor \/ RefMonitor
    PROVE  [MF!Next]_MF!fdVars
<1>. USE DEF FdInv, WInv, TypeOK, FlagOK, ListOK, ControlOK
<1>1. CASE NewMonitor
    <2>1. MF!Create
        BY <1>1 DEF NewMonitor, Released, FreeClean, MF!Create
    <2>. QED
        BY <2>1 DEF MF!Next
<1>2. CASE UnrefMonitor /\ refcnt - 1 <= 0
    <2>1. MF!Destroy
        BY <1>2 DEF UnrefMonitor, Released, MF!Destroy, MF!Running
    <2>. QED
        BY <2>1 DEF MF!Next
<1>3. CASE UnrefMonitor /\ ~(refcnt - 1 <= 0)
    BY <1>3, MappedUnchanged DEF UnrefMonitor
<1>4. CASE RefMonitor
    BY <1>4, MappedUnchanged DEF RefMonitor
<1>. QED
    BY <1>1, <1>2, <1>3, <1>4

\* monitor_modify_epoll(TRUE) from mnt_monitor_enable_*: registered, failed,
\* or the drain loop that never ends
LEMMA EnableFdStep ==
    ASSUME FdInv, NEW e \in Entries, Enable(e)
    PROVE  [MF!Next]_MF!fdVars
<1>. USE DEF FdInv, WInv, TypeOK, FlagOK, ListOK, ControlOK
<1>1. {x \in Entries : enabled'[x]} = {x \in Entries : enabled[x]} \cup {e}
    BY DEF Enable
<1>2. CASE ~epfd
    <2>1. MF!Enable(e)
        BY <1>1, <1>2 DEF Enable, MF!Enable, MF!Running
    <2>. QED
        BY <2>1 DEF MF!Next
<1>3. CASE epfd /\ RegisterOk(e) /\ pc' = pc
    <2>1. MF!Enable(e)
        BY <1>1, <1>3 DEF Enable, RegisterOk, MF!Enable, MF!Running
    <2>. QED
        BY <2>1 DEF MF!Next
<1>4. CASE epfd /\ RegisterHang(e) /\ pc' = "hung"
    <2>1. reg' \subseteq {x \in Entries : enabled'[x]}
        BY <1>1, <1>4 DEF Enable, RegisterHang, RegisteredAreEnabled
    <2>2. MF!Hang
        BY <1>4, <2>1 DEF Enable, RegisterHang, MF!Hang, MF!Running
    <2>. QED
        BY <2>2 DEF MF!Next
<1>5. CASE epfd /\ UNCHANGED <<pc, reg>>
    <2>1. MF!Enable(e)
        BY <1>1, <1>5 DEF Enable, MF!Enable, MF!Running
    <2>. QED
        BY <2>1 DEF MF!Next
<1>. QED
    BY <1>2, <1>3, <1>4, <1>5 DEF Enable

\* monitor_modify_epoll(FALSE) and mnt_monitor_close_fd
LEMMA DisableFdStep ==
    ASSUME FdInv, \/ \E e \in Entries : Disable(e)
                  \/ CloseFd
    PROVE  [MF!Next]_MF!fdVars
<1>. USE DEF FdInv, WInv, TypeOK, FlagOK, ListOK, ControlOK
<1>1. ASSUME NEW e \in Entries, Disable(e) PROVE [MF!Next]_MF!fdVars
    <2>1. {x \in Entries : enabled'[x]} = {x \in Entries : enabled[x]} \ {e}
        BY <1>1 DEF Disable
    <2>2. MF!Disable(e)
        BY <1>1, <2>1 DEF Disable, MF!Disable, MF!Running
    <2>. QED
        BY <2>2 DEF MF!Next
<1>2. CASE CloseFd
    <2>1. {x \in Entries : enabled'[x]} =
            IF epfd THEN {} ELSE {x \in Entries : enabled[x]}
        BY <1>2 DEF CloseFd
    <2>2. MF!CloseDescriptor
        BY <1>2, <2>1 DEF CloseFd, MF!CloseDescriptor, MF!Running
    <2>. QED
        BY <2>2 DEF MF!Next
<1>. QED
    BY <1>1, <1>2

\* epoll_create1 starts the loop unseen, or fails and changes nothing
LEMMA GetFdBeginFdStep ==
    ASSUME FdInv, \/ GetFd
                  \/ \E t \in {"inf", "fin"} : Wait(t)
    PROVE  [MF!Next]_MF!fdVars
<1>. USE DEF FdInv, WInv, TypeOK, FlagOK, ListOK, ControlOK
<1>1. CASE ~epfd /\ pc' = "getfd"
    <2>1. reg = {}
        BY <1>1 DEF NoFdNoReg
    <2>. QED
        BY <1>1, <2>1 DEF GetFd, Wait, GetFdBegin, MF!fdVars
<1>2. CASE ~(~epfd /\ pc' = "getfd")
    BY <1>2, MappedUnchanged DEF GetFd, Wait, GetFdBegin
<1>. QED
    BY <1>1, <1>2

\* one turn of the registration loop: unseen, a hang, or a failure that
\* leaves no descriptor behind
LEMMA GetFdStepFdStep ==
    ASSUME FdInv, GetFdStep
    PROVE  [MF!Next]_MF!fdVars
<1>. USE DEF FdInv, WInv, TypeOK, FlagOK, ListOK, ControlOK
<1>0. ents[it] \in Entries /\ epfd /\ pc = "getfd"
    BY DEF GetFdStep, LoopRegistered, CallHasFd
<1>. DEFINE f == ents[it]
<1>1. CASE ~enabled[f]
    BY <1>0, <1>1 DEF GetFdStep, MF!fdVars
<1>2. CASE enabled[f] /\ RegisterOk(f) /\ pc' = pc
    BY <1>0, <1>2 DEF GetFdStep, RegisterOk, MF!fdVars
<1>3. CASE enabled[f] /\ RegisterHang(f) /\ pc' = "hung"
    <2>1. reg' \subseteq {x \in Entries : enabled'[x]}
        BY <1>0, <1>3 DEF GetFdStep, RegisterHang, RegisteredAreEnabled
    <2>2. MF!Hang
        BY <1>0, <1>3, <2>1 DEF GetFdStep, MF!Hang, MF!Running
    <2>. QED
        BY <2>2 DEF MF!Next
<1>4. CASE enabled[f] /\ reg' = {} /\ epfd' = FALSE /\ pc' = "idle"
    BY <1>0, <1>4 DEF GetFdStep, MF!fdVars
<1>. QED
    BY <1>1, <1>2, <1>3, <1>4 DEF GetFdStep

\* the loop has passed every entry: the descriptor appears with exactly
\* the enabled entries registered
LEMMA GetFdDoneFdStep ==
    ASSUME FdInv, GetFdDone
    PROVE  [MF!Next]_MF!fdVars
<1>. USE DEF FdInv, WInv, TypeOK, FlagOK, ListOK, ControlOK
<1>1. it = Len(ents) + 1 /\ epfd
    BY DEF GetFdDone, LoopRegistered, CallHasFd
<1>2. \A x \in Entries : Listed(x) <=> \E j \in 1..Len(ents) : ents[j] = x
    BY DEF Listed, Range
<1>3. reg = {x \in Entries : enabled[x]}
    BY <1>1, <1>2 DEF GetFdDone, LoopRegistered, EnabledListed
<1>4. MF!GetDescriptor
    BY <1>1, <1>3 DEF GetFdDone, MF!GetDescriptor, MF!Running
<1>. QED
    BY <1>4 DEF MF!Next

\* reading events, reporting them, and the kernel leave the descriptor alone
LEMMA EventFdStep ==
    ASSUME FdInv,
           \/ ReadTimeout \/ EventCleanup \/ NextChange
           \/ \E e \in Entries : \/ ReadAccept(e) \/ ReadIgnore(e)
                                 \/ KernelChange(e) \/ KernelNoise(e)
    PROVE  UNCHANGED MF!fdVars
<1>. USE DEF FdInv, WInv, TypeOK, FlagOK, ListOK, ControlOK
<1>1. CASE ReadTimeout \/ EventCleanup \/ NextChange
    BY <1>1, MappedUnchanged DEF ReadTimeout, EventCleanup, NextChange
<1>2. ASSUME NEW e \in Entries,
             \/ ReadAccept(e) \/ ReadIgnore(e) \/ KernelChange(e) \/ KernelNoise(e)
      PROVE  UNCHANGED MF!fdVars
    BY <1>2, MappedUnchanged DEF ReadAccept, ReadIgnore, KernelChange, KernelNoise
<1>. QED
    BY <1>1, <1>2

LEMMA NextFdStep == FdInv /\ [Next]_vars => [MF!Next]_MF!fdVars
<1> SUFFICES ASSUME FdInv, [Next]_vars PROVE [MF!Next]_MF!fdVars
    OBVIOUS
<1>1. CASE NewMonitor \/ UnrefMonitor \/ RefMonitor
    BY <1>1, LifetimeFdStep
<1>2. ASSUME NEW e \in Entries, Enable(e) PROVE [MF!Next]_MF!fdVars
    BY <1>2, EnableFdStep
<1>3. CASE (\E e \in Entries : Disable(e)) \/ CloseFd
    BY <1>3, DisableFdStep
<1>4. CASE GetFd \/ \E t \in {"inf", "fin"} : Wait(t)
    BY <1>4, GetFdBeginFdStep
<1>5. CASE GetFdStep
    BY <1>5, GetFdStepFdStep
<1>6. CASE GetFdDone
    BY <1>6, GetFdDoneFdStep
<1>7. CASE \/ ReadTimeout \/ EventCleanup \/ NextChange
           \/ \E e \in Entries : \/ ReadAccept(e) \/ ReadIgnore(e)
                                 \/ KernelChange(e) \/ KernelNoise(e)
    BY <1>7, EventFdStep
<1>8. CASE UNCHANGED vars
    BY <1>8 DEF vars, MF!fdVars
<1>. QED
    BY <1>1, <1>2, <1>3, <1>4, <1>5, <1>6, <1>7, <1>8
    DEF Next, ApiCall, Internal, Kernel, CleanupNext

(* The monitor's calls, in any order and with mount-table changes and     *)
(* failures between the turns of mnt_monitor_get_fd's loop, implement the  *)
(* descriptor contract of the spec (ImplementsFdContract): a get_fd that   *)
(* returns has registered exactly the enabled entries, one that fails      *)
(* leaves no descriptor, enable registers at once, disable and close_fd    *)
(* remove synchronously.                                                    *)
THEOREM FdRefinement == Spec => ImplementsFdContract
<1>1. Init => FdInv /\ MF!Init
    BY InitFdInv DEF Init, MF!Init
<1>2. FdInv /\ [Next]_vars => FdInv' /\ [MF!Next]_MF!fdVars
    BY NextFdInv, NextFdStep
<1>. QED
    BY <1>1, <1>2, PTL DEF Spec, ImplementsFdContract, MF!Spec
=============================================================================
