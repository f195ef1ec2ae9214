--------------------------- MODULE MonitorProofs ---------------------------
(***************************************************************************)
(* Proofs about the monitor, for every set of entries and every bound:    *)
(* type correctness, and that no change notification is spurious.        *)
(***************************************************************************)
EXTENDS Monitor, LeastElement, TLAPS

(* get_active() finds an entry of the list when one is active. *)
LEMMA FirstActiveType ==
    ASSUME ents \in Seq(Entries), active \in [Entries -> BOOLEAN], HasActive
    PROVE  FirstActive \in Entries
<1>. DEFINE T == {i \in 1..Len(ents) : active[ents[i]]}
<1>1. T \subseteq Nat /\ T # {}
    BY DEF HasActive
<1>2. PICK m \in T : \A y \in T : m <= y
    BY <1>1, LeastNat
<1>3. /\ m \in 1..Len(ents)
      /\ active[ents[m]]
      /\ \A j \in 1..(m - 1) : ~active[ents[j]]
    BY <1>2
<1>4. \E i \in 1..Len(ents) : active[ents[i]] /\ \A j \in 1..(i - 1) : ~active[ents[j]]
    BY <1>3
<1>. QED
    BY <1>4 DEF FirstActive

-----------------------------------------------------------------------------
(* Type correctness *)

LEMMA InitTypeOK == Init => TypeOK
<1> SUFFICES ASSUME Init PROVE TypeOK
    OBVIOUS
<1>. USE ConstantsAssumption DEF Init
<1>1. ControlOK
    BY DEF ControlOK
<1>2. CounterOK
    BY DEF CounterOK
<1>3. ListOK
    BY DEF ListOK
<1>4. FlagOK
    BY DEF FlagOK
<1>5. PendOK
    BY DEF PendOK, PendValues
<1>. QED
    BY <1>1, <1>2, <1>3, <1>4, <1>5 DEF TypeOK

\* the drain and the initial edge keep pend a function to PendValues
LEMMA AddedPendType ==
    ASSUME PendOK, FlagOK, NEW e \in Entries
    PROVE  /\ AddedPend(e) \in [Entries -> PendValues]
           /\ Drained(AddedPend(e), reg \cup {e}) \in [Entries -> PendValues]
BY DEF PendOK, FlagOK, AddedPend, Drained, PendValues

LEMMA NextTypeOK == TypeOK /\ [Next]_vars => TypeOK'
<1> SUFFICES ASSUME TypeOK, [Next]_vars PROVE TypeOK'
    OBVIOUS
<1>. USE DEF TypeOK
<1>1. CASE NewMonitor
    <2>. USE <1>1 DEF NewMonitor, Released
    <2>1. ControlOK'
        BY ConstantsAssumption DEF ControlOK
    <2>2. CounterOK'
        BY ConstantsAssumption DEF CounterOK
    <2>3. ListOK'
        BY ConstantsAssumption DEF ListOK
    <2>4. FlagOK'
        BY ConstantsAssumption DEF FlagOK
    <2>6. PendOK'
        BY ConstantsAssumption DEF PendOK, PendValues
    <2>. QED
        BY <2>1, <2>2, <2>3, <2>4, <2>6 DEF TypeOK
<1>2. CASE RefMonitor
    <2>. USE <1>2 DEF RefMonitor
    <2>1. ControlOK'
        BY ConstantsAssumption DEF ControlOK
    <2>2. CounterOK'
        BY ConstantsAssumption DEF CounterOK
    <2>3. ListOK'
        BY ConstantsAssumption DEF ListOK
    <2>4. FlagOK'
        BY ConstantsAssumption DEF FlagOK
    <2>6. PendOK'
        BY ConstantsAssumption DEF PendOK, PendValues
    <2>. QED
        BY <2>1, <2>2, <2>3, <2>4, <2>6 DEF TypeOK
<1>3. CASE UnrefMonitor
    <2>1. CASE refcnt - 1 <= 0
        <3>. USE <1>3, <2>1 DEF UnrefMonitor, Released
        <3>1. ControlOK'
            BY ConstantsAssumption DEF ControlOK
        <3>2. CounterOK'
            BY ConstantsAssumption DEF CounterOK
        <3>3. ListOK'
            BY ConstantsAssumption DEF ListOK
        <3>4. FlagOK'
            BY ConstantsAssumption DEF FlagOK
        <3>6. PendOK'
            BY ConstantsAssumption DEF PendOK, PendValues
        <3>. QED
            BY <3>1, <3>2, <3>3, <3>4, <3>6 DEF TypeOK
    <2>2. CASE ~(refcnt - 1 <= 0)
        <3>. USE <1>3, <2>2 DEF UnrefMonitor
        <3>1. ControlOK'
            BY ConstantsAssumption DEF ControlOK
        <3>2. CounterOK'
            BY ConstantsAssumption DEF CounterOK
        <3>3. ListOK'
            BY ConstantsAssumption DEF ListOK
        <3>4. FlagOK'
            BY ConstantsAssumption DEF FlagOK
        <3>6. PendOK'
            BY ConstantsAssumption DEF PendOK, PendValues
        <3>. QED
            BY <3>1, <3>2, <3>3, <3>4, <3>6 DEF TypeOK
    <2>. QED
        BY <2>1, <2>2
<1>4. ASSUME NEW e \in Entries, Enable(e) PROVE TypeOK'
    <2>. USE <1>4 DEF Enable, RegisterOk, RegisterHang
    <2>1. ControlOK'
        BY AddedPendType, ConstantsAssumption DEF ControlOK
    <2>2. CounterOK'
        BY AddedPendType, ConstantsAssumption DEF CounterOK
    <2>3. ListOK'
        BY AddedPendType, ConstantsAssumption DEF ListOK
    <2>4. FlagOK'
        BY AddedPendType, ConstantsAssumption DEF FlagOK
    <2>6. PendOK'
        BY AddedPendType, ConstantsAssumption DEF PendOK, PendValues
    <2>. QED
        BY <2>1, <2>2, <2>3, <2>4, <2>6 DEF TypeOK
<1>5. ASSUME NEW e \in Entries, Disable(e) PROVE TypeOK'
    <2>. USE <1>5 DEF Disable
    <2>1. ControlOK'
        BY ConstantsAssumption DEF ControlOK
    <2>2. CounterOK'
        BY ConstantsAssumption DEF CounterOK
    <2>3. ListOK'
        BY ConstantsAssumption DEF ListOK
    <2>4. FlagOK'
        BY ConstantsAssumption DEF FlagOK
    <2>6. PendOK'
        BY ConstantsAssumption DEF PendOK, PendValues
    <2>. QED
        BY <2>1, <2>2, <2>3, <2>4, <2>6 DEF TypeOK
<1>6. CASE CloseFd
    <2>. USE <1>6 DEF CloseFd
    <2>1. ControlOK'
        BY ConstantsAssumption DEF ControlOK
    <2>2. CounterOK'
        BY ConstantsAssumption DEF CounterOK
    <2>3. ListOK'
        BY ConstantsAssumption DEF ListOK
    <2>4. FlagOK'
        BY ConstantsAssumption DEF FlagOK
    <2>6. PendOK'
        BY ConstantsAssumption DEF PendOK, PendValues
    <2>. QED
        BY <2>1, <2>2, <2>3, <2>4, <2>6 DEF TypeOK
<1>7. CASE GetFd
    <2>. USE <1>7 DEF GetFd, GetFdBegin
    <2>1. ControlOK'
        BY ConstantsAssumption DEF ControlOK
    <2>2. CounterOK'
        BY ConstantsAssumption DEF CounterOK
    <2>3. ListOK'
        BY ConstantsAssumption DEF ListOK
    <2>4. FlagOK'
        BY ConstantsAssumption DEF FlagOK
    <2>6. PendOK'
        BY ConstantsAssumption DEF PendOK, PendValues
    <2>. QED
        BY <2>1, <2>2, <2>3, <2>4, <2>6 DEF TypeOK
<1>8. ASSUME NEW t \in {"inf", "fin"}, Wait(t) PROVE TypeOK'
    <2>. USE <1>8 DEF Wait, GetFdBegin
    <2>1. ControlOK'
        BY ConstantsAssumption DEF ControlOK
    <2>2. CounterOK'
        BY ConstantsAssumption DEF CounterOK
    <2>3. ListOK'
        BY ConstantsAssumption DEF ListOK
    <2>4. FlagOK'
        BY ConstantsAssumption DEF FlagOK
    <2>6. PendOK'
        BY ConstantsAssumption DEF PendOK, PendValues
    <2>. QED
        BY <2>1, <2>2, <2>3, <2>4, <2>6 DEF TypeOK
<1>9. CASE NextChange
    <2>1. CASE HasActive
        <3>. USE <1>9, <2>1 DEF NextChange
        <3>0. FirstActive \in Entries
            BY FirstActiveType DEF ListOK, FlagOK
        <3>1. ControlOK'
            BY <3>0, ConstantsAssumption DEF ControlOK
        <3>2. CounterOK'
            BY <3>0, ConstantsAssumption DEF CounterOK
        <3>3. ListOK'
            BY <3>0, ConstantsAssumption DEF ListOK
        <3>4. FlagOK'
            BY <3>0, ConstantsAssumption DEF FlagOK
        <3>6. PendOK'
            BY <3>0, ConstantsAssumption DEF PendOK, PendValues
        <3>. QED
            BY <3>1, <3>2, <3>3, <3>4, <3>6 DEF TypeOK
    <2>2. CASE ~HasActive
        <3>. USE <1>9, <2>2 DEF NextChange
        <3>1. ControlOK'
            BY ConstantsAssumption DEF ControlOK
        <3>2. CounterOK'
            BY ConstantsAssumption DEF CounterOK
        <3>3. ListOK'
            BY ConstantsAssumption DEF ListOK
        <3>4. FlagOK'
            BY ConstantsAssumption DEF FlagOK
        <3>6. PendOK'
            BY ConstantsAssumption DEF PendOK, PendValues
        <3>. QED
            BY <3>1, <3>2, <3>3, <3>4, <3>6 DEF TypeOK
    <2>. QED
        BY <2>1, <2>2
<1>10. CASE EventCleanup
    <2>. USE <1>10 DEF EventCleanup
    <2>1. ControlOK'
        BY ConstantsAssumption DEF ControlOK
    <2>2. CounterOK'
        BY ConstantsAssumption DEF CounterOK
    <2>3. ListOK'
        BY ConstantsAssumption DEF ListOK
    <2>4. FlagOK'
        BY ConstantsAssumption DEF FlagOK
    <2>6. PendOK'
        BY ConstantsAssumption DEF PendOK, PendValues
    <2>. QED
        BY <2>1, <2>2, <2>3, <2>4, <2>6 DEF TypeOK
<1>11. CASE GetFdStep
    <2>. USE <1>11 DEF GetFdStep, RegisterOk, RegisterHang
    <2>0. ents[it] \in Entries
        BY DEF ListOK, ControlOK
    <2>5. /\ AddedPend(ents[it]) \in [Entries -> PendValues]
          /\ Drained(AddedPend(ents[it]), reg \cup {ents[it]}) \in [Entries -> PendValues]
        BY <2>0, AddedPendType
    <2>1. ControlOK'
        BY <2>0, <2>5, ConstantsAssumption DEF ControlOK
    <2>2. CounterOK'
        BY <2>0, <2>5, ConstantsAssumption DEF CounterOK
    <2>3. ListOK'
        BY <2>0, <2>5, ConstantsAssumption DEF ListOK
    <2>4. FlagOK'
        BY <2>0, <2>5, ConstantsAssumption DEF FlagOK
    <2>6. PendOK'
        BY <2>0, <2>5, ConstantsAssumption DEF PendOK, PendValues
    <2>. QED
        BY <2>1, <2>2, <2>3, <2>4, <2>6 DEF TypeOK
<1>12. CASE GetFdDone
    <2>. USE <1>12 DEF GetFdDone
    <2>1. ControlOK'
        BY ConstantsAssumption DEF ControlOK
    <2>2. CounterOK'
        BY ConstantsAssumption DEF CounterOK
    <2>3. ListOK'
        BY ConstantsAssumption DEF ListOK
    <2>4. FlagOK'
        BY ConstantsAssumption DEF FlagOK
    <2>6. PendOK'
        BY ConstantsAssumption DEF PendOK, PendValues
    <2>. QED
        BY <2>1, <2>2, <2>3, <2>4, <2>6 DEF TypeOK
<1>13. ASSUME NEW e \in Entries, ReadAccept(e) PROVE TypeOK'
    <2>. USE <1>13 DEF ReadAccept
    <2>1. ControlOK'
        BY ConstantsAssumption DEF ControlOK
    <2>2. CounterOK'
        BY ConstantsAssumption DEF CounterOK
    <2>3. ListOK'
        BY ConstantsAssumption DEF ListOK
    <2>4. FlagOK'
        BY ConstantsAssumption DEF FlagOK
    <2>6. PendOK'
        BY ConstantsAssumption DEF PendOK, PendValues
    <2>. QED
        BY <2>1, <2>2, <2>3, <2>4, <2>6 DEF TypeOK
<1>14. ASSUME NEW e \in Entries, ReadIgnore(e) PROVE TypeOK'
    <2>. USE <1>14 DEF ReadIgnore
    <2>1. ControlOK'
        BY ConstantsAssumption DEF ControlOK
    <2>2. CounterOK'
        BY ConstantsAssumption DEF CounterOK
    <2>3. ListOK'
        BY ConstantsAssumption DEF ListOK
    <2>4. FlagOK'
        BY ConstantsAssumption DEF FlagOK
    <2>6. PendOK'
        BY ConstantsAssumption DEF PendOK, PendValues
    <2>. QED
        BY <2>1, <2>2, <2>3, <2>4, <2>6 DEF TypeOK
<1>15. CASE ReadTimeout
    <2>. USE <1>15 DEF ReadTimeout
    <2>1. ControlOK'
        BY ConstantsAssumption DEF ControlOK
    <2>2. CounterOK'
        BY ConstantsAssumption DEF CounterOK
    <2>3. ListOK'
        BY ConstantsAssumption DEF ListOK
    <2>4. FlagOK'
        BY ConstantsAssumption DEF FlagOK
    <2>6. PendOK'
        BY ConstantsAssumption DEF PendOK, PendValues
    <2>. QED
        BY <2>1, <2>2, <2>3, <2>4, <2>6 DEF TypeOK
<1>16. ASSUME NEW e \in Entries, KernelChange(e) PROVE TypeOK'
    <2>. USE <1>16 DEF KernelChange
    <2>1. ControlOK'
        BY ConstantsAssumption DEF ControlOK
    <2>2. CounterOK'
        BY ConstantsAssumption DEF CounterOK
    <2>3. ListOK'
        BY ConstantsAssumption DEF ListOK
    <2>4. FlagOK'
        BY ConstantsAssumption DEF FlagOK
    <2>6. PendOK'
        BY ConstantsAssumption DEF PendOK, PendValues
    <2>. QED
        BY <2>1, <2>2, <2>3, <2>4, <2>6 DEF TypeOK
<1>17. ASSUME NEW e \in Entries, KernelNoise(e) PROVE TypeOK'
    <2>. USE <1>17 DEF KernelNoise
    <2>1. ControlOK'
        BY ConstantsAssumption DEF ControlOK
    <2>2. CounterOK'
        BY ConstantsAssumption DEF CounterOK
    <2>3. ListOK'
        BY ConstantsAssumption DEF ListOK
    <2>4. FlagOK'
        BY ConstantsAssumption DEF FlagOK
    <2>6. PendOK'
        BY ConstantsAssumption DEF PendOK, PendValues
    <2>. QED
        BY <2>1, <2>2, <2>3, <2>4, <2>6 DEF TypeOK
<1>18. CASE UNCHANGED vars
    <2>. USE <1>18 DEF vars
    <2>1. ControlOK'
        BY ConstantsAssumption DEF ControlOK
    <2>2. CounterOK'
        BY ConstantsAssumption DEF CounterOK
    <2>3. ListOK'
        BY ConstantsAssumption DEF ListOK
    <2>4. FlagOK'
        BY ConstantsAssumption DEF FlagOK
    <2>6. PendOK'
        BY ConstantsAssumption DEF PendOK, PendValues
    <2>. QED
        BY <2>1, <2>2, <2>3, <2>4, <2>6 DEF TypeOK
<1>. QED
    BY <1>1, <1>2, <1>3, <1>4, <1>5, <1>6, <1>7, <1>8, <1>9, <1>10, <1>11, <1>12, <1>13, <1>14, <1>15, <1>16, <1>17, <1>18
    DEF Next, ApiCall, Internal, Kernel, CleanupNext

(* Every reachable state is well typed. *)
THEOREM TypeCorrect == Spec => []TypeOK
BY InitTypeOK, NextTypeOK, PTL DEF Spec

-----------------------------------------------------------------------------
(* No spurious change notification.  NoSpuriousNotification is inductive *)
(* together with TypeOK: the only steps that make a notification pending *)
(* are a kernel change, which also sets fresh, and the registration in    *)
(* monitor_modify_epoll, whose drain loop removes the initial event that  *)
(* EPOLL_CTL_ADD queues on an edge-triggered descriptor.                   *)

IInv == TypeOK /\ NoSpuriousNotification

\* the registration of e makes no notification pending that was not
\* pending before: AddedPend's initial edge is consumed by Drained
LEMMA RegisterNoNewChange ==
    ASSUME PendOK, NEW e \in Entries, NEW x \in Entries,
           Drained(AddedPend(e), reg \cup {e})[x] = "change"
    PROVE  pend[x] = "change"
BY DEF PendOK, AddedPend, Drained

LEMMA InitIInv == Init => IInv
<1> SUFFICES ASSUME Init PROVE IInv
    OBVIOUS
<1>1. NoSpuriousNotification
    BY DEF Init, NoSpuriousNotification
<1>. QED
    BY <1>1, InitTypeOK DEF IInv

LEMMA NextIInv == IInv /\ [Next]_vars => IInv'
<1> SUFFICES ASSUME IInv, [Next]_vars PROVE IInv'
    OBVIOUS
<1>. USE DEF IInv
<1>1. TypeOK'
    BY NextTypeOK
<1>. SUFFICES NoSpuriousNotification'
    BY <1>1
<1>2. CASE pend' = pend /\ fresh' = fresh
    BY <1>2 DEF NoSpuriousNotification
<1>3. CASE NewMonitor \/ UnrefMonitor
    BY <1>3, <1>2 DEF NoSpuriousNotification, NewMonitor, UnrefMonitor, Released
<1>4. ASSUME NEW e \in Entries, Enable(e) PROVE NoSpuriousNotification'
    <2>. SUFFICES ASSUME NEW x \in Entries, pend'[x] = "change" PROVE fresh'[x]
        BY DEF NoSpuriousNotification
    <2>1. CASE pend' = pend
        BY <1>4, <2>1 DEF Enable, NoSpuriousNotification
    <2>2. CASE pend' = Drained(AddedPend(e), reg \cup {e})
        BY <1>4, <2>2, RegisterNoNewChange DEF Enable, NoSpuriousNotification, TypeOK
    <2>. QED
        BY <1>4, <2>1, <2>2 DEF Enable, RegisterOk, RegisterHang
<1>5. ASSUME NEW e \in Entries, Disable(e) PROVE NoSpuriousNotification'
    BY <1>5 DEF Disable, NoSpuriousNotification, TypeOK, FlagOK, PendOK
<1>6. CASE CloseFd
    BY <1>6 DEF CloseFd, NoSpuriousNotification
<1>7. CASE GetFdStep
    <2>. SUFFICES ASSUME NEW x \in Entries, pend'[x] = "change" PROVE fresh'[x]
        BY DEF NoSpuriousNotification
    <2>. DEFINE f == ents[it]
    <2>0. f \in Entries
        BY <1>7 DEF TypeOK, ListOK, ControlOK, GetFdStep
    <2>1. CASE pend' = pend
        BY <1>7, <2>1 DEF GetFdStep, NoSpuriousNotification
    <2>2. CASE pend' = Drained(AddedPend(f), reg \cup {f})
        BY <1>7, <2>0, <2>2, RegisterNoNewChange DEF GetFdStep, NoSpuriousNotification, TypeOK
    <2>. QED
        BY <1>7, <2>1, <2>2 DEF GetFdStep, RegisterOk, RegisterHang
<1>8. ASSUME NEW e \in Entries, ReadAccept(e) PROVE NoSpuriousNotification'
    BY <1>8 DEF ReadAccept, NoSpuriousNotification, TypeOK, FlagOK, PendOK
<1>9. ASSUME NEW e \in Entries, ReadIgnore(e) PROVE NoSpuriousNotification'
    BY <1>9 DEF ReadIgnore, NoSpuriousNotification, TypeOK, FlagOK, PendOK
<1>10. ASSUME NEW e \in Entries, KernelChange(e) PROVE NoSpuriousNotification'
    BY <1>10 DEF KernelChange, NoSpuriousNotification, TypeOK, FlagOK, PendOK
<1>11. ASSUME NEW e \in Entries, KernelNoise(e) PROVE NoSpuriousNotification'
    BY <1>11 DEF KernelNoise, NoSpuriousNotification, TypeOK, FlagOK, PendOK
<1>12. CASE RefMonitor \/ GetFd \/ (\E t \in {"inf", "fin"} : Wait(t)) \/ NextChange
           \/ EventCleanup \/ GetFdDone \/ ReadTimeout \/ UNCHANGED vars
    BY <1>12, <1>2 DEF RefMonitor, GetFd, GetFdBegin, Wait, NextChange, EventCleanup,
                      GetFdDone, ReadTimeout, vars
<1>. QED
    BY <1>3, <1>4, <1>5, <1>6, <1>7, <1>8, <1>9, <1>10, <1>11, <1>12
    DEF Next, ApiCall, Internal, Kernel, CleanupNext

(* No notification that mnt_monitor_next_change or mnt_monitor_wait can  *)
(* report is spurious: every pending change stands for a real change of  *)
(* the entry's mount table, in particular none is the initial event that *)
(* monitor_modify_epoll queues when it adds a mountinfo descriptor.       *)
THEOREM NoSpurious == Spec => []NoSpuriousNotification
<1>1. Spec => []IInv
    BY InitIInv, NextIInv, PTL DEF Spec
<1>. QED
    BY <1>1, PTL DEF IInv

-----------------------------------------------------------------------------
(* No stale entry is reported.  ActiveIsWatched needs two more facts to   *)
(* be inductive: every registered entry is enabled (the converse of the  *)
(* spec's section 3 invariant, which fails), and no entry is active while *)
(* the epoll descriptor is missing or being built, so that the failure   *)
(* path of mnt_monitor_get_fd, which empties the epoll set, and           *)
(* mnt_monitor_close_fd without a descriptor strand no active entry.      *)

RegisteredAreEnabled == \A e \in reg : enabled[e]

NoActiveWithoutFd == (~epfd \/ pc = "getfd") => \A e \in Entries : ~active[e]

\* the get_fd loop, read_epoll_events and the cleanup loop run on mn->fd
CallHasFd == pc \in {"getfd", "read", "cleanup"} => epfd

WInv == TypeOK /\ ActiveIsWatched /\ RegisteredAreEnabled /\ NoActiveWithoutFd /\ CallHasFd

LEMMA InitWInv == Init => WInv
<1> SUFFICES ASSUME Init PROVE WInv
    OBVIOUS
<1>1. ActiveIsWatched /\ RegisteredAreEnabled /\ NoActiveWithoutFd /\ CallHasFd
    BY DEF Init, ActiveIsWatched, RegisteredAreEnabled, NoActiveWithoutFd, CallHasFd
<1>. QED
    BY <1>1, InitTypeOK DEF WInv

LEMMA NextWInv == WInv /\ [Next]_vars => WInv'
<1> SUFFICES ASSUME WInv, [Next]_vars PROVE WInv'
    OBVIOUS
<1>. USE DEF WInv
<1>1. TypeOK'
    BY NextTypeOK
<1>. SUFFICES (ActiveIsWatched /\ RegisteredAreEnabled /\ NoActiveWithoutFd /\ CallHasFd)'
    BY <1>1
<1>. DEFINE W == ActiveIsWatched /\ RegisteredAreEnabled /\ NoActiveWithoutFd /\ CallHasFd
<1>. USE DEF TypeOK, FlagOK, ListOK
<1>2. CASE NewMonitor \/ UnrefMonitor
    BY <1>2 DEF NewMonitor, UnrefMonitor, Released, W, ActiveIsWatched,
                RegisteredAreEnabled, NoActiveWithoutFd, CallHasFd
<1>3. CASE RefMonitor \/ GetFdDone \/ ReadTimeout \/ EventCleanup \/ UNCHANGED vars
    BY <1>3 DEF RefMonitor, GetFdDone, ReadTimeout, EventCleanup, vars, W,
                ActiveIsWatched, RegisteredAreEnabled, NoActiveWithoutFd, CallHasFd
<1>4. ASSUME NEW e \in Entries, Enable(e) PROVE W'
    BY <1>4 DEF Enable, RegisterOk, RegisterHang, W, ActiveIsWatched,
                RegisteredAreEnabled, NoActiveWithoutFd, CallHasFd
<1>5. ASSUME NEW e \in Entries, Disable(e) PROVE W'
    BY <1>5 DEF Disable, W, ActiveIsWatched, RegisteredAreEnabled, NoActiveWithoutFd, CallHasFd
<1>6. CASE CloseFd
    BY <1>6 DEF CloseFd, W, ActiveIsWatched, RegisteredAreEnabled, NoActiveWithoutFd, CallHasFd
<1>7. CASE GetFd \/ \E t \in {"inf", "fin"} : Wait(t)
    BY <1>7 DEF GetFd, Wait, GetFdBegin, W, ActiveIsWatched, RegisteredAreEnabled,
                NoActiveWithoutFd, CallHasFd
<1>8. CASE GetFdStep
    <2>0. ents[it] \in Entries
        BY <1>8 DEF ControlOK, GetFdStep
    <2>. DEFINE f == ents[it]
    <2>1. CASE ~enabled[f]
        BY <1>8, <2>0, <2>1 DEF GetFdStep, W, ActiveIsWatched,
                                RegisteredAreEnabled, NoActiveWithoutFd, CallHasFd
    <2>2. CASE enabled[f] /\ (RegisterOk(f) \/ RegisterHang(f))
        BY <1>8, <2>0, <2>2 DEF GetFdStep, RegisterOk, RegisterHang, W, ActiveIsWatched,
                                RegisteredAreEnabled, NoActiveWithoutFd, CallHasFd
    <2>3. CASE enabled[f] /\ reg' = {} /\ epfd' = FALSE /\ pc' = "idle"
        BY <1>8, <2>0, <2>3 DEF GetFdStep, W, ActiveIsWatched,
                                RegisteredAreEnabled, NoActiveWithoutFd, CallHasFd
    <2>. QED
        BY <1>8, <2>1, <2>2, <2>3 DEF GetFdStep
<1>9. CASE NextChange
    <2>1. CASE HasActive
        <3>1. FirstActive \in Entries
            BY <2>1, FirstActiveType
        <3>. QED
            BY <1>9, <2>1, <3>1 DEF NextChange, W, ActiveIsWatched,
                                    RegisteredAreEnabled, NoActiveWithoutFd, CallHasFd
    <2>2. CASE ~HasActive
        BY <1>9, <2>2 DEF NextChange, W, ActiveIsWatched, RegisteredAreEnabled,
                          NoActiveWithoutFd, CallHasFd
    <2>. QED
        BY <2>1, <2>2
<1>10. ASSUME NEW e \in Entries, ReadAccept(e) PROVE W'
    BY <1>10 DEF ReadAccept, W, ActiveIsWatched, RegisteredAreEnabled, NoActiveWithoutFd, CallHasFd
<1>11. ASSUME NEW e \in Entries, ReadIgnore(e) \/ KernelChange(e) \/ KernelNoise(e)
       PROVE W'
    BY <1>11 DEF ReadIgnore, KernelChange, KernelNoise, W, ActiveIsWatched,
                 RegisteredAreEnabled, NoActiveWithoutFd, CallHasFd
<1>. QED
    BY <1>2, <1>3, <1>4, <1>5, <1>6, <1>7, <1>8, <1>9, <1>10, <1>11
    DEF Next, ApiCall, Internal, Kernel, CleanupNext, W

(* mnt_monitor_next_change never reports an entry that was disabled, or  *)
(* whose descriptor left the epoll set, after mnt_monitor_wait accepted   *)
(* its event: every active entry is enabled and registered.               *)
THEOREM ActiveWatched == Spec => []ActiveIsWatched
<1>1. Spec => []WInv
    BY InitWInv, NextWInv, PTL DEF Spec
<1>. QED
    BY <1>1, PTL DEF WInv
=============================================================================
