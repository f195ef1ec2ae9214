---------------------------- MODULE ZramProofs ----------------------------
(***************************************************************************)
(* Proofs about concurrent zramctl processes, for every set of processes, *)
(* of command lines and of devices: type correctness with the lock        *)
(* discipline of zram_lock() and zram_unlock() (TypeOK).                  *)
(***************************************************************************)
EXTENDS Zram, LeastElement, TLAPS

USE ZramAssumption

(* hot_add gives a device that did not exist, when one is free. *)
LEMMA FirstFreeType ==
    ASSUME exists \subseteq Dev, Dev \ exists # {}
    PROVE  FirstFree \in Dev \ exists
<1>1. Dev \ exists \subseteq Nat
    BY DEF Dev
<1>2. \E m \in Dev \ exists : \A k \in Dev \ exists : m <= k
    BY <1>1, LeastNat
<1>. QED
    BY <1>2 DEF FirstFree

-----------------------------------------------------------------------------
(* The frame of a step of process p that keeps its hands off the locks:   *)
(* it leaves holder and the other processes alone, does not enter or      *)
(* leave zram_unlock()'s pc, keeps the locked devices, and keeps optind   *)
(* past argv[0] in the reset loop.                                        *)
Moves(p) ==
    /\ pc' \in [Procs -> PC] /\ dev' \in [Procs -> Nat] /\ i' \in [Procs -> Nat]
    /\ \A q \in Procs \ {p} : pc'[q] = pc[q] /\ dev'[q] = dev[q] /\ i'[q] = i[q]
    /\ pc[p] # "unlock" /\ pc'[p] # "unlock"
    /\ \A q \in Procs \ {p} : pc[q] = "unlock" => dev[q] \in exists'
    /\ pc'[p] \in {"rnext", "remove"} => Cmd[p].act = "reset"
    /\ Cmd[p].act = "reset" /\ pc'[p] # "start" => i'[p] >= 1

LEMMA LockFrame ==
    ASSUME TypeOK, NEW p \in Procs, holder' = holder, Moves(p)
    PROVE  LockOK'
<1>1. ASSUME NEW d \in Dev, holder'[d] # NoProc
      PROVE  pc'[holder'[d]] = "unlock" /\ dev'[holder'[d]] = d
    <2>1. holder[d] \in Procs /\ pc[holder[d]] = "unlock" /\ dev[holder[d]] = d
        BY <1>1 DEF TypeOK, KernelOK, LockOK
    <2>2. holder[d] # p
        BY <2>1 DEF Moves
    <2>. QED
        BY <2>1, <2>2 DEF Moves
<1>2. ASSUME NEW q \in Procs, pc'[q] = "unlock"
      PROVE  dev'[q] \in exists' /\ holder'[dev'[q]] = q
    <2>1. q # p /\ pc[q] = "unlock"
        BY <1>2 DEF Moves
    <2>. QED
        BY <2>1 DEF TypeOK, LockOK, Moves
<1>3. ASSUME NEW q \in Procs, Cmd[q].act = "reset", pc'[q] # "start"
      PROVE  i'[q] >= 1
    BY <1>3 DEF TypeOK, LockOK, Moves
<1>4. ASSUME NEW q \in Procs, pc'[q] \in {"rnext", "remove"}
      PROVE  Cmd[q].act = "reset"
    BY <1>4 DEF TypeOK, LockOK, Moves
<1>. QED
    BY <1>1, <1>2, <1>3, <1>4 DEF LockOK

(* A failing step of the set-up, Failed(p), keeps the type and the locks. *)
LEMMA FailedTypeOK ==
    ASSUME TypeOK, NEW p \in Procs, Failed(p),
           pc[p] \in PC \ {"start", "unlock"},
           UNCHANGED <<kVars, dev, i, out>>
    PROVE  TypeOK'
<1>. USE DEF kVars
<1>1. KernelOK'
    BY DEF TypeOK, KernelOK
<1>2. CASE Cmd[p].act = "reset"
    <2>0. /\ pc' = [pc EXCEPT ![p] = "remove"] /\ rc' = [rc EXCEPT ![p] = 1]
          /\ UNCHANGED exit
        BY <1>2 DEF Failed
    <2>1. ProcOK'
        BY <2>0 DEF TypeOK, ProcOK, PC
    <2>2. Moves(p)
        BY <1>2, <2>0 DEF TypeOK, ProcOK, LockOK, PC, Moves
    <2>. QED
        BY <1>1, <2>1, <2>2, LockFrame DEF TypeOK
<1>3. CASE Cmd[p].act # "reset"
    <2>0. /\ pc' = [pc EXCEPT ![p] = "done"] /\ exit' = [exit EXCEPT ![p] = "failure"]
          /\ UNCHANGED rc
        BY <1>3 DEF Failed, Finish
    <2>1. ProcOK'
        BY <2>0 DEF TypeOK, ProcOK, PC
    <2>2. Moves(p)
        BY <2>0, <1>3 DEF TypeOK, ProcOK, LockOK, PC, Moves
    <2>. QED
        BY <1>1, <2>1, <2>2, LockFrame DEF TypeOK
<1>. QED
    BY <1>2, <1>3

-----------------------------------------------------------------------------
(* Type correctness: the initial states, and the start of main() *)

LEMMA InitTypeOK == Init => TypeOK
<1>. SUFFICES ASSUME Init PROVE TypeOK
    OBVIOUS
<1>1. KernelOK
    BY DEF Init, KernelOK
<1>2. ProcOK
    BY DEF Init, ProcOK, PC
<1>3. LockOK
    BY DEF Init, LockOK
<1>. QED
    BY <1>1, <1>2, <1>3 DEF TypeOK

LEMMA StartFindTypeOK ==
    ASSUME TypeOK, NEW p \in Procs, StartFind(p) PROVE TypeOK'
<1>. USE DEF StartFind, kVars
<1>1. KernelOK'
    BY DEF TypeOK, KernelOK
<1>2. ProcOK'
    BY DEF TypeOK, ProcOK, PC
<1>3. Moves(p)
    BY DEF TypeOK, ProcOK, LockOK, PC, Moves
<1>. QED
    BY <1>1, <1>2, <1>3, LockFrame DEF TypeOK

LEMMA StartCreateTypeOK ==
    ASSUME TypeOK, NEW p \in Procs, StartCreate(p) PROVE TypeOK'
<1>. USE DEF StartCreate, kVars
<1>1. KernelOK'
    BY DEF TypeOK, KernelOK
<1>2. CASE Cmd[p].devs = << >>
    <2>0. /\ pc' = [pc EXCEPT ![p] = "done"] /\ exit' = [exit EXCEPT ![p] = "failure"]
          /\ UNCHANGED <<exists, dev, i>>
        BY <1>2 DEF Finish
    <2>1. ProcOK'
        BY <2>0 DEF TypeOK, ProcOK, PC
    <2>2. Moves(p)
        BY <2>0 DEF TypeOK, ProcOK, LockOK, PC, Moves
    <2>. QED
        BY <1>1, <2>1, <2>2, LockFrame DEF TypeOK
<1>3. CASE Cmd[p].devs # << >>
    <2>1. Cmd[p].devs[1] \in Nat
        BY <1>3 DEF Command, Dev
    <2>2. CASE Cmd[p].devs[1] \in exists
        <3>0. /\ pc' = [pc EXCEPT ![p] = "wait"] /\ dev' = [dev EXCEPT ![p] = Cmd[p].devs[1]]
              /\ UNCHANGED <<exists, i, exit>>
            BY <1>3, <2>2
        <3>1. ProcOK'
            BY <2>1, <3>0 DEF TypeOK, ProcOK, PC
        <3>2. Moves(p)
            BY <2>1, <3>0 DEF TypeOK, ProcOK, LockOK, PC, Moves
        <3>. QED
            BY <1>1, <3>1, <3>2, LockFrame DEF TypeOK
    <2>3. CASE Cmd[p].devs[1] \notin exists
        <3>0. /\ pc' = [pc EXCEPT ![p] = "done"] /\ dev' = [dev EXCEPT ![p] = Cmd[p].devs[1]]
              /\ exit' = [exit EXCEPT ![p] = "failure"] /\ UNCHANGED <<exists, i>>
            BY <1>3, <2>3 DEF Finish
        <3>1. ProcOK'
            BY <2>1, <3>0 DEF TypeOK, ProcOK, PC
        <3>2. Moves(p)
            BY <2>1, <3>0 DEF TypeOK, ProcOK, LockOK, PC, Moves
        <3>. QED
            BY <1>1, <3>1, <3>2, LockFrame DEF TypeOK
    <2>. QED
        BY <2>2, <2>3
<1>. QED
    BY <1>2, <1>3

LEMMA StartResetTypeOK ==
    ASSUME TypeOK, NEW p \in Procs, StartReset(p) PROVE TypeOK'
<1>. USE DEF StartReset, kVars
<1>1. KernelOK'
    BY DEF TypeOK, KernelOK
<1>2. CASE Cmd[p].devs = << >>
    <2>0. /\ pc' = [pc EXCEPT ![p] = "done"] /\ exit' = [exit EXCEPT ![p] = "failure"]
          /\ i' = [i EXCEPT ![p] = 1] /\ UNCHANGED <<exists, dev>>
        BY <1>2 DEF Finish
    <2>1. ProcOK'
        BY <2>0 DEF TypeOK, ProcOK, PC
    <2>2. Moves(p)
        BY <2>0 DEF TypeOK, ProcOK, LockOK, PC, Moves
    <2>. QED
        BY <1>1, <2>1, <2>2, LockFrame DEF TypeOK
<1>3. CASE Cmd[p].devs # << >>
    <2>0. pc' = [pc EXCEPT ![p] = "rnext"] /\ i' = [i EXCEPT ![p] = 1] /\ UNCHANGED <<exists, dev, exit>>
        BY <1>3
    <2>1. ProcOK'
        BY <2>0 DEF TypeOK, ProcOK, PC
    <2>2. Moves(p)
        BY <2>0 DEF TypeOK, ProcOK, LockOK, PC, Moves
    <2>. QED
        BY <1>1, <2>1, <2>2, LockFrame DEF TypeOK
<1>. QED
    BY <1>2, <1>3

LEMMA StatusTypeOK ==
    ASSUME TypeOK, NEW p \in Procs, Status(p) PROVE TypeOK'
<1>. USE DEF Status, kVars
<1>1. KernelOK'
    BY DEF TypeOK, KernelOK
<1>2. pc' = [pc EXCEPT ![p] = "done"] /\ exit' \in [Procs -> {"running", "success", "failure"}]
    BY DEF TypeOK, ProcOK, Finish
<1>3. out' \in [Procs -> SUBSET Nat]
    <2>1. Cmd[p].devs # << >> => Cmd[p].devs[1] \in Nat
        BY DEF Command, Dev
    <2>2. exists \subseteq Nat
        BY DEF TypeOK, KernelOK, Dev
    <2>3. {d \in exists : Used(d)} \subseteq Nat
        BY <2>2
    <2>. QED
        BY <2>1, <2>3 DEF TypeOK, ProcOK
<1>4. ProcOK'
    BY <1>2, <1>3 DEF TypeOK, ProcOK, PC
<1>5. Moves(p)
    BY <1>2 DEF TypeOK, ProcOK, LockOK, PC, Moves
<1>. QED
    BY <1>1, <1>4, <1>5, LockFrame DEF TypeOK
-----------------------------------------------------------------------------
(* Type correctness of find_free_zram() *)

LEMMA FindStepTypeOK ==
    ASSUME TypeOK, NEW p \in Procs, FindStep(p) PROVE TypeOK'
<1>. DEFINE n == i[p]
<1>. USE DEF kVars
<1>0. n \in Nat /\ pc[p] = "find"
    BY DEF FindStep, TypeOK, ProcOK
<1>1. CASE n \in exists
    <2>0. /\ pc' = [pc EXCEPT ![p] = "used"] /\ dev' = [dev EXCEPT ![p] = n]
          /\ UNCHANGED <<kVars, i, rc, exit, out>>
        BY <1>1 DEF FindStep
    <2>1. KernelOK'
        BY <2>0 DEF TypeOK, KernelOK
    <2>2. ProcOK'
        BY <1>0, <2>0 DEF TypeOK, ProcOK, PC
    <2>3. Moves(p)
        BY <1>0, <2>0 DEF TypeOK, ProcOK, LockOK, PC, Moves
    <2>. QED
        BY <2>0, <2>1, <2>2, <2>3, LockFrame DEF TypeOK
<1>2. CASE n \notin exists /\ ~hasControl
    <2>0. /\ pc' = [pc EXCEPT ![p] = "done"] /\ exit' = [exit EXCEPT ![p] = "failure"]
          /\ UNCHANGED <<kVars, dev, i, rc, out>>
        BY <1>2 DEF FindStep, Finish
    <2>1. KernelOK'
        BY <2>0 DEF TypeOK, KernelOK
    <2>2. ProcOK'
        BY <1>0, <2>0 DEF TypeOK, ProcOK, PC
    <2>3. Moves(p)
        BY <1>0, <2>0 DEF TypeOK, ProcOK, LockOK, PC, Moves
    <2>. QED
        BY <2>0, <2>1, <2>2, <2>3, LockFrame DEF TypeOK
<1>3. CASE n \notin exists /\ hasControl
    <2>1. CASE Dev \ exists # {} /\ exists' = exists \cup {FirstFree}
        <3>1. FirstFree \in Dev \ exists
            BY <2>1, FirstFreeType DEF TypeOK, KernelOK
        <3>0. /\ pc' = [pc EXCEPT ![p] = "used"] /\ dev' = [dev EXCEPT ![p] = FirstFree]
              /\ uevq' = uevq \cup {FirstFree}
              /\ UNCHANGED <<owner, algOf, inited, udevOpen, holder, i, rc, exit, out>>
            BY <1>3, <2>1, <3>1 DEF FindStep
        <3>2. KernelOK'
            BY <2>1, <3>0, <3>1 DEF TypeOK, KernelOK
        <3>3. ProcOK'
            BY <1>0, <3>0, <3>1 DEF TypeOK, ProcOK, PC, Dev
        <3>4. Moves(p)
            BY <1>0, <2>1, <3>0, <3>1 DEF TypeOK, ProcOK, LockOK, PC, Moves, Dev
        <3>. QED
            BY <3>0, <3>2, <3>3, <3>4, LockFrame DEF TypeOK
    <2>2. CASE ~(Dev \ exists # {} /\ exists' = exists \cup {FirstFree})
        <3>0. /\ pc' = [pc EXCEPT ![p] = "used"] /\ dev' = [dev EXCEPT ![p] = n]
              /\ UNCHANGED <<kVars, i, rc, exit, out>>
            BY <1>3, <2>2 DEF FindStep
        <3>1. KernelOK'
            BY <3>0 DEF TypeOK, KernelOK
        <3>2. ProcOK'
            BY <1>0, <3>0 DEF TypeOK, ProcOK, PC
        <3>3. Moves(p)
            BY <1>0, <3>0 DEF TypeOK, ProcOK, LockOK, PC, Moves
        <3>. QED
            BY <3>0, <3>1, <3>2, <3>3, LockFrame DEF TypeOK
    <2>. QED
        BY <2>1, <2>2
<1>. QED
    BY <1>1, <1>2, <1>3

LEMMA FindUsedTypeOK ==
    ASSUME TypeOK, NEW p \in Procs, FindUsed(p) PROVE TypeOK'
<1>. USE DEF kVars
<1>0. pc[p] = "used" /\ dev[p] \in Nat /\ i[p] \in Nat
    BY DEF FindUsed, TypeOK, ProcOK
<1>1. CASE Used(dev[p])
    <2>0. /\ pc' = [pc EXCEPT ![p] = "find"] /\ i' = [i EXCEPT ![p] = i[p] + 1]
          /\ UNCHANGED <<kVars, dev, rc, exit, out>>
        BY <1>1 DEF FindUsed, FindSkip
    <2>1. KernelOK'
        BY <2>0 DEF TypeOK, KernelOK
    <2>2. ProcOK'
        BY <1>0, <2>0 DEF TypeOK, ProcOK, PC
    <2>3. Moves(p)
        BY <1>0, <2>0 DEF TypeOK, ProcOK, LockOK, PC, Moves
    <2>. QED
        BY <2>0, <2>1, <2>2, <2>3, LockFrame DEF TypeOK
<1>2. CASE ~Used(dev[p]) /\ Cmd[p].act = "findonly"
    <2>0. /\ pc' = [pc EXCEPT ![p] = "done"] /\ exit' = [exit EXCEPT ![p] = "success"]
          /\ out' = [out EXCEPT ![p] = {dev[p]}] /\ dev' = [dev EXCEPT ![p] = dev[p]]
          /\ UNCHANGED <<kVars, i, rc>>
        BY <1>2 DEF FindUsed, Found, Finish
    <2>1. KernelOK'
        BY <2>0 DEF TypeOK, KernelOK
    <2>2. ProcOK'
        BY <1>0, <2>0 DEF TypeOK, ProcOK, PC
    <2>3. Moves(p)
        BY <1>0, <2>0 DEF TypeOK, ProcOK, LockOK, PC, Moves
    <2>. QED
        BY <2>0, <2>1, <2>2, <2>3, LockFrame DEF TypeOK
<1>3. CASE ~Used(dev[p]) /\ Cmd[p].act # "findonly"
    <2>0. /\ pc' = [pc EXCEPT ![p] = "wait"] /\ dev' = [dev EXCEPT ![p] = dev[p]]
          /\ UNCHANGED <<kVars, i, rc, exit, out>>
        BY <1>3 DEF FindUsed, Found
    <2>1. KernelOK'
        BY <2>0 DEF TypeOK, KernelOK
    <2>2. ProcOK'
        BY <1>0, <2>0 DEF TypeOK, ProcOK, PC
    <2>3. Moves(p)
        BY <1>0, <2>0 DEF TypeOK, ProcOK, LockOK, PC, Moves
    <2>. QED
        BY <2>0, <2>1, <2>2, <2>3, LockFrame DEF TypeOK
<1>. QED
    BY <1>1, <1>2, <1>3
-----------------------------------------------------------------------------
(* Type correctness of zram_wait_initialized(), zram_lock(), zram_unlock() *)

LEMMA WaitCheckTypeOK ==
    ASSUME TypeOK, NEW p \in Procs, WaitCheck(p) PROVE TypeOK'
<1>. USE DEF kVars
<1>0. pc[p] = "wait"
    BY DEF WaitCheck
<1>1. CASE dev[p] \notin exists
    <2>1. Failed(p) /\ UNCHANGED <<kVars, dev, i, out>>
        BY <1>1 DEF WaitCheck
    <2>. QED
        BY <1>0, <2>1, FailedTypeOK DEF PC
<1>2. CASE dev[p] \in exists
    <2>0. /\ \E x \in {"lock", "waitev"} : pc' = [pc EXCEPT ![p] = x]
          /\ UNCHANGED <<kVars, dev, i, rc, exit, out>>
        BY <1>2 DEF WaitCheck
    <2>1. KernelOK'
        BY <2>0 DEF TypeOK, KernelOK
    <2>2. ProcOK'
        BY <1>0, <2>0 DEF TypeOK, ProcOK, PC
    <2>3. Moves(p)
        BY <1>0, <2>0 DEF TypeOK, ProcOK, LockOK, PC, Moves
    <2>. QED
        BY <2>0, <2>1, <2>2, <2>3, LockFrame DEF TypeOK
<1>. QED
    BY <1>1, <1>2

LEMMA WaitEventTypeOK ==
    ASSUME TypeOK, NEW p \in Procs, WaitEvent(p) PROVE TypeOK'
<1>. USE DEF kVars
<1>0. /\ pc[p] = "waitev" /\ pc' = [pc EXCEPT ![p] = "lock"]
      /\ UNCHANGED <<kVars, dev, i, rc, exit, out>>
    BY DEF WaitEvent
<1>1. KernelOK'
    BY <1>0 DEF TypeOK, KernelOK
<1>2. ProcOK'
    BY <1>0 DEF TypeOK, ProcOK, PC
<1>3. Moves(p)
    BY <1>0 DEF TypeOK, ProcOK, LockOK, PC, Moves
<1>. QED
    BY <1>0, <1>1, <1>2, <1>3, LockFrame DEF TypeOK

LEMMA WaitTimeoutTypeOK ==
    ASSUME TypeOK, NEW p \in Procs, WaitTimeout(p) PROVE TypeOK'
BY FailedTypeOK DEF WaitTimeout, PC

LEMMA LockTypeOK ==
    ASSUME TypeOK, NEW p \in Procs, Lock(p) PROVE TypeOK'
<1>. DEFINE d == dev[p]
<1>. USE DEF kVars
<1>0. pc[p] = "lock"
    BY DEF Lock
<1>1. CASE d \notin exists \/ Opened(d)
    <2>1. Failed(p) /\ UNCHANGED <<kVars, dev, i, out>>
        BY <1>1 DEF Lock
    <2>. QED
        BY <1>0, <2>1, FailedTypeOK DEF PC
<1>2. CASE d \in exists /\ ~Opened(d)
    <2>0. /\ holder' = [holder EXCEPT ![d] = p] /\ pc' = [pc EXCEPT ![p] = "unlock"]
          /\ UNCHANGED <<exists, owner, algOf, inited, uevq, udevOpen, dev, i, rc, exit, out>>
        BY <1>2 DEF Lock
    <2>1. d \in Dev /\ holder[d] = NoProc
        BY <1>2 DEF TypeOK, KernelOK, Opened
    <2>2. KernelOK'
        BY <2>0, <2>1 DEF TypeOK, KernelOK
    <2>3. ProcOK'
        BY <2>0 DEF TypeOK, ProcOK, PC
    <2>4. \A q \in Procs : q # p /\ pc[q] = "unlock" => dev[q] # d
        BY <2>1 DEF TypeOK, LockOK
    <2>5. \A e \in Dev : holder[e] # p
        BY <1>0 DEF TypeOK, LockOK
    <2>6. LockOK'
        <3>1. ASSUME NEW e \in Dev, holder'[e] # NoProc
              PROVE  pc'[holder'[e]] = "unlock" /\ dev'[holder'[e]] = e
            BY <2>0, <2>1, <2>5, <3>1 DEF TypeOK, KernelOK, ProcOK, LockOK
        <3>2. ASSUME NEW q \in Procs, pc'[q] = "unlock"
              PROVE  dev'[q] \in exists' /\ holder'[dev'[q]] = q
            BY <1>2, <2>0, <2>1, <2>4, <3>2 DEF TypeOK, KernelOK, ProcOK, LockOK
        <3>3. ASSUME NEW q \in Procs, Cmd[q].act = "reset", pc'[q] # "start"
              PROVE  i'[q] >= 1
            BY <1>0, <2>0, <3>3 DEF TypeOK, ProcOK, LockOK
        <3>4. ASSUME NEW q \in Procs, pc'[q] \in {"rnext", "remove"}
              PROVE  Cmd[q].act = "reset"
            BY <1>0, <2>0, <3>4 DEF TypeOK, ProcOK, LockOK
        <3>. QED
            BY <3>1, <3>2, <3>3, <3>4 DEF LockOK
    <2>. QED
        BY <2>2, <2>3, <2>6 DEF TypeOK
<1>. QED
    BY <1>1, <1>2

LEMMA UnlockTypeOK ==
    ASSUME TypeOK, NEW p \in Procs, Unlock(p) PROVE TypeOK'
<1>. DEFINE d == dev[p]
<1>0. /\ pc[p] = "unlock"
      /\ holder' = [holder EXCEPT ![d] = NoProc] /\ pc' = [pc EXCEPT ![p] = "reset"]
      /\ UNCHANGED <<exists, owner, algOf, inited, uevq, udevOpen, dev, i, rc, exit, out>>
    BY DEF Unlock
<1>1. d \in exists /\ d \in Dev /\ holder[d] = p
    BY <1>0 DEF TypeOK, KernelOK, LockOK
<1>2. KernelOK'
    BY <1>0, <1>1 DEF TypeOK, KernelOK
<1>3. ProcOK'
    BY <1>0 DEF TypeOK, ProcOK, PC
<1>4. LockOK'
    <2>1. ASSUME NEW e \in Dev, holder'[e] # NoProc
          PROVE  pc'[holder'[e]] = "unlock" /\ dev'[holder'[e]] = e
        <3>1. e # d /\ holder'[e] = holder[e]
            BY <1>0, <1>1, <2>1 DEF TypeOK, KernelOK
        <3>2. holder[e] # p
            BY <1>0, <3>1 DEF TypeOK, LockOK
        <3>. QED
            BY <1>0, <3>1, <3>2, <2>1 DEF TypeOK, KernelOK, LockOK
    <2>2. ASSUME NEW q \in Procs, pc'[q] = "unlock"
          PROVE  dev'[q] \in exists' /\ holder'[dev'[q]] = q
        <3>1. q # p /\ pc[q] = "unlock"
            BY <1>0, <2>2 DEF TypeOK, ProcOK
        <3>2. dev[q] # d
            BY <1>1, <3>1 DEF TypeOK, LockOK
        <3>. QED
            BY <1>0, <1>1, <3>1, <3>2 DEF TypeOK, KernelOK, LockOK
    <2>3. ASSUME NEW q \in Procs, Cmd[q].act = "reset", pc'[q] # "start"
          PROVE  i'[q] >= 1
        BY <1>0, <2>3 DEF TypeOK, ProcOK, LockOK
    <2>4. ASSUME NEW q \in Procs, pc'[q] \in {"rnext", "remove"}
          PROVE  Cmd[q].act = "reset"
        BY <1>0, <2>4 DEF TypeOK, ProcOK, LockOK
    <2>. QED
        BY <2>1, <2>2, <2>3, <2>4 DEF LockOK
<1>. QED
    BY <1>2, <1>3, <1>4 DEF TypeOK
-----------------------------------------------------------------------------
(* Type correctness of the sysfs writes *)

LEMMA WriteResetTypeOK ==
    ASSUME TypeOK, NEW p \in Procs, WriteReset(p) PROVE TypeOK'
<1>. DEFINE d == dev[p]
<1>. USE DEF kVars
<1>0. pc[p] = "reset"
    BY DEF WriteReset
<1>1. CASE d \notin exists \/ Opened(d)
    <2>1. Failed(p) /\ UNCHANGED <<kVars, dev, i, out>>
        BY <1>1 DEF WriteReset
    <2>. QED
        BY <1>0, <2>1, FailedTypeOK DEF PC
<1>2. CASE ~(d \notin exists \/ Opened(d))
    <2>. DEFINE x == IF Cmd[p].act = "reset" THEN "remove"
                     ELSE IF Cmd[p].alg THEN "alg" ELSE "disksize"
    <2>a. /\ owner' = [owner EXCEPT ![d] = NoProc] /\ algOf' = [algOf EXCEPT ![d] = NoProc]
          /\ uevq' = IF owner[d] # NoProc THEN uevq \cup {d} ELSE uevq
          /\ pc' = [pc EXCEPT ![p] = x]
          /\ UNCHANGED <<exists, inited, udevOpen, holder, dev, i, rc, exit, out>>
        BY <1>2 DEF WriteReset
    <2>b. x \in {"remove", "alg", "disksize"} /\ (Cmd[p].act = "reset" <=> x = "remove")
        OBVIOUS
    <2>0. /\ owner' = [owner EXCEPT ![d] = NoProc] /\ algOf' = [algOf EXCEPT ![d] = NoProc]
          /\ uevq' \subseteq uevq \cup {d}
          /\ pc' = [pc EXCEPT ![p] = x]
          /\ UNCHANGED <<exists, inited, udevOpen, holder, dev, i, rc, exit, out>>
        BY <2>a
    <2>1. d \in Dev
        BY <1>2 DEF TypeOK, KernelOK
    <2>2. KernelOK'
        BY <2>0, <2>1 DEF TypeOK, KernelOK
    <2>3. ProcOK'
        BY <2>0, <2>b DEF TypeOK, ProcOK, PC
    <2>4. Moves(p)
        BY <1>0, <2>0, <2>b DEF TypeOK, ProcOK, LockOK, PC, Moves
    <2>. QED
        BY <2>0, <2>2, <2>3, <2>4, LockFrame DEF TypeOK
<1>. QED
    BY <1>1, <1>2

LEMMA WriteAlgTypeOK ==
    ASSUME TypeOK, NEW p \in Procs, WriteAlg(p) PROVE TypeOK'
<1>. DEFINE d == dev[p]
<1>. USE DEF kVars
<1>0. pc[p] = "alg"
    BY DEF WriteAlg
<1>1. CASE d \notin exists \/ owner[d] # NoProc
    <2>1. Failed(p) /\ UNCHANGED <<kVars, dev, i, out>>
        BY <1>1 DEF WriteAlg
    <2>. QED
        BY <1>0, <2>1, FailedTypeOK DEF PC
<1>2. CASE ~(d \notin exists \/ owner[d] # NoProc)
    <2>0. /\ algOf' = [algOf EXCEPT ![d] = p] /\ pc' = [pc EXCEPT ![p] = "disksize"]
          /\ UNCHANGED <<exists, owner, inited, uevq, udevOpen, holder, dev, i, rc, exit, out>>
        BY <1>2 DEF WriteAlg
    <2>1. d \in Dev
        BY <1>2 DEF TypeOK, KernelOK
    <2>2. KernelOK'
        BY <2>0, <2>1 DEF TypeOK, KernelOK
    <2>3. ProcOK'
        BY <2>0 DEF TypeOK, ProcOK, PC
    <2>4. Moves(p)
        BY <1>0, <2>0 DEF TypeOK, ProcOK, LockOK, PC, Moves
    <2>. QED
        BY <2>0, <2>2, <2>3, <2>4, LockFrame DEF TypeOK
<1>. QED
    BY <1>1, <1>2

LEMMA WriteDisksizeTypeOK ==
    ASSUME TypeOK, NEW p \in Procs, WriteDisksize(p) PROVE TypeOK'
<1>. DEFINE d == dev[p]
<1>. USE DEF kVars
<1>0. pc[p] = "disksize"
    BY DEF WriteDisksize
<1>1. CASE d \notin exists \/ owner[d] # NoProc
    <2>1. Failed(p) /\ UNCHANGED <<kVars, dev, i, out>>
        BY <1>1 DEF WriteDisksize
    <2>. QED
        BY <1>0, <2>1, FailedTypeOK DEF PC
<1>2. CASE ~(d \notin exists \/ owner[d] # NoProc)
    <2>0. /\ owner' = [owner EXCEPT ![d] = p] /\ uevq' = uevq \cup {d}
          /\ out' = [out EXCEPT ![p] = IF Cmd[p].find THEN {d} ELSE {}]
          /\ pc' = [pc EXCEPT ![p] = "done"] /\ exit' = [exit EXCEPT ![p] = "success"]
          /\ UNCHANGED <<exists, algOf, inited, udevOpen, holder, dev, i, rc>>
        BY <1>2 DEF WriteDisksize, Finish
    <2>1. d \in Dev
        BY <1>2 DEF TypeOK, KernelOK
    <2>2. KernelOK'
        BY <2>0, <2>1 DEF TypeOK, KernelOK
    <2>3. ProcOK'
        BY <2>0, <2>1 DEF TypeOK, ProcOK, PC, Dev
    <2>4. Moves(p)
        BY <1>0, <2>0 DEF TypeOK, ProcOK, LockOK, PC, Moves
    <2>. QED
        BY <2>0, <2>2, <2>3, <2>4, LockFrame DEF TypeOK
<1>. QED
    BY <1>1, <1>2
-----------------------------------------------------------------------------
(* Type correctness of the reset loop and of udevd *)

LEMMA ResetNextTypeOK ==
    ASSUME TypeOK, NEW p \in Procs, ResetNext(p) PROVE TypeOK'
<1>. USE DEF kVars
<1>0. pc[p] = "rnext" /\ Cmd[p].act = "reset" /\ i[p] \in Nat /\ i[p] >= 1
    BY DEF ResetNext, TypeOK, ProcOK, LockOK
<1>1. CASE i[p] <= Len(Cmd[p].devs)
    <2>. DEFINE d == Cmd[p].devs[i[p]]
    <2>1. d \in Nat
        BY <1>0, <1>1 DEF Command, Dev
    <2>2. CASE d \in exists
        <3>0. /\ pc' = [pc EXCEPT ![p] = "wait"] /\ dev' = [dev EXCEPT ![p] = d]
              /\ UNCHANGED <<kVars, i, rc, exit, out>>
            BY <1>1, <2>2 DEF ResetNext
        <3>1. KernelOK'
            BY <3>0 DEF TypeOK, KernelOK
        <3>2. ProcOK'
            BY <2>1, <3>0 DEF TypeOK, ProcOK, PC
        <3>3. Moves(p)
            BY <1>0, <2>1, <3>0 DEF TypeOK, ProcOK, LockOK, PC, Moves
        <3>. QED
            BY <3>0, <3>1, <3>2, <3>3, LockFrame DEF TypeOK
    <2>3. CASE d \notin exists
        <3>0. /\ pc' = [pc EXCEPT ![p] = "remove"] /\ dev' = [dev EXCEPT ![p] = d]
              /\ rc' = [rc EXCEPT ![p] = 1]
              /\ UNCHANGED <<kVars, i, exit, out>>
            BY <1>1, <2>3 DEF ResetNext
        <3>1. KernelOK'
            BY <3>0 DEF TypeOK, KernelOK
        <3>2. ProcOK'
            BY <2>1, <3>0 DEF TypeOK, ProcOK, PC
        <3>3. Moves(p)
            BY <1>0, <2>1, <3>0 DEF TypeOK, ProcOK, LockOK, PC, Moves
        <3>. QED
            BY <3>0, <3>1, <3>2, <3>3, LockFrame DEF TypeOK
    <2>. QED
        BY <2>2, <2>3
<1>2. CASE ~(i[p] <= Len(Cmd[p].devs))
    <2>0. /\ pc' = [pc EXCEPT ![p] = "done"]
          /\ exit' = [exit EXCEPT ![p] = IF rc[p] = 0 THEN "success" ELSE "failure"]
          /\ UNCHANGED <<kVars, dev, i, rc, out>>
        BY <1>2 DEF ResetNext, Finish
    <2>1. KernelOK'
        BY <2>0 DEF TypeOK, KernelOK
    <2>2. ProcOK'
        BY <2>0 DEF TypeOK, ProcOK, PC
    <2>3. Moves(p)
        BY <1>0, <2>0 DEF TypeOK, ProcOK, LockOK, PC, Moves
    <2>. QED
        BY <2>0, <2>1, <2>2, <2>3, LockFrame DEF TypeOK
<1>. QED
    BY <1>1, <1>2

LEMMA RemoveTypeOK ==
    ASSUME TypeOK, NEW p \in Procs, Remove(p) PROVE TypeOK'
<1>. DEFINE d == dev[p]
<1>0. /\ pc[p] = "remove" /\ Cmd[p].act = "reset" /\ i[p] \in Nat
      /\ pc' = [pc EXCEPT ![p] = "rnext"] /\ i' = [i EXCEPT ![p] = i[p] + 1]
      /\ UNCHANGED <<udevOpen, holder, dev, rc, exit, out>>
    BY DEF Remove, ResetAdvance, TypeOK, ProcOK, LockOK
<1>1. ProcOK'
    BY <1>0 DEF TypeOK, ProcOK, PC
<1>2. CASE hasControl /\ d \in exists /\ ~Opened(d)
    <2>0. /\ exists' = exists \ {d}
          /\ owner' = [owner EXCEPT ![d] = NoProc] /\ algOf' = [algOf EXCEPT ![d] = NoProc]
          /\ inited' = inited \ {d} /\ uevq' = uevq \ {d}
        BY <1>2 DEF Remove
    <2>1. KernelOK'
        BY <1>0, <2>0 DEF TypeOK, KernelOK
    <2>2. \A q \in Procs \ {p} : pc[q] = "unlock" => dev[q] # d
        BY <1>2 DEF TypeOK, LockOK, Opened
    <2>3. Moves(p)
        BY <1>0, <1>1, <2>0, <2>2 DEF TypeOK, ProcOK, LockOK, PC, Moves
    <2>. QED
        BY <1>0, <1>1, <2>1, <2>3, LockFrame DEF TypeOK
<1>3. CASE ~(hasControl /\ d \in exists /\ ~Opened(d))
    <2>0. UNCHANGED <<exists, owner, algOf, inited, uevq>>
        BY <1>3 DEF Remove
    <2>1. KernelOK'
        BY <1>0, <2>0 DEF TypeOK, KernelOK
    <2>3. Moves(p)
        BY <1>0, <1>1, <2>0 DEF TypeOK, ProcOK, LockOK, PC, Moves
    <2>. QED
        BY <1>0, <1>1, <2>1, <2>3, LockFrame DEF TypeOK
<1>. QED
    BY <1>2, <1>3

LEMMA UdevTypeOK ==
    ASSUME TypeOK, NEW d \in Dev, Udev(d) PROVE TypeOK'
<1>0. UNCHANGED <<exists, owner, algOf, holder, pVars>>
    BY DEF Udev, UdevBegin, UdevEnd
<1>1. KernelOK'
    BY <1>0 DEF Udev, UdevBegin, UdevEnd, TypeOK, KernelOK
<1>2. ProcOK'
    BY <1>0 DEF pVars, TypeOK, ProcOK
<1>3. LockOK'
    BY <1>0 DEF pVars, TypeOK, LockOK
<1>. QED
    BY <1>1, <1>2, <1>3 DEF TypeOK
-----------------------------------------------------------------------------
LEMMA NextTypeOK == TypeOK /\ [Next]_vars => TypeOK'
<1>. SUFFICES ASSUME TypeOK, [Next]_vars PROVE TypeOK'
    OBVIOUS
<1>1. ASSUME NEW p \in Procs, ProcStep(p) PROVE TypeOK'
    BY <1>1, StartFindTypeOK, StartCreateTypeOK, StartResetTypeOK, StatusTypeOK,
       FindStepTypeOK, FindUsedTypeOK, WaitCheckTypeOK, WaitEventTypeOK,
       WaitTimeoutTypeOK, LockTypeOK, UnlockTypeOK, WriteResetTypeOK,
       WriteAlgTypeOK, WriteDisksizeTypeOK, ResetNextTypeOK, RemoveTypeOK
    DEF ProcStep
<1>2. ASSUME NEW d \in Dev, Udev(d) PROVE TypeOK'
    BY <1>2, UdevTypeOK
<1>3. CASE UNCHANGED vars
    BY <1>3 DEF vars, kVars, pVars, TypeOK, KernelOK, ProcOK, LockOK
<1>. QED
    BY <1>1, <1>2, <1>3 DEF Next

(* Every reachable state of any number of concurrent zramctl processes  *)
(* and udevd is well typed, and LOCK_EX of a device is held only by the  *)
(* one process between its zram_lock() and zram_unlock() on that device, *)
(* so zram_unlock() always releases the lock it took.                     *)
THEOREM TypeCorrect == Spec => []TypeOK
<1>1. Init => TypeOK
    BY InitTypeOK
<1>2. TypeOK /\ [Next]_vars => TypeOK'
    BY NextTypeOK
<1>. QED
    BY <1>1, <1>2, PTL DEF Spec
=============================================================================
