------------------------------ MODULE MonitorFd ------------------------------
(***************************************************************************)
(* What the mount-table monitor promises about its multiplexing           *)
(* descriptor (spec sections 3 and 4.1), stated without the registration  *)
(* loop that builds it.                                                   *)
(*                                                                         *)
(* get_descriptor() is one step: it creates the descriptor with exactly    *)
(* the enabled entries registered, or fails and leaves it unset, "not     *)
(* half-initialized", so that a later call can retry cleanly.  While the  *)
(* descriptor exists, enabling an entry registers it (or fails and leaves *)
(* it enabled but unregistered, as the registration procedure does), and *)
(* disabling an entry removes it synchronously.  A call that never       *)
(* returns ends what the monitor promises.                                *)
(***************************************************************************)
CONSTANTS Entries

VARIABLES
    live,        \* the aggregator exists
    enabledSet,  \* the entries whose enabled flag is set
    fdOpen,      \* the multiplexing descriptor exists
    registered,  \* the entries whose descriptor is in the multiplexer
    hung         \* a call never returns

fdVars == <<live, enabledSet, fdOpen, registered, hung>>

Init ==
    /\ live = FALSE
    /\ enabledSet = {}
    /\ fdOpen = FALSE
    /\ registered = {}
    /\ hung = FALSE

\* a call on a live aggregator that returns
Running == live /\ ~hung

\* create(): empty entry list, no descriptor
Create ==
    /\ ~live
    /\ live' = TRUE
    /\ UNCHANGED <<enabledSet, fdOpen, registered, hung>>

\* release() at count zero: every entry and the descriptor are torn down
Destroy ==
    /\ Running
    /\ live' = FALSE
    /\ enabledSet' = {}
    /\ fdOpen' = FALSE
    /\ registered' = {}
    /\ UNCHANGED hung

\* get_descriptor() without a descriptor: all enabled entries, or nothing
GetDescriptor ==
    /\ Running /\ ~fdOpen
    /\ fdOpen' = TRUE
    /\ registered' = enabledSet
    /\ UNCHANGED <<live, enabledSet, hung>>

\* enable: registered at once when the descriptor exists, or a failure
Enable(e) ==
    /\ Running
    /\ enabledSet' = enabledSet \cup {e}
    /\ registered' \in IF fdOpen THEN {registered \cup {e}, registered}
                                 ELSE {registered}
    /\ UNCHANGED <<live, fdOpen, hung>>

\* disable: removed from the multiplexer synchronously
Disable(e) ==
    /\ Running
    /\ enabledSet' = enabledSet \ {e}
    /\ registered' = registered \ {e}
    /\ UNCHANGED <<live, fdOpen, hung>>

\* close the descriptor: every entry is disabled with it
CloseDescriptor ==
    /\ Running
    /\ enabledSet' = IF fdOpen THEN {} ELSE enabledSet
    /\ fdOpen' = FALSE
    /\ registered' = {}
    /\ UNCHANGED <<live, hung>>

\* a call that does not return: what it left registered is registered
Hang ==
    /\ Running
    /\ hung' = TRUE
    /\ enabledSet' \subseteq Entries
    /\ fdOpen' \in BOOLEAN
    /\ registered' \subseteq enabledSet'
    /\ UNCHANGED live

Next ==
    \/ Create \/ Destroy \/ GetDescriptor \/ CloseDescriptor \/ Hang
    \/ \E e \in Entries : Enable(e) \/ Disable(e)

Spec == Init /\ [][Next]_fdVars

\* Only enabled entries are in the multiplexer, and none without it.
FdConsistent ==
    /\ registered \subseteq enabledSet
    /\ ~fdOpen => registered = {}
=============================================================================
