------------------------------- MODULE MCZram -------------------------------
(* Model-checking instances of Zram: command lines of concurrent zramctl   *)
(* processes, as records of the options main() acts on.                    *)
EXTENDS Zram, TLC

CONSTANTS c1, c2, f1, r1, s1

FindCreate(alg) == [act |-> "create", find |-> TRUE, devs |-> << >>, alg |-> alg]
FindOnly == [act |-> "findonly", find |-> TRUE, devs |-> << >>, alg |-> FALSE]
ResetOf(ds) == [act |-> "reset", find |-> FALSE, devs |-> ds, alg |-> FALSE]
StatusAll == [act |-> "status", find |-> FALSE, devs |-> << >>, alg |-> FALSE]

\* zramctl -f -a lz4 -s 1G, zramctl -s 1G /dev/zram1,
\* zramctl -r /dev/zram1 /dev/zram0 and zramctl, all at once
NamedCreate(d, alg) == [act |-> "create", find |-> FALSE, devs |-> <<d>>, alg |-> alg]
MCProcsMix == {c1, c2, r1, s1}
MCCmdMix == (c1 :> FindCreate(TRUE)) @@ (c2 :> NamedCreate(1, FALSE)) @@
            (r1 :> ResetOf(<<1, 0>>)) @@ (s1 :> StatusAll)

\* two zramctl -f -a lz4 -s 1G at once
MCProcsTwo == {c1, c2}
MCCmdTwo == (c1 :> FindCreate(TRUE)) @@ (c2 :> FindCreate(TRUE))

\* zramctl -f while reading hot_add can fail
MCProcsFind == {f1}
MCCmdFind == f1 :> FindOnly
=============================================================================
