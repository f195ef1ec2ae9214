------------------------------ MODULE ZramOpts ------------------------------
(***************************************************************************)
(* The option handling of zramctl's main(): from the options given and    *)
(* the device arguments to the action it runs, as the command record of   *)
(* module Zram, or to the error it exits with.                            *)
(*                                                                         *)
(* getopt_long() moves the device arguments behind the options, so a      *)
(* command line is the sequence of its option letters and the sequence of *)
(* its device numbers.  Option arguments (the size, the algorithm, the    *)
(* column list) are not modelled: an option stands for itself.  --help    *)
(* and --version exit at once and are left out.                           *)
(***************************************************************************)
EXTENDS Naturals, Sequences

CONSTANTS
    Opts,       \* sets of option sequences to check
    Args        \* sets of device argument sequences to check

VARIABLES opts, args

\* the short options, and "raw" and "output-all" for the long-only ones
Letters == {"a", "b", "f", "o", "p", "n", "r", "s", "t", "raw", "output-all"}

\* an option is a member of Letters, a device argument a device number
ASSUME ZramOptsAssumption ==
    /\ Opts \subseteq Seq(Letters)
    /\ Args \subseteq Seq(Nat)

\* the option c was given
Has(os, c) == \E k \in 1..Len(os) : os[k] = c

\* excl[]: { 'f', 'o', 'r' } and { 'o', 'r', 's' }
Excl == {{"f", "o", "r"}, {"o", "r", "s"}}

\* err_exclusive_options(): status[e] keeps the first option of row e
\* seen; a later, different option of the row is an error, so the line
\* is refused when two different options of one row are given
Exclusive(os) ==
    \E g \in Excl : \E k1, k2 \in 1..Len(os) :
        os[k1] \in g /\ os[k2] \in g /\ os[k1] # os[k2]

\* the position of the last option c given, or 0
Last(os, c) ==
    IF Has(os, c)
    THEN CHOOSE k \in 1..Len(os) : os[k] = c /\ \A j \in k + 1..Len(os) : os[j] # c
    ELSE 0

\* fault variant: --find decides before --size and --reset
ActFindFirst(os) ==
    IF Has(os, "f") THEN "findonly"
    ELSE CASE Last(os, "s") = 0 /\ Last(os, "r") = 0 -> "status"
           [] Last(os, "s") > Last(os, "r")         -> "create"
           [] OTHER                                 -> "reset"

\* the switch: 's' and 'r' set act (the last one given wins); the check
\* after the loop picks A_FINDONLY or A_STATUS when neither was given
Act(os) ==
    CASE Last(os, "s") = 0 /\ Last(os, "r") = 0 -> IF Has(os, "f") THEN "findonly" ELSE "status"
      [] Last(os, "s") > Last(os, "r")         -> "create"
      [] OTHER                                 -> "reset"

\* main() up to the switch (act): the errx() it exits with, or "none"
MainError(os, as) ==
    LET act == Act(os) IN
    IF Exclusive(os) THEN "mutually exclusive"
    ELSE IF Has(os, "f") /\ as # << >> THEN "find with device"
    ELSE IF act # "reset" /\ Len(as) > 1 THEN "only one device"
    ELSE IF act \in {"status", "findonly"} /\ (Has(os, "a") \/ Has(os, "p") \/ Has(os, "t"))
         THEN "needs size"
    ELSE IF act = "reset" /\ as = << >> THEN "no device"
    ELSE IF act = "create" /\ ~Has(os, "f") /\ as = << >> THEN "no device"
    ELSE "none"

\* the command record the accepted line runs (a command of module Zram)
Main(os, as) ==
    [act |-> Act(os), find |-> Has(os, "f"), devs |-> as, alg |-> Has(os, "a")]

-----------------------------------------------------------------------------
(* The reference: the forms of the usage text                             *)
(*   zramctl [options] <device>                                           *)
(*   zramctl -r <device> [...]                                            *)
(*   zramctl [options] -f | <device> -s <size>                            *)
(* with the options each form lists.                                      *)

StatusOpts == {"b", "n", "o", "raw", "output-all"}
CreateOpts == {"a", "b", "f", "n", "p", "s", "t", "raw", "output-all"}

\* the action the usage gives a command line, or "none"
Synopsis(os, as) ==
    LET given == {os[k] : k \in 1..Len(os)}
    IN IF "r" \in given /\ given \subseteq {"r", "b", "n", "raw", "output-all"} /\ as # << >>
       THEN "reset"
       ELSE IF "s" \in given /\ given \subseteq CreateOpts
               /\ (("f" \in given) <=> (as = << >>)) /\ Len(as) <= 1
       THEN "create"
       ELSE IF "f" \in given /\ given \subseteq {"f", "b", "n", "raw", "output-all"} /\ as = << >>
       THEN "findonly"
       ELSE IF given \subseteq StatusOpts /\ Len(as) <= 1
       THEN "status"
       ELSE "none"
-----------------------------------------------------------------------------
Init == opts \in Opts /\ args \in Args

Spec == Init /\ [][UNCHANGED <<opts, args>>]_<<opts, args>>

\* Every command line of one of the forms of the usage text is accepted
\* by main(), which runs the action of that form on the devices given.
SynopsisAccepted ==
    Synopsis(opts, args) # "none" =>
        /\ MainError(opts, args) = "none"
        /\ Main(opts, args).act = Synopsis(opts, args)
        /\ Main(opts, args).devs = args

=============================================================================
