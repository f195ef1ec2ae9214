----------------------------- MODULE MCZramOpts -----------------------------
(* Every zramctl command line of up to three options and two devices.      *)
EXTENDS ZramOpts

MCOpts == UNION {[1..n -> Letters] : n \in 0..3}
MCArgs == {<< >>, <<0>>, <<0, 1>>}
=============================================================================
