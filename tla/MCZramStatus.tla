---------------------------- MODULE MCZramStatus ----------------------------
(* Statistics values 0 and 1 (and 12 for the data size), the algorithms of *)
(* a usual kernel, and column names in several cases, abbreviated and      *)
(* unknown.                                                                 *)
EXTENDS ZramStatus

MCAlgs == <<"lzo", "lzo-rle", "lz4", "zstd">>
MCStats == {v \in [1..7 -> {0, 1}] : v[4] = 0} \cup {<<12, 3, 1, 0, 4, 0, 0>>}
MCNames == {"NAME", "name", "Comp-Ratio", "D", "NAM", "zero-pages", "SIZE", ""}
=============================================================================
