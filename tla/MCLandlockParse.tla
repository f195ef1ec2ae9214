--------------------------- MODULE MCLandlockParse ---------------------------
(* Model-checking instance of LandlockParse: the table of MCLandlock and  *)
(* every list of up to three tokens.                                      *)
EXTENDS LandlockParse, MCLandlock, SequencesExt

\* the tokens lists are made of, an empty one included
MCTokens == {"execute", "read-file", "read-dir", "read", "m", "ioctl-dev", "bogus", ""}

\* tokens joined by single commas
JoinTokens(t) == FlattenSeq([i \in 1..(2 * Len(t) - 1) |->
                                IF i % 2 = 1 THEN t[(i + 1) \div 2] ELSE ","])

MCFsLists == {JoinTokens(t) : t \in UNION {[1..n -> MCTokens] : n \in 1..3}}
=============================================================================
