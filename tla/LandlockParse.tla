---------------------------- MODULE LandlockParse ----------------------------
(***************************************************************************)
(* parse_landlock_fs_access, the parser of the right lists of             *)
(* --landlock-access fs:<list> and --landlock-rule path-beneath:<list>:..., *)
(* applied to each list of a bounded set and compared with the reference  *)
(* RefFsAccess.                                                            *)
(***************************************************************************)
EXTENDS Landlock

CONSTANT FsLists    \* the right lists to parse

VARIABLE arg

(* The reference: what the usage text "fs[:<right>, ...]" describes.  A   *)
(* list names rights exactly, separated by single commas.                 *)

RECURSIVE Names(_)
Names(list) ==
    LET c == {i \in 1..Len(list) : Char(list, i) = ","}
    IN IF c = {} THEN <<list>>
       ELSE <<SubSeq(list, 1, Least(c) - 1)>> \o Names(AfterPrefix(list, SubSeq(list, 1, Least(c))))

RefFsAccess(list) ==
    IF list = "" THEN AllRights
    ELSE IF \A i \in 1..Len(Names(list)) : Names(list)[i] \in AllRights
         THEN {Names(list)[i] : i \in 1..Len(Names(list))}
         ELSE ParseError


ParseInit == Init /\ arg \in FsLists

\* a parse is a function of its argument: nothing changes
ParseSpec == ParseInit /\ [][UNCHANGED <<llVars, arg>>]_<<llVars, arg>>

\* Every list the usage text allows (rights named exactly, separated by
\* single commas, or empty for all) is parsed by string_to_bitmask and
\* landlock_access_to_mask to exactly the rights it names.
ParseAgreesWithReference ==
    RefFsAccess(arg) # ParseError => ParseFsAccess(arg) = RefFsAccess(arg)

\* Every list the parser accepts names exactly the rights it grants: a
\* token that is only the beginning of a right's name is refused.
NoAbbreviation ==
    ParseFsAccess(arg) # ParseError => ParseFsAccess(arg) = RefFsAccess(arg)
=============================================================================
