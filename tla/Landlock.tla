------------------------------ MODULE Landlock ------------------------------
(***************************************************************************)
(* The landlock support of setpriv (sys-utils/setpriv-landlock.c): the    *)
(* parsers of --landlock-access and --landlock-rule, which build the set  *)
(* of handled rights and the list of path-beneath rules, and do_landlock, *)
(* which creates the ruleset, adds the rules and restricts the process    *)
(* before setpriv executes the program.                                    *)
(*                                                                         *)
(* A right is named by its string in landlock_access_fs[]; a bitmask of   *)
(* LANDLOCK_ACCESS_FS_* values, each a distinct bit, is the set of the    *)
(* rights whose bits it has, so "r |= value" is a union.  Arguments are   *)
(* TLA+ strings: the properties are about how their characters are       *)
(* matched against the table.                                              *)
(***************************************************************************)
EXTENDS Naturals, Sequences

CONSTANTS
    AccessFs,       \* landlock_access_fs[].type, in table order (as built)
    AccessArgs,     \* --landlock-access arguments on the command line
    RuleArgs,       \* --landlock-rule arguments
    Openable,       \* the paths open(path, O_PATH) succeeds on
    KernelRights,   \* the rights the running kernel's landlock ABI knows
    MaxArgs,        \* bound on the number of landlock options
    ParseError      \* an errx() of a parser, or -1 from a lookup

VARIABLES
    phase,      \* "args", "rules" (adding them), "exec", "exit"
    status,     \* exit status once phase = "exit": "failure" or "priverr"
    accessFs,   \* opts->access_fs, as the set of rights
    rules,      \* opts->rules: records [access, path], list head first
    nargs,      \* landlock options parsed so far
    added,      \* rules passed to landlock_add_rule so far
    handled,    \* handled_access_fs of the created ruleset
    restricted  \* landlock_restrict_self succeeded

\* the bound on the options is a number
ASSUME LandlockAssumption == MaxArgs \in Nat

llVars == <<phase, status, accessFs, rules, nargs, added, handled, restricted>>

Idx == 1..Len(AccessFs)
AllRights == {AccessFs[i] : i \in Idx}
-----------------------------------------------------------------------------
(* The parsers *)

\* the string t begins with the string s
Begins(s, t) == Len(s) <= Len(t) /\ SubSeq(t, 1, Len(s)) = s

\* the least member of a set of numbers
Least(S) == CHOOSE i \in S : \A j \in S : i <= j

\* ul_startswith(str, prefix) is not NULL, and what it returns
StartsWith(str, prefix) == Begins(prefix, str)
AfterPrefix(str, prefix) == SubSeq(str, Len(prefix) + 1, Len(str))

\* the i-th character of a string
Char(s, i) == SubSeq(s, i, i)

\* fault variant: the table is searched from its second entry
AccessToMaskSkipFirst(tok) ==
    LET m == {i \in Idx \ {1} : Begins(tok, AccessFs[i])}
    IN IF m = {} THEN ParseError ELSE {AccessFs[Least(m)]}

\* landlock_access_to_mask(str, len): the first entry of the table for
\* which strncmp(type, str, len) == 0, i.e. whose name starts with the
\* len characters of the token; -1 if there is none
AccessToMask(tok) ==
    LET m == {i \in Idx : Begins(tok, AccessFs[i])}
    IN IF m = {} THEN ParseError ELSE {AccessFs[Least(m)]}

\* string_to_bitmask(list, &r, landlock_access_to_mask) of a non-empty
\* list: a name ends at a comma, or at the last character, which then
\* belongs to the name (a final comma included).  The cuts are the
\* positions before and after the names; an empty name (two commas, a
\* leading comma) or a name landlock_access_to_mask refuses makes it fail,
\* and otherwise the mask is the union of the names' bits
Cuts(list) == {0, Len(list) + 1} \cup {k \in 1..(Len(list) - 1) : Char(list, k) = ","}
NextCut(list, c) == Least({k \in Cuts(list) : k > c})
Tokens(list) ==
    {SubSeq(list, c + 1, NextCut(list, c) - 1) : c \in Cuts(list) \ {Len(list) + 1}}
StringToBitmask(list) ==
    IF \E t \in Tokens(list) : t = "" \/ AccessToMask(t) = ParseError
    THEN ParseError
    ELSE UNION {AccessToMask(t) : t \in Tokens(list)}

\* parse_landlock_fs_access: an empty list is every right
ParseFsAccess(list) ==
    IF list = "" THEN AllRights ELSE StringToBitmask(list)

\* the first ':' of a string (strchr), 0 if there is none
FirstColon(s) ==
    LET cs == {i \in 1..Len(s) : Char(s, i) = ":"}
    IN IF cs = {} THEN 0 ELSE Least(cs)

-----------------------------------------------------------------------------
(* setpriv with landlock options *)

Init ==
    /\ phase = "args"
    /\ status = "none"
    /\ accessFs = {}
    /\ rules = << >>
    /\ nargs = 0
    /\ added = 0
    /\ handled = {}
    /\ restricted = FALSE

\* an errx()/err() of a parser: setpriv exits with EXIT_FAILURE
ParseFails ==
    /\ phase' = "exit"
    /\ status' = "failure"
    /\ UNCHANGED <<accessFs, rules>>

\* parse_landlock_access(opts, str) for --landlock-access str
ParseAccess(str) ==
    /\ phase = "args"
    /\ nargs < MaxArgs
    /\ nargs' = nargs + 1
    /\ IF str = "fs"
       THEN /\ accessFs' = accessFs \cup AllRights
            /\ UNCHANGED <<phase, status, rules>>
       ELSE IF ~StartsWith(str, "fs:")
       THEN UNCHANGED <<phase, status, accessFs, rules>>
       ELSE IF ParseFsAccess(AfterPrefix(str, "fs:")) = ParseError
       THEN ParseFails
       ELSE /\ accessFs' = accessFs \cup ParseFsAccess(AfterPrefix(str, "fs:"))
            /\ UNCHANGED <<phase, status, rules>>
    /\ UNCHANGED <<added, handled, restricted>>

\* fault variant: the result of open() is not checked
ParseRuleUncheckedOpen(str) ==
    /\ phase = "args"
    /\ nargs < MaxArgs
    /\ nargs' = nargs + 1
    /\ LET acc   == AfterPrefix(str, "path-beneath:")
           c     == FirstColon(acc)
           a     == ParseFsAccess(SubSeq(acc, 1, c - 1))
           path  == AfterPrefix(acc, SubSeq(acc, 1, c))
       IN IF StartsWith(str, "path-beneath:") /\ c # 0 /\ a # ParseError
          THEN /\ rules' = <<[access |-> a, path |-> path]>> \o rules
               /\ UNCHANGED <<phase, status, accessFs>>
          ELSE ParseFails
    /\ UNCHANGED <<added, handled, restricted>>

\* parse_landlock_rule(opts, str) for --landlock-rule str: the type prefix,
\* the access list up to the next ':', the path after it, which is opened;
\* list_add puts the rule at the head of opts->rules
ParseRule(str) ==
    /\ phase = "args"
    /\ nargs < MaxArgs
    /\ nargs' = nargs + 1
    /\ LET acc   == AfterPrefix(str, "path-beneath:")
           c     == FirstColon(acc)
           a     == ParseFsAccess(SubSeq(acc, 1, c - 1))
           path  == AfterPrefix(acc, SubSeq(acc, 1, c))
       IN IF StartsWith(str, "path-beneath:") /\ c # 0 /\ a # ParseError /\ path \in Openable
          THEN /\ rules' = <<[access |-> a, path |-> path]>> \o rules
               /\ UNCHANGED <<phase, status, accessFs>>
          ELSE ParseFails
    /\ UNCHANGED <<added, handled, restricted>>

\* do_landlock: nothing to do without handled rights; else
\* landlock_create_ruleset, which the kernel refuses (EINVAL) for a right
\* its ABI does not know, and err(SETPRIV_EXIT_PRIVERR) on failure
CreateRuleset ==
    /\ phase = "args"
    /\ IF accessFs = {}
       THEN /\ phase' = "exec"
            /\ UNCHANGED <<status, handled>>
       ELSE IF accessFs \subseteq KernelRights
       THEN /\ phase' = "rules"
            /\ handled' = accessFs
            /\ UNCHANGED status
       ELSE /\ phase' = "exit"
            /\ status' = "priverr"
            /\ UNCHANGED handled
    /\ UNCHANGED <<accessFs, rules, nargs, added, restricted>>

\* fault variant: the result of landlock_add_rule is not checked
AddRuleUnchecked ==
    /\ phase = "rules"
    /\ added < Len(rules)
    /\ added' = added + 1
    /\ UNCHANGED <<phase, status, accessFs, rules, nargs, handled, restricted>>

\* one turn of list_for_each: landlock_add_rule, which the kernel refuses
\* (EINVAL) for an allowed right that the ruleset does not handle
AddRule ==
    /\ phase = "rules"
    /\ added < Len(rules)
    /\ IF rules[added + 1].access \subseteq handled
       THEN /\ added' = added + 1
            /\ UNCHANGED <<phase, status>>
       ELSE /\ phase' = "exit"
            /\ status' = "priverr"
            /\ UNCHANGED added
    /\ UNCHANGED <<accessFs, rules, nargs, handled, restricted>>

\* prctl(PR_SET_NO_NEW_PRIVS) and landlock_restrict_self, then setpriv
\* goes on to execute the program
RestrictSelf ==
    /\ phase = "rules"
    /\ added = Len(rules)
    /\ phase' = "exec"
    /\ restricted' = TRUE
    /\ UNCHANGED <<status, accessFs, rules, nargs, added, handled>>

Next ==
    \/ \E s \in AccessArgs : ParseAccess(s)
    \/ \E s \in RuleArgs : ParseRule(s)
    \/ CreateRuleset
    \/ AddRule
    \/ RestrictSelf

Spec == Init /\ [][Next]_llVars

-----------------------------------------------------------------------------
(* Properties *)

\* Type correctness.
TypeOK ==
    /\ phase \in {"args", "rules", "exec", "exit"}
    /\ status \in {"none", "failure", "priverr"}
    /\ accessFs \subseteq AllRights
    /\ rules \in Seq([access : SUBSET AllRights, path : Openable])
    /\ nargs \in 0..MaxArgs
    /\ added \in 0..Len(rules)
    /\ handled \subseteq AllRights
    /\ restricted \in BOOLEAN

\* When setpriv goes on to execute the program with landlock access
\* requested, the process is restricted and every --landlock-rule given is
\* in force: its allowed rights are handled by the ruleset, so
\* landlock_add_rule accepted it and no rule was silently dropped.
ExecConfined ==
    phase = "exec" /\ accessFs # {} =>
        /\ restricted
        /\ handled = accessFs
        /\ \A i \in 1..Len(rules) : rules[i].access \subseteq handled
=============================================================================
