--------------------------- MODULE LandlockProofs ---------------------------
(***************************************************************************)
(* Proofs about the landlock options of setpriv: the parsers only ever    *)
(* produce rights of the table, and setpriv executes the program with     *)
(* access requested only once every rule is in force.                      *)
(***************************************************************************)
EXTENDS Landlock, LeastElement, SequenceTheorems, TLAPS

-----------------------------------------------------------------------------
(* The parsers *)

(* landlock_access_to_mask either fails or returns the bit of an entry of *)
(* the table: the entry it stops at is one that matches.                   *)
LEMMA AccessToMaskType ==
    ASSUME NEW tok
    PROVE  AccessToMask(tok) = ParseError \/ AccessToMask(tok) \subseteq AllRights
<1>. DEFINE m == {i \in Idx : Begins(tok, AccessFs[i])}
<1>1. CASE m = {}
    BY <1>1 DEF AccessToMask
<1>2. CASE m # {}
    <2>1. m \subseteq Nat
        BY DEF Idx
    <2>2. \E x \in m : \A y \in m : x <= y
        BY <1>2, <2>1, LeastNat
    <2>3. Least(m) \in m
        BY <2>2 DEF Least
    <2>4. AccessFs[Least(m)] \in AllRights
        BY <2>3 DEF AllRights
    <2>. QED
        BY <1>2, <2>4 DEF AccessToMask
<1>. QED
    BY <1>1, <1>2

(* parse_landlock_fs_access either fails or returns rights of the table:  *)
(* string_to_bitmask fails at the first name it cannot look up, so what   *)
(* it returns is a union of masks landlock_access_to_mask accepted.        *)
LEMMA ParseFsAccessType ==
    ASSUME NEW list
    PROVE  ParseFsAccess(list) = ParseError \/ ParseFsAccess(list) \subseteq AllRights
<1>1. CASE list = ""
    BY <1>1 DEF ParseFsAccess
<1>2. CASE list # "" /\ \E t \in Tokens(list) : t = "" \/ AccessToMask(t) = ParseError
    BY <1>2 DEF ParseFsAccess, StringToBitmask
<1>3. CASE list # "" /\ ~\E t \in Tokens(list) : t = "" \/ AccessToMask(t) = ParseError
    <2>1. \A t \in Tokens(list) : AccessToMask(t) \subseteq AllRights
        BY <1>3, AccessToMaskType
    <2>2. UNION {AccessToMask(t) : t \in Tokens(list)} \subseteq AllRights
        BY <2>1
    <2>. QED
        BY <1>3, <2>2 DEF ParseFsAccess, StringToBitmask
<1>. QED
    BY <1>1, <1>2, <1>3

-----------------------------------------------------------------------------
(* Type correctness *)

LEMMA InitTypeOK == Init => TypeOK
<1>. SUFFICES ASSUME Init PROVE TypeOK
    OBVIOUS
<1>1. rules \in Seq([access : SUBSET AllRights, path : Openable]) /\ Len(rules) = 0
    BY EmptySeq DEF Init
<1>2. nargs \in 0..MaxArgs /\ added \in 0..Len(rules)
    BY <1>1, LandlockAssumption DEF Init
<1>3. /\ phase \in {"args", "rules", "exec", "exit"}
      /\ status \in {"none", "failure", "priverr"}
      /\ accessFs \subseteq AllRights /\ handled \subseteq AllRights
      /\ restricted \in BOOLEAN
    BY DEF Init
<1>. QED
    BY <1>1, <1>2, <1>3 DEF TypeOK

LEMMA ParseAccessTypeOK ==
    ASSUME TypeOK, NEW str, ParseAccess(str)
    PROVE  TypeOK'
<1>. DEFINE p == ParseFsAccess(AfterPrefix(str, "fs:"))
<1>1. nargs' \in 0..MaxArgs /\ UNCHANGED <<added, handled, restricted>>
    BY LandlockAssumption DEF ParseAccess, TypeOK
<1>2. CASE str = "fs"
    BY <1>1, <1>2 DEF ParseAccess, TypeOK
<1>3. CASE str # "fs" /\ ~StartsWith(str, "fs:")
    BY <1>1, <1>3 DEF ParseAccess, TypeOK
<1>4. CASE str # "fs" /\ StartsWith(str, "fs:") /\ p = ParseError
    BY <1>1, <1>4 DEF ParseAccess, ParseFails, TypeOK
<1>5. CASE str # "fs" /\ StartsWith(str, "fs:") /\ p # ParseError
    <2>1. p \subseteq AllRights
        BY <1>5, ParseFsAccessType
    <2>2. accessFs' = accessFs \cup p /\ UNCHANGED <<phase, status, rules>>
        BY <1>5 DEF ParseAccess
    <2>. QED
        BY <1>1, <2>1, <2>2 DEF TypeOK
<1>. QED
    BY <1>2, <1>3, <1>4, <1>5

LEMMA ParseRuleTypeOK ==
    ASSUME TypeOK, NEW str, ParseRule(str)
    PROVE  TypeOK'
<1>. DEFINE acc  == AfterPrefix(str, "path-beneath:")
            c    == FirstColon(acc)
            a    == ParseFsAccess(SubSeq(acc, 1, c - 1))
            path == AfterPrefix(acc, SubSeq(acc, 1, c))
            ok   == StartsWith(str, "path-beneath:") /\ c # 0 /\ a # ParseError /\ path \in Openable
            R    == [access : SUBSET AllRights, path : Openable]
<1>1. nargs' \in 0..MaxArgs /\ UNCHANGED <<added, handled, restricted>>
    BY LandlockAssumption DEF ParseRule, TypeOK
<1>2. CASE ~ok
    BY <1>1, <1>2 DEF ParseRule, ParseFails, TypeOK
<1>3. CASE ok
    <2>1. rules' = <<[access |-> a, path |-> path]>> \o rules
          /\ UNCHANGED <<phase, status, accessFs>>
        BY <1>3 DEF ParseRule
    <2>2. [access |-> a, path |-> path] \in R
        BY <1>3, ParseFsAccessType
    <2>3. <<[access |-> a, path |-> path]>> \in Seq(R) /\ rules \in Seq(R)
        BY <2>2 DEF TypeOK
    <2>4. rules' \in Seq(R) /\ Len(rules') = 1 + Len(rules)
        BY <2>1, <2>3, ConcatProperties
    <2>. QED
        BY <1>1, <2>1, <2>4 DEF TypeOK
<1>. QED
    BY <1>2, <1>3

LEMMA CreateRulesetTypeOK ==
    ASSUME TypeOK, CreateRuleset
    PROVE  TypeOK'
BY DEF CreateRuleset, TypeOK

LEMMA AddRuleTypeOK ==
    ASSUME TypeOK, AddRule
    PROVE  TypeOK'
BY DEF AddRule, TypeOK

LEMMA RestrictSelfTypeOK ==
    ASSUME TypeOK, RestrictSelf
    PROVE  TypeOK'
BY DEF RestrictSelf, TypeOK

LEMMA NextTypeOK == TypeOK /\ [Next]_llVars => TypeOK'
<1>. SUFFICES ASSUME TypeOK, [Next]_llVars PROVE TypeOK'
    OBVIOUS
<1>1. CASE \E s \in AccessArgs : ParseAccess(s)
    BY <1>1, ParseAccessTypeOK
<1>2. CASE \E s \in RuleArgs : ParseRule(s)
    BY <1>2, ParseRuleTypeOK
<1>3. CASE CreateRuleset
    BY <1>3, CreateRulesetTypeOK
<1>4. CASE AddRule
    BY <1>4, AddRuleTypeOK
<1>5. CASE RestrictSelf
    BY <1>5, RestrictSelfTypeOK
<1>6. CASE UNCHANGED llVars
    BY <1>6 DEF llVars, TypeOK
<1>. QED
    BY <1>1, <1>2, <1>3, <1>4, <1>5, <1>6 DEF Next

(* Every state setpriv reaches while it handles its landlock options is  *)
(* well typed: the handled and requested rights are rights of the table,  *)
(* and every rule has table rights and a path that opened.                 *)
THEOREM TypeCorrect == Spec => []TypeOK
BY InitTypeOK, NextTypeOK, PTL DEF Spec

-----------------------------------------------------------------------------
(* Confinement *)

(* The invariant ExecConfined rests on: no rule is added before the       *)
(* ruleset is created; while the rules are added, and once the program is *)
(* executed with rights requested, the ruleset handles exactly the        *)
(* requested rights and the rules added so far are allowed by it; the     *)
(* program is executed only after the last rule and landlock_restrict_self.*)
ConfinedInv ==
    /\ TypeOK
    /\ phase = "args" => added = 0
    /\ phase = "rules" \/ (phase = "exec" /\ accessFs # {}) =>
          /\ handled = accessFs
          /\ \A i \in 1..added : rules[i].access \subseteq handled
    /\ phase = "exec" /\ accessFs # {} => restricted /\ added = Len(rules)

LEMMA InitConfinedInv == Init => ConfinedInv
BY InitTypeOK DEF Init, ConfinedInv

(* A parser leaves the option phase only to exit. *)
LEMMA ParseAccessConfinedInv ==
    ASSUME ConfinedInv, NEW str, ParseAccess(str)
    PROVE  ConfinedInv'
<1>1. TypeOK'
    BY ParseAccessTypeOK DEF ConfinedInv
<1>2. phase' \in {"args", "exit"} /\ added' = 0
    BY DEF ParseAccess, ParseFails, ConfinedInv
<1>. QED
    BY <1>1, <1>2 DEF ConfinedInv

LEMMA ParseRuleConfinedInv ==
    ASSUME ConfinedInv, NEW str, ParseRule(str)
    PROVE  ConfinedInv'
<1>1. TypeOK'
    BY ParseRuleTypeOK DEF ConfinedInv
<1>2. phase' \in {"args", "exit"} /\ added' = 0
    BY DEF ParseRule, ParseFails, ConfinedInv
<1>. QED
    BY <1>1, <1>2 DEF ConfinedInv

(* The ruleset handles what was requested, and no rule is added yet. *)
LEMMA CreateRulesetConfinedInv ==
    ASSUME ConfinedInv, CreateRuleset
    PROVE  ConfinedInv'
<1>1. TypeOK'
    BY CreateRulesetTypeOK DEF ConfinedInv
<1>2. added' = 0 /\ accessFs' = accessFs
    BY DEF CreateRuleset, ConfinedInv
<1>3. CASE accessFs = {}
    <2>1. phase' = "exec" /\ accessFs' = {}
        BY <1>3 DEF CreateRuleset
    <2>. QED
        BY <1>1, <2>1 DEF ConfinedInv
<1>4. CASE accessFs # {} /\ accessFs \subseteq KernelRights
    <2>1. phase' = "rules" /\ handled' = accessFs
        BY <1>4 DEF CreateRuleset
    <2>. QED
        BY <1>1, <1>2, <2>1 DEF ConfinedInv
<1>5. CASE accessFs # {} /\ ~(accessFs \subseteq KernelRights)
    <2>1. phase' = "exit"
        BY <1>5 DEF CreateRuleset
    <2>. QED
        BY <1>1, <2>1 DEF ConfinedInv
<1>. QED
    BY <1>3, <1>4, <1>5

(* landlock_add_rule accepts the next rule only if the ruleset allows it. *)
LEMMA AddRuleConfinedInv ==
    ASSUME ConfinedInv, AddRule
    PROVE  ConfinedInv'
<1>1. TypeOK'
    BY AddRuleTypeOK DEF ConfinedInv
<1>2. UNCHANGED <<accessFs, rules, handled, restricted>>
    BY DEF AddRule
<1>3. CASE rules[added + 1].access \subseteq handled
    <2>1. phase' = "rules" /\ added' = added + 1
        BY <1>3 DEF AddRule
    <2>2. handled = accessFs /\ \A i \in 1..added : rules[i].access \subseteq handled
        BY DEF AddRule, ConfinedInv
    <2>3. added \in Nat
        BY DEF ConfinedInv, TypeOK
    <2>4. \A i \in 1..(added + 1) : rules[i].access \subseteq handled
        BY <1>3, <2>2, <2>3
    <2>. QED
        BY <1>1, <1>2, <2>1, <2>2, <2>4 DEF ConfinedInv
<1>4. CASE ~(rules[added + 1].access \subseteq handled)
    <2>1. phase' = "exit"
        BY <1>4 DEF AddRule
    <2>. QED
        BY <1>1, <2>1 DEF ConfinedInv
<1>. QED
    BY <1>3, <1>4

(* The program is executed once every rule is added and the process is  *)
(* restricted.                                                            *)
LEMMA RestrictSelfConfinedInv ==
    ASSUME ConfinedInv, RestrictSelf
    PROVE  ConfinedInv'
<1>1. TypeOK'
    BY RestrictSelfTypeOK DEF ConfinedInv
<1>2. /\ phase = "rules" /\ phase' = "exec" /\ restricted'
      /\ added = Len(rules)
      /\ UNCHANGED <<accessFs, rules, added, handled>>
    BY DEF RestrictSelf
<1>. QED
    BY <1>1, <1>2 DEF ConfinedInv

LEMMA NextConfinedInv == ConfinedInv /\ [Next]_llVars => ConfinedInv'
<1>. SUFFICES ASSUME ConfinedInv, [Next]_llVars PROVE ConfinedInv'
    OBVIOUS
<1>1. CASE \E s \in AccessArgs : ParseAccess(s)
    BY <1>1, ParseAccessConfinedInv
<1>2. CASE \E s \in RuleArgs : ParseRule(s)
    BY <1>2, ParseRuleConfinedInv
<1>3. CASE CreateRuleset
    BY <1>3, CreateRulesetConfinedInv
<1>4. CASE AddRule
    BY <1>4, AddRuleConfinedInv
<1>5. CASE RestrictSelf
    BY <1>5, RestrictSelfConfinedInv
<1>6. CASE UNCHANGED llVars
    BY <1>6 DEF llVars, ConfinedInv, TypeOK
<1>. QED
    BY <1>1, <1>2, <1>3, <1>4, <1>5, <1>6 DEF Next

LEMMA ConfinedInvExecConfined == ConfinedInv => ExecConfined
BY DEF ConfinedInv, ExecConfined

(* Whenever setpriv executes the program with landlock access requested, *)
(* do_landlock restricted the process with a ruleset handling exactly    *)
(* the requested rights, and every --landlock-rule was accepted by        *)
(* landlock_add_rule: none is dropped on the way to exec.                 *)
THEOREM Confined == Spec => []ExecConfined
<1>1. Spec => []ConfinedInv
    BY InitConfinedInv, NextConfinedInv, PTL DEF Spec
<1>. QED
    BY <1>1, ConfinedInvExecConfined, PTL
=============================================================================
