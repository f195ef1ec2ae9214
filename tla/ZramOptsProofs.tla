-------------------------- MODULE ZramOptsProofs --------------------------
(***************************************************************************)
(* Proofs about zramctl's option handling, for command lines of any      *)
(* length: every command line of one of the forms of the usage text is   *)
(* accepted by main() and runs the action of that form.                   *)
(***************************************************************************)
EXTENDS ZramOpts, LeastElement, TLAPS

(* An option that was given has a last position, which Last names. *)
LEMMA LastGiven ==
    ASSUME NEW os \in Seq(Letters), NEW c, Has(os, c)
    PROVE  Last(os, c) \in 1..Len(os)
<1>. DEFINE T == {k \in 1..Len(os) : os[k] = c}
            U == {Len(os) - k : k \in T}
<1>1. U \subseteq Nat /\ U # {}
    BY DEF Has
<1>2. PICK u \in U : \A v \in U : u <= v
    BY <1>1, LeastNat
<1>3. PICK k0 \in T : u = Len(os) - k0
    BY <1>2
<1>4. \A j \in k0 + 1..Len(os) : os[j] # c
    <2>. SUFFICES ASSUME NEW j \in k0 + 1..Len(os), os[j] = c PROVE FALSE
        OBVIOUS
    <2>1. j \in T
        OBVIOUS
    <2>2. Len(os) - j \in U
        BY <2>1
    <2>3. u <= Len(os) - j
        BY <1>2, <2>2
    <2>4. k0 \in 1..Len(os) /\ j \in 1..Len(os)
        OBVIOUS
    <2>. QED
        BY <1>3, <2>3, <2>4
<1>5. \E k \in 1..Len(os) : os[k] = c /\ \A j \in k + 1..Len(os) : os[j] # c
    BY <1>3, <1>4
<1>. QED
    BY <1>5 DEF Last

(* An option that was not given has position 0. *)
LEMMA LastNotGiven ==
    ASSUME NEW os, NEW c, ~Has(os, c)
    PROVE  Last(os, c) = 0
BY DEF Last

(* An option in the set of those given was given. *)
LEMMA GivenHas ==
    ASSUME NEW os \in Seq(Letters), NEW c, c \in {os[k] : k \in 1..Len(os)}
    PROVE  Has(os, c)
BY DEF Has

(* An option outside a set that holds all those given was not given. *)
LEMMA GivenWithin ==
    ASSUME NEW os \in Seq(Letters), NEW S, {os[k] : k \in 1..Len(os)} \subseteq S,
           NEW c, c \notin S
    PROVE  ~Has(os, c)
BY DEF Has

(* No row of excl[] has two different options given. *)
LEMMA NotExclusive ==
    ASSUME NEW os \in Seq(Letters),
           \A g \in Excl : \A x, y \in {os[k] : k \in 1..Len(os)} \cap g : x = y
    PROVE  ~Exclusive(os)
BY DEF Exclusive
-----------------------------------------------------------------------------
(* One lemma per form of the usage text *)

LEMMA ResetForm ==
    ASSUME NEW os \in Seq(Letters), NEW ds \in Seq(Nat),
           "r" \in {os[k] : k \in 1..Len(os)},
           {os[k] : k \in 1..Len(os)} \subseteq {"r", "b", "n", "raw", "output-all"},
           ds # << >>
    PROVE  /\ Synopsis(os, ds) = "reset"
           /\ MainError(os, ds) = "none" /\ Act(os) = "reset"
<1>. DEFINE G == {os[k] : k \in 1..Len(os)}
<1>1. Synopsis(os, ds) = "reset"
    BY DEF Synopsis
<1>. DEFINE R == {"r", "b", "n", "raw", "output-all"}
<1>2. /\ Has(os, "r")
      /\ ~Has(os, "s") /\ ~Has(os, "f") /\ ~Has(os, "a") /\ ~Has(os, "p") /\ ~Has(os, "t")
    <2>1. Has(os, "r")
        BY GivenHas
    <2>2. \A c \in {"s", "f", "a", "p", "t"} : c \notin R
        OBVIOUS
    <2>3. \A c \in {"s", "f", "a", "p", "t"} : ~Has(os, c)
        BY <2>2, GivenWithin
    <2>. QED
        BY <2>1, <2>3
<1>3. Last(os, "r") \in 1..Len(os) /\ Last(os, "s") = 0
    BY <1>2, LastGiven, LastNotGiven
<1>4. Act(os) = "reset"
    BY <1>3 DEF Act
<1>5. ~Exclusive(os)
    <2>1. \A g \in Excl : G \cap g \subseteq {"r"}
        BY DEF Excl
    <2>. QED
        BY <2>1, NotExclusive
<1>6. MainError(os, ds) = "none"
    BY <1>2, <1>4, <1>5 DEF MainError
<1>. QED
    BY <1>1, <1>4, <1>6

LEMMA CreateForm ==
    ASSUME NEW os \in Seq(Letters), NEW ds \in Seq(Nat),
           "s" \in {os[k] : k \in 1..Len(os)},
           {os[k] : k \in 1..Len(os)} \subseteq CreateOpts,
           ("f" \in {os[k] : k \in 1..Len(os)}) <=> (ds = << >>),
           Len(ds) <= 1
    PROVE  /\ Synopsis(os, ds) = "create"
           /\ MainError(os, ds) = "none" /\ Act(os) = "create"
<1>. DEFINE G == {os[k] : k \in 1..Len(os)}
<1>0. "r" \notin G
    BY DEF CreateOpts
<1>1. Synopsis(os, ds) = "create"
    BY <1>0 DEF Synopsis
<1>2. /\ Has(os, "s") /\ ~Has(os, "r")
      /\ (Has(os, "f") <=> (ds = << >>))
    <2>1. Has(os, "s")
        BY GivenHas
    <2>2. ~Has(os, "r")
        BY <1>0 DEF Has
    <2>3. Has(os, "f") <=> "f" \in G
        BY DEF Has
    <2>. QED
        BY <2>1, <2>2, <2>3
<1>3. Last(os, "s") \in 1..Len(os) /\ Last(os, "r") = 0
    BY <1>2, LastGiven, LastNotGiven
<1>4. Act(os) = "create"
    BY <1>3 DEF Act
<1>5. ~Exclusive(os)
    <2>1. G \cap {"f", "o", "r"} \subseteq {"f"} /\ G \cap {"o", "r", "s"} \subseteq {"s"}
        BY <1>0 DEF CreateOpts
    <2>. QED
        BY <2>1, NotExclusive DEF Excl
<1>6. ~(Len(ds) > 1)
    OBVIOUS
<1>7. MainError(os, ds) = "none"
    BY <1>2, <1>4, <1>5, <1>6 DEF MainError
<1>. QED
    BY <1>1, <1>4, <1>7

LEMMA FindOnlyForm ==
    ASSUME NEW os \in Seq(Letters), NEW ds \in Seq(Nat),
           "f" \in {os[k] : k \in 1..Len(os)},
           {os[k] : k \in 1..Len(os)} \subseteq {"f", "b", "n", "raw", "output-all"},
           ds = << >>
    PROVE  /\ Synopsis(os, ds) = "findonly"
           /\ MainError(os, ds) = "none" /\ Act(os) = "findonly"
<1>. DEFINE G == {os[k] : k \in 1..Len(os)}
<1>1. Synopsis(os, ds) = "findonly"
    BY DEF Synopsis
<1>. DEFINE F == {"f", "b", "n", "raw", "output-all"}
<1>2. /\ Has(os, "f")
      /\ ~Has(os, "s") /\ ~Has(os, "r") /\ ~Has(os, "a") /\ ~Has(os, "p") /\ ~Has(os, "t")
    <2>1. Has(os, "f")
        BY GivenHas
    <2>2. \A c \in {"s", "r", "a", "p", "t"} : c \notin F
        OBVIOUS
    <2>3. \A c \in {"s", "r", "a", "p", "t"} : ~Has(os, c)
        BY <2>2, GivenWithin
    <2>. QED
        BY <2>1, <2>3
<1>3. Last(os, "r") = 0 /\ Last(os, "s") = 0
    BY <1>2, LastNotGiven
<1>4. Act(os) = "findonly"
    BY <1>2, <1>3 DEF Act
<1>5. ~Exclusive(os)
    <2>1. \A g \in Excl : G \cap g \subseteq {"f"}
        BY DEF Excl
    <2>. QED
        BY <2>1, NotExclusive
<1>6. MainError(os, ds) = "none"
    BY <1>2, <1>4, <1>5 DEF MainError
<1>. QED
    BY <1>1, <1>4, <1>6

LEMMA StatusForm ==
    ASSUME NEW os \in Seq(Letters), NEW ds \in Seq(Nat),
           {os[k] : k \in 1..Len(os)} \subseteq StatusOpts,
           Len(ds) <= 1
    PROVE  /\ Synopsis(os, ds) = "status"
           /\ MainError(os, ds) = "none" /\ Act(os) = "status"
<1>. DEFINE G == {os[k] : k \in 1..Len(os)}
<1>1. Synopsis(os, ds) = "status"
    BY DEF Synopsis, StatusOpts
<1>2. /\ ~Has(os, "f") /\ ~Has(os, "s") /\ ~Has(os, "r")
      /\ ~Has(os, "a") /\ ~Has(os, "p") /\ ~Has(os, "t")
    <2>2. \A c \in {"f", "s", "r", "a", "p", "t"} : c \notin StatusOpts
        BY DEF StatusOpts
    <2>3. \A c \in {"f", "s", "r", "a", "p", "t"} : ~Has(os, c)
        BY <2>2, GivenWithin
    <2>. QED
        BY <2>3
<1>3. Last(os, "r") = 0 /\ Last(os, "s") = 0
    BY <1>2, LastNotGiven
<1>4. Act(os) = "status"
    BY <1>2, <1>3 DEF Act
<1>5. ~Exclusive(os)
    <2>1. \A g \in Excl : G \cap g \subseteq {"o"}
        BY DEF Excl, StatusOpts
    <2>. QED
        BY <2>1, NotExclusive
<1>6. ~(Len(ds) > 1)
    BY Z3
<1>7. MainError(os, ds) = "none"
    BY <1>2, <1>4, <1>5, <1>6 DEF MainError
<1>. QED
    BY <1>1, <1>4, <1>7
-----------------------------------------------------------------------------
(* A command line of one of the forms is accepted and runs its action. *)
LEMMA FormAccepted ==
    ASSUME NEW os \in Seq(Letters), NEW ds \in Seq(Nat), Synopsis(os, ds) # "none"
    PROVE  /\ MainError(os, ds) = "none"
           /\ Main(os, ds).act = Synopsis(os, ds)
           /\ Main(os, ds).devs = ds
<1>. DEFINE G == {os[k] : k \in 1..Len(os)}
<1>. SUFFICES MainError(os, ds) = "none" /\ Act(os) = Synopsis(os, ds)
    BY DEF Main
<1>1. CASE "r" \in G /\ G \subseteq {"r", "b", "n", "raw", "output-all"} /\ ds # << >>
    BY <1>1, ResetForm
<1>2. CASE ~("r" \in G /\ G \subseteq {"r", "b", "n", "raw", "output-all"} /\ ds # << >>)
           /\ "s" \in G /\ G \subseteq CreateOpts
           /\ ("f" \in G <=> ds = << >>) /\ Len(ds) <= 1
    BY <1>2, CreateForm
<1>3. CASE ~("r" \in G /\ G \subseteq {"r", "b", "n", "raw", "output-all"} /\ ds # << >>)
           /\ ~("s" \in G /\ G \subseteq CreateOpts
                /\ ("f" \in G <=> ds = << >>) /\ Len(ds) <= 1)
           /\ "f" \in G /\ G \subseteq {"f", "b", "n", "raw", "output-all"} /\ ds = << >>
    BY <1>3, FindOnlyForm
<1>4. CASE ~("r" \in G /\ G \subseteq {"r", "b", "n", "raw", "output-all"} /\ ds # << >>)
           /\ ~("s" \in G /\ G \subseteq CreateOpts
                /\ ("f" \in G <=> ds = << >>) /\ Len(ds) <= 1)
           /\ ~("f" \in G /\ G \subseteq {"f", "b", "n", "raw", "output-all"} /\ ds = << >>)
           /\ G \subseteq StatusOpts /\ Len(ds) <= 1
    BY <1>4, StatusForm
<1>5. CASE ~("r" \in G /\ G \subseteq {"r", "b", "n", "raw", "output-all"} /\ ds # << >>)
           /\ ~("s" \in G /\ G \subseteq CreateOpts
                /\ ("f" \in G <=> ds = << >>) /\ Len(ds) <= 1)
           /\ ~("f" \in G /\ G \subseteq {"f", "b", "n", "raw", "output-all"} /\ ds = << >>)
           /\ ~(G \subseteq StatusOpts /\ Len(ds) <= 1)
    <2>1. Synopsis(os, ds) = "none"
        BY <1>5 DEF Synopsis
    <2>. QED
        BY <2>1
<1>. QED
    BY <1>1, <1>2, <1>3, <1>4, <1>5

\* the command line is a sequence of options and one of device numbers
OptsTyped == opts \in Seq(Letters) /\ args \in Seq(Nat)

(* Every command line of one of the forms of the usage text, whatever    *)
(* its length, is accepted by zramctl's main(), which runs the action of *)
(* that form on the devices given (the property the run zram_opts checks *)
(* for the lines of up to three options).                                 *)
THEOREM UsageAccepted == Spec => []SynopsisAccepted
<1>1. Init => OptsTyped
    BY ZramOptsAssumption DEF Init, OptsTyped
<1>2. OptsTyped /\ [UNCHANGED <<opts, args>>]_<<opts, args>> => OptsTyped'
    BY DEF OptsTyped
<1>3. OptsTyped => SynopsisAccepted
    BY FormAccepted DEF OptsTyped, SynopsisAccepted
<1>. QED
    BY <1>1, <1>2, <1>3, PTL DEF Spec
=============================================================================
