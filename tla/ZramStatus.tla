----------------------------- MODULE ZramStatus -----------------------------
(***************************************************************************)
(* What zramctl's status output shows of one device: fill_table_row()'s  *)
(* ALGORITHM and statistics columns, computed from the sysfs files of   *)
(* the device, and column_name_to_id() for --output.                    *)
(*                                                                         *)
(* The sysfs files are built from the kernel's values the way the kernel *)
(* prints them: comp_algorithm lists the algorithms with the selected one *)
(* in brackets, mm_stat (Linux >= 4.1) has the statistics as "%8llu"     *)
(* fields separated by spaces, and older kernels have one file per       *)
(* statistic.  The properties compare what zramctl shows with the values  *)
(* the files were built from.                                             *)
(***************************************************************************)
EXTENDS Naturals, Integers, Sequences, TLC

CONSTANTS
    Algs,       \* the compression algorithms the kernel offers, in order
    Stats,      \* the sets of statistics values to check
    Names       \* the --output column names to check

VARIABLES
    stat,       \* the kernel's statistics: [1..7 -> Nat], in mm_stat order
    sel,        \* the index of the selected algorithm in Algs
    hasMmStat,  \* the kernel has /sys/block/zram<id>/mm_stat
    inbytes,    \* zramctl --bytes
    name        \* an --output column name

svars == <<stat, sel, hasMmStat, inbytes, name>>

Char(s, k) == SubSeq(s, k, k)
-----------------------------------------------------------------------------
(* The sysfs files, as the kernel writes them *)

\* zcomp_available_show(): "alg " for each algorithm, "[alg] " for the
\* selected one; ul_path_read_string() drops the final newline
RECURSIVE AlgList(_, _)
AlgList(k, s) ==
    IF k > Len(Algs) THEN ""
    ELSE (IF k = s THEN "[" \o Algs[k] \o "] " ELSE Algs[k] \o " ") \o AlgList(k + 1, s)

\* a number printed with "%8llu"
RECURSIVE Pad8(_)
Pad8(str) == IF Len(str) >= 8 THEN str ELSE Pad8(" " \o str)

\* mm_stat_show(): the seven statistics zramctl reads, and two more
RECURSIVE MmStatFrom(_, _)
MmStatFrom(v, k) ==
    IF k > Len(v) THEN Pad8("0") \o " " \o Pad8("0")
    ELSE Pad8(ToString(v[k])) \o " " \o MmStatFrom(v, k + 1)
-----------------------------------------------------------------------------
(* zramctl *)

\* infos[]: the column names, by column id
Columns == <<"NAME", "DISKSIZE", "DATA", "COMPR", "ALGORITHM", "STREAMS",
             "ZERO-PAGES", "TOTAL", "MEM-LIMIT", "MEM-USED", "MIGRATED",
             "COMP-RATIO", "MOUNTPOINT">>

\* mm_stat_names[], indexed by MM_* + 1
MmStatNames == <<"orig_data_size", "compr_data_size", "mem_used_total",
                 "mem_limit", "mem_used_max", "zero_pages", "num_migrated">>

\* c_strncasecmp() folds ASCII letters
Lower == "abcdefghijklmnopqrstuvwxyz"
Upper == "ABCDEFGHIJKLMNOPQRSTUVWXYZ"
FoldChar(c) ==
    IF \E k \in 1..26 : Char(Lower, k) = c
    THEN Char(Upper, CHOOSE k \in 1..26 : Char(Lower, k) = c) ELSE c
Fold(s) == [k \in 1..Len(s) |-> FoldChar(Char(s, k))]

\* fault variant: the check that the column name ends is left out
ColumnNameToIdPrefix(nm) ==
    LET m == {k \in 1..Len(Columns) :
                Len(Columns[k]) >= Len(nm) /\ Fold(SubSeq(Columns[k], 1, Len(nm))) = Fold(nm)}
    IN IF m = {} THEN -1 ELSE (CHOOSE k \in m : \A j \in m : k <= j) - 1

\* column_name_to_id(name, namesz): the first column whose name agrees
\* with the namesz characters given, ignoring case, and ends there
ColumnNameToId(nm) ==
    LET m == {k \in 1..Len(Columns) :
                /\ Len(Columns[k]) >= Len(nm) /\ Fold(SubSeq(Columns[k], 1, Len(nm))) = Fold(nm)
                /\ Len(Columns[k]) = Len(nm)}
    IN IF m = {} THEN -1 ELSE (CHOOSE k \in m : \A j \in m : k <= j) - 1

\* ul_strv_split(str, " "): the words between runs of spaces
RECURSIVE Words(_)
Words(s) ==
    LET sp == {k \in 1..Len(s) : Char(s, k) = " "}
        k1 == IF sp = {} THEN Len(s) + 1 ELSE CHOOSE k \in sp : \A j \in sp : k <= j
    IN IF s = "" THEN << >>
       ELSE IF k1 = 1 THEN Words(SubSeq(s, 2, Len(s)))
       ELSE <<SubSeq(s, 1, k1 - 1)>> \o Words(SubSeq(s, k1 + 1, Len(s)))

\* strtou64_or_err() of a string of digits
RECURSIVE Num(_)
Num(s) ==
    IF s = "" THEN 0
    ELSE 10 * Num(SubSeq(s, 1, Len(s) - 1))
         + (CHOOSE d \in 0..9 : ToString(d) = Char(s, Len(s)))

\* size_to_human_string(SIZE_SUFFIX_1LETTER, n) for n < 1024
Human(n) == ToString(n) \o "B"

\* fault variant: the statistic of the next field is read
GetMmStatNext(idx) ==
    IF hasMmStat /\ Len(Words(MmStatFrom(stat, 1))) >= Len(MmStatNames)
    THEN Words(MmStatFrom(stat, 1))[idx + 2]
    ELSE ToString(stat[idx + 1])

\* get_mm_stat(z, idx, ...): field idx of mm_stat when the kernel has it
\* with all the fields, else the file mm_stat_names[idx]; as the digits
GetMmStat(idx) ==
    IF hasMmStat /\ Len(Words(MmStatFrom(stat, 1))) >= Len(MmStatNames)
    THEN Words(MmStatFrom(stat, 1))[idx + 1]
    ELSE ToString(stat[idx + 1])

\* get_mm_stat_string(z, idx, bytes): the digits, or the human size
MmStatString(idx, bytes) ==
    IF bytes THEN GetMmStat(idx) ELSE Human(Num(GetMmStat(idx)))

\* get_mm_stat_number(z, idx)
MmStatNumber(idx) == Num(GetMmStat(idx))

\* fault variant: the copy takes rbr - lbr characters, the ']' included
AlgorithmLong(alg) ==
    LET lb == {k \in 1..Len(alg) : Char(alg, k) = "["}
        rb == {k \in 1..Len(alg) : Char(alg, k) = "]"}
        l == CHOOSE k \in lb : \A j \in lb : j <= k
        r == CHOOSE k \in rb : \A j \in rb : j <= k
    IN IF lb # {} /\ rb # {} /\ r - l > 1 THEN SubSeq(alg, l + 1, r) ELSE "none"

\* COL_ALGORITHM: the text between the last '[' and the last ']', when
\* there is at least one character between them
Algorithm(alg) ==
    LET lb == {k \in 1..Len(alg) : Char(alg, k) = "["}
        rb == {k \in 1..Len(alg) : Char(alg, k) = "]"}
        l == CHOOSE k \in lb : \A j \in lb : j <= k
        r == CHOOSE k \in rb : \A j \in rb : j <= k
    IN IF lb # {} /\ rb # {} /\ r - l > 1 THEN SubSeq(alg, l + 1, r - 1) ELSE "none"

---------------------------------------------------------------------------
Init ==
    /\ stat \in Stats
    /\ sel \in 1..Len(Algs)
    /\ hasMmStat \in BOOLEAN
    /\ inbytes \in BOOLEAN
    /\ name \in Names

Spec == Init /\ [][UNCHANGED svars]_svars

\* The ALGORITHM column shows the algorithm the kernel has selected.
AlgorithmShown == Algorithm(AlgList(1, sel)) = Algs[sel]

\* The DATA, COMPR, TOTAL, MEM-LIMIT, MEM-USED and MIGRATED columns show
\* the kernel's statistics (as bytes with --bytes), and ZERO-PAGES the
\* page count, whether they come from mm_stat or from the older files.
MmStatShown ==
    /\ \A idx \in {0, 1, 2, 3, 4, 6} :
         MmStatString(idx, inbytes) = IF inbytes THEN ToString(stat[idx + 1]) ELSE Human(stat[idx + 1])
    /\ MmStatString(5, TRUE) = ToString(stat[6])

\* --output accepts a column name exactly when it is the name of a
\* column, in any case, and selects that column.
ColumnsAsNamed ==
    ColumnNameToId(name) =
        IF \E k \in 1..Len(Columns) : Fold(Columns[k]) = Fold(name)
        THEN (CHOOSE k \in 1..Len(Columns) : Fold(Columns[k]) = Fold(name)) - 1
        ELSE -1

=============================================================================
