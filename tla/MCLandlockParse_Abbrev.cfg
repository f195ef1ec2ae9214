\* Abbreviated right names are refused (usage text: fs[:<right>, ...]).
CONSTANTS
    ParseError = ParseError
    AccessFs <- MCAccessFs
    KernelRights <- MCKernelRights
    AccessArgs <- MCAccessArgs
    RuleArgs <- MCRuleArgs
    Openable <- MCOpenable
    FsLists <- MCFsLists
    MaxArgs = 3
SPECIFICATION ParseSpec
\* a parse is one function application: no step follows it.
CHECK_DEADLOCK FALSE
INVARIANT NoAbbreviation
