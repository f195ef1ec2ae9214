\* parse_landlock_fs_access on every list of up to three tokens.
CONSTANTS
    ParseError = ParseError
    AccessFs <- MCAccessFs
    KernelRights <- MCKernelRights
    AccessArgs <- MCAccessArgs
    RuleArgs <- MCRuleArgs
    Openable <- MCOpenable
    FsLists <- MCFsLists
    MaxArgs = 3
SPECIFICATION ParseSpec
\* a parse is one function application: no step follows it.
CHECK_DEADLOCK FALSE
INVARIANT ParseAgreesWithReference
