\* setpriv with up to three landlock options, then do_landlock.
CONSTANTS
    ParseError = ParseError
    AccessFs <- MCAccessFs
    KernelRights <- MCKernelRights
    AccessArgs <- MCAccessArgs
    RuleArgs <- MCRuleArgs
    Openable <- MCOpenable
    MaxArgs = 3
SPECIFICATION Spec
\* setpriv executes the program or exits.
CHECK_DEADLOCK FALSE
INVARIANT TypeOK ExecConfined
