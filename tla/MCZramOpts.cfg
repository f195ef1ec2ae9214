\* Every command line of up to three options and two devices.
CONSTANTS
    Opts <- MCOpts
    Args <- MCArgs
SPECIFICATION Spec
\* one command line per initial state: nothing follows it
CHECK_DEADLOCK FALSE
INVARIANT SynopsisAccepted
