\* The status columns of one device, for every statistics value.
CONSTANTS
    Algs <- MCAlgs
    Stats <- MCStats
    Names <- MCNames
SPECIFICATION Spec
\* one device snapshot per initial state: nothing follows it
CHECK_DEADLOCK FALSE
INVARIANT AlgorithmShown MmStatShown ColumnsAsNamed
