SPECIFICATION Spec
CONSTANTS
    vrrp = vrrp
    checker = checker
    Processes <- MCProcesses
    Args <- MCArgs
    RtArgs <- MCRtArgs
    SCHED_RR_MIN = 1
    SCHED_RR_MAX = 99
    Garbage <- MCGarbage
SYMMETRY MCSymmetry
\* A read past the vector may kill the process, which then reads no more lines.
CHECK_DEADLOCK FALSE
PROPERTY PriorityErrorsPerSpec
