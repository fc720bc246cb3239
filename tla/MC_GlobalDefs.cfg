CONSTANTS
    global = global
    Fifos <- MCFifos
    Names <- MCNames
    NoName = NoName_
    NullVec = NullVec_
    StringDirectives <- MCStringDirectives
    StringArgs <- MCStringArgs
    ServerArgs <- MCServerArgs
    TimeoutArgs <- MCTimeoutArgs
    AlertDirectives <- MCAlertDirectives
    AlertArgs <- MCAlertArgs
    AlertDefault <- MCAlertDefault
    Blocks <- MCBlocks
    MAX_EMAILS = 2
    ToggleDirectives <- MCToggleDirectives
    IfNames <- MCIfNames
    ExistingIfs <- MCExistingIfs
    SocketArgs <- MCSocketArgs
    PATH_MAX = 16
    WaitArgs <- MCWaitArgs
    Garbage <- MCGarbage
    ULONG_WIDTH = 16
    TIMER_HZ = 100
    UserArgs <- MCUserArgs
    PrimaryGroup <- MCPrimaryGroup
    NoName_ = NoName_
    NullVec_ = NullVec_

SPECIFICATION Spec
VIEW MCView
\* A NULL dereference may kill the process, which then reads no more lines.
CHECK_DEADLOCK FALSE

INVARIANT TypeOK
