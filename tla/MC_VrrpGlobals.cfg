CONSTANTS
    Args <- MCArgs
    ChainNames <- MCChainNames
    CHAIN_SIZE = 29
    GarpDirectives <- MCGarpDirectives
    GarpDefault <- MCGarpDefault
    AdvertDirectives <- MCAdvertDirectives
    FlagDirectives <- MCFlagDirectives
    UINT_WIDTH = 16
    TIMER_HZ = 100
    Junk <- MCJunk

SPECIFICATION Spec
VIEW MCView
\* A read past the token vector may kill the process, which then reads no
\* more lines.
CHECK_DEADLOCK FALSE

INVARIANT TypeOK
INVARIANT OutChainNeedsInChain
