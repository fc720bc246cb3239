CONSTANTS
    Lines <- MCLines
    LVS_MAX_TIMEOUT <- MCMaxTimeout

SPECIFICATION Spec

INVARIANT TypeOK
PROPERTY ScanMatchesPairs
PROPERTY ImplementsLineSpec
