CONSTANTS
    Lines <- MCLines
    IP_VS_IFNAME_MAXLEN <- MCIfnameMaxlen
    NoName = NoName

SPECIFICATION Spec

INVARIANT TypeOK
INVARIANT SyncdMatchesPairs
PROPERTY ImplementsSyncdLineSpec
