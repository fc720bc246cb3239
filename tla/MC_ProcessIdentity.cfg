CONSTANTS
    Names <- MCNames
    NoName = NoName
    NullVec = NullVec
    MaxReloads = 3

SPECIFICATION Spec

INVARIANT TypeOK
