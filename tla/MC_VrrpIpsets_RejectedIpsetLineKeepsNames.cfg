SPECIFICATION Spec
CONSTANTS
    IPSET_MAXNAMELEN = 7
    Names <- MCNames
    DefaultAddress <- MCDefaultAddress
PROPERTY RejectedIpsetLineKeepsNames
