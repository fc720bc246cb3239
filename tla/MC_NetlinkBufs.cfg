SPECIFICATION Spec
CONSTANTS
    vrrp_netlink_monitor = vrrp_netlink_monitor
    vrrp_netlink_cmd = vrrp_netlink_cmd
    NullVec = NullVec
    Sockets <- MCSockets
    Args <- MCArgs
    UINT_MAX <- MCUintMax
    DefaultBufs = 0
    DefaultForce = 0
SYMMETRY MCSymmetry
INVARIANT TypeOK
PROPERTY RejectedLineKeepsSetting
