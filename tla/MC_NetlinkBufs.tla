---------------------------- MODULE MC_NetlinkBufs ----------------------------
(* Constants of NetlinkBufs for TLC.  UINT_MAX is scaled down to 1000      *)
(* (TLC's integers are 32-bit signed); only its comparison with the value  *)
(* is modelled, so the argument tokens sit on both sides of it: 0, a size, *)
(* UINT_MAX, UINT_MAX + 1, a negative number, junk, booleans and a word.   *)
(* Two sockets, symmetric, show that lines of one leave the other alone.   *)
EXTENDS NetlinkBufs, TLC

CONSTANTS vrrp_netlink_monitor, vrrp_netlink_cmd

MCSockets == {vrrp_netlink_monitor, vrrp_netlink_cmd}

MCSymmetry == Permutations(MCSockets)

MCUintMax == 1000

MCArgs == {Tok("num", 0, 1), Tok("num", 512, 3), Tok("num", 1000, 4),
           Tok("num", 1001, 4), Tok("num", -1, 2), Tok("numjunk", 5, 2),
           Tok("true", 0, 4), Tok("off", 0, 3)}
=============================================================================
