------------------------------ MODULE NetlinkBufs ------------------------------
(***************************************************************************)
(* The netlink receive buffer directives of global_defs                    *)
(* (src/keepalived/core/global_parser.c): vrrp_netlink_monitor_rcv_bufs,   *)
(* vrrp_netlink_cmd_rcv_bufs, lvs_netlink_monitor_rcv_bufs,                *)
(* lvs_netlink_cmd_rcv_bufs and their *_force variants.  The four sockets  *)
(* run the same two handlers on their own fields, so a field is a function *)
(* of the socket.  A handler may also be called with strvec == NULL.       *)
(***************************************************************************)
EXTENDS KaToken, Integers, Sequences

CONSTANTS
    Sockets,       \* vrrp_netlink_monitor, vrrp_netlink_cmd, lvs_netlink_...
    Args,          \* the argument tokens a line is tried with
    NullVec,       \* the handler called with strvec == NULL
    UINT_MAX,      \* the largest unsigned
    DefaultBufs,   \* the size global_data starts with
    DefaultForce   \* the force flag global_data starts with

VARIABLES
    rcv_bufs,        \* [s |-> global_data-><s>_rcv_bufs]
    rcv_bufs_force,  \* [s |-> global_data-><s>_rcv_bufs_force]
    last             \* ghost: [dir, sock, strvec] of the step

vars == <<rcv_bufs, rcv_bufs_force, last>>

Line(d, args) == <<Tok(d, 0, 28)>> \o args

Lines(d) == {NullVec, Line(d, <<>>)} \cup {Line(d, <<t>>) : t \in Args}

Init ==
    /\ rcv_bufs = [s \in Sockets |-> DefaultBufs]
    /\ rcv_bufs_force = [s \in Sockets |-> DefaultForce]
    /\ last = [dir |-> "none", sock |-> "none", strvec |-> NullVec]

Handled(d, s, strvec) == last' = [dir |-> d, sock |-> s, strvec |-> strvec]

(***************************************************************************)
(* get_netlink_rcv_bufs_size(): 0 for a NULL or short vector, a value with *)
(* trailing characters or one above UINT_MAX (a negative one is huge to    *)
(* strtoul); otherwise the value.                                          *)
(***************************************************************************)
get_netlink_rcv_bufs_size(strvec) ==
    IF strvec = NullVec \/ VectorSize(strvec) < 2 THEN 0
    ELSE LET t == Slot(strvec, 1)
         IN  IF ~EndptrAtEnd(t) \/ StrtoulAbove(t, UINT_MAX) THEN 0
             ELSE StrtolVal(t)

(* Mutant: the size is stored even when it is 0. *)
rcv_bufs_handler_store_zero(s, strvec) ==
    /\ rcv_bufs' = IF strvec = NullVec THEN rcv_bufs
                   ELSE [rcv_bufs EXCEPT ![s] = get_netlink_rcv_bufs_size(strvec)]
    /\ Handled("rcv_bufs", s, strvec)
    /\ UNCHANGED rcv_bufs_force

(* *_netlink_*_rcv_bufs_handler(): a size of 0 is not stored. *)
rcv_bufs_handler(s, strvec) ==
    /\ LET val == get_netlink_rcv_bufs_size(strvec)
       IN  rcv_bufs' = IF strvec = NullVec \/ val = 0 THEN rcv_bufs
                       ELSE [rcv_bufs EXCEPT ![s] = val]
    /\ Handled("rcv_bufs", s, strvec)
    /\ UNCHANGED rcv_bufs_force

(* Mutant: check_true_false()'s -1 is stored. *)
rcv_bufs_force_handler_no_return(s, strvec) ==
    /\ rcv_bufs_force' =
          IF strvec = NullVec THEN rcv_bufs_force
          ELSE [rcv_bufs_force EXCEPT ![s] =
                  IF VectorSize(strvec) >= 2 THEN CheckTrueFalse(Slot(strvec, 1)) ELSE 1]
    /\ Handled("rcv_bufs_force", s, strvec)
    /\ UNCHANGED rcv_bufs

(***************************************************************************)
(* *_netlink_*_rcv_bufs_force_handler(): true without an argument,         *)
(* check_true_false() of it otherwise, and an invalid word returns.        *)
(***************************************************************************)
rcv_bufs_force_handler(s, strvec) ==
    /\ LET res == IF VectorSize(strvec) >= 2 THEN CheckTrueFalse(Slot(strvec, 1))
                  ELSE 1
       IN  rcv_bufs_force' = IF strvec = NullVec \/ res < 0 THEN rcv_bufs_force
                             ELSE [rcv_bufs_force EXCEPT ![s] = res]
    /\ Handled("rcv_bufs_force", s, strvec)
    /\ UNCHANGED rcv_bufs

Next ==
    \E s \in Sockets :
        \/ \E l \in Lines("rcv_bufs") : rcv_bufs_handler(s, l)
        \/ \E l \in Lines("rcv_bufs_force") : rcv_bufs_force_handler(s, l)

Spec == Init /\ [][Next]_vars

-----------------------------------------------------------------------------
TypeOK ==
    /\ rcv_bufs \in [Sockets -> 0..UINT_MAX]
    /\ rcv_bufs_force \in [Sockets -> {0, 1}]

(***************************************************************************)
(* RejectedLineKeepsSetting (spec.md 4.1, 7): a buffer size line that is   *)
(* not a number in 1..UINT_MAX, and a force line whose word is not a       *)
(* boolean, leave the sizes and flags of every socket as they were; the    *)
(* 0 that get_netlink_rcv_bufs_size() returns for every error is never     *)
(* taken for a size.                                                       *)
(***************************************************************************)
RejectedLineKeepsSetting ==
    [][LET l == last'.strvec
           arg == l # NullVec /\ VectorSize(l) >= 2
       IN  /\ (last'.dir = "rcv_bufs"
                 /\ ~(arg /\ EndptrAtEnd(Slot(l, 1))
                          /\ StrtolVal(Slot(l, 1)) \in 1..UINT_MAX))
                 => UNCHANGED <<rcv_bufs, rcv_bufs_force>>
           /\ (last'.dir = "rcv_bufs_force"
                 /\ arg /\ CheckTrueFalse(Slot(l, 1)) < 0)
                 => UNCHANGED <<rcv_bufs, rcv_bufs_force>>]_vars
=============================================================================
