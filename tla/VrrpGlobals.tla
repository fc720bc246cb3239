----------------------------- MODULE VrrpGlobals -----------------------------
(***************************************************************************)
(* The VRRP tuning directives of global_defs whose handlers validate or    *)
(* convert their argument (src/keepalived/core/global_parser.c):           *)
(* vrrp_mcast_group4/6, the eight vrrp_garp_* and vrrp_gna_interval        *)
(* timers and repeat counts, vrrp_lower_prio_no_advert,                    *)
(* vrrp_higher_prio_send_advert, vrrp_version, vrrp_iptables and the       *)
(* vrrp_check_unicast_src, vrrp_skip_check_adv_addr and vrrp_strict flags. *)
(*                                                                         *)
(* Handlers of the same code on different fields are one action           *)
(* parameterised by the directive, and their fields a function of it.     *)
(* `unsigned` has UINT_WIDTH bits: the * TIMER_HZ products wrap there.     *)
(*                                                                         *)
(* Each handler is one step.  `last` is a ghost holding the directive and  *)
(* token vector of the step, so that properties can relate a step to the  *)
(* line it handled; `fault` is a ghost naming the undefined behaviour of   *)
(* the step.  A crash ends the process: no step follows it.                *)
(***************************************************************************)
EXTENDS KaToken, Integers, Sequences

CONSTANTS
    Args,                \* [directive -> the argument tokens it is tried with]
    ChainNames,          \* the tokens vrrp_iptables is tried with
    CHAIN_SIZE,          \* sizeof(global_data->vrrp_iptables_inchain)
    GarpDirectives,      \* the vrrp_garp_* / gna directives enumerated
    GarpDefault,         \* [directive -> the value global_data starts with]
    AdvertDirectives,    \* the two optional-boolean advert directives
    FlagDirectives,      \* the set-to-1 flag directives enumerated
    UINT_WIDTH,          \* bits of unsigned
    TIMER_HZ,            \* timer units per second
    Junk                 \* what a pointer read past the vector may parse as

VARIABLES
    vrrp_mcast_group4,
    vrrp_mcast_group6,
    garp,            \* [d \in GarpDirectives |-> the delay or count it sets]
    advert,          \* [d \in AdvertDirectives |-> the boolean it sets]
    flags,           \* the flag directives given so far
    vrrp_version,
    vrrp_iptables_inchain,    \* the chain token, or Empty
    vrrp_iptables_outchain,
    crashed,         \* the process has died
    last,            \* ghost: [dir |-> directive, strvec |-> tokens]
    fault            \* ghost: the undefined behaviour of the step

fields == <<vrrp_mcast_group4, vrrp_mcast_group6, garp, advert, flags,
            vrrp_version, vrrp_iptables_inchain, vrrp_iptables_outchain>>

vars == <<fields, crashed, last, fault>>

(* Delays: (unsigned)strtoul(...) * TIMER_HZ. *)
ScaledDelays == {"vrrp_garp_master_delay", "vrrp_garp_lower_prio_delay"}

(* Intervals: (unsigned)(atof(...) * TIMER_HZ), a double converted. *)
Intervals == {"vrrp_garp_interval", "vrrp_gna_interval"}

(* The repeat handlers that raise a value below 1 to 1. *)
ClampedReps == {"vrrp_garp_master_repeat", "vrrp_garp_master_refresh_repeat"}

Empty == Tok("", 0, 0)   \* a chain name whose first byte is NUL

Line(d, args) == <<Tok(d, 0, 8)>> \o args

Init ==
    /\ vrrp_mcast_group4 = Unspecified
    /\ vrrp_mcast_group6 = Unspecified
    /\ garp = [d \in GarpDirectives |-> GarpDefault[d]]
    /\ advert = [d \in AdvertDirectives |-> FALSE]
    /\ flags = {}
    /\ vrrp_version = 2
    /\ vrrp_iptables_inchain = Empty
    /\ vrrp_iptables_outchain = Empty
    /\ crashed = FALSE
    /\ last = [dir |-> "none", strvec |-> <<>>]
    /\ fault = {}

Handled(d, strvec) == last' = [dir |-> d, strvec |-> strvec]

(* A step without undefined behaviour. *)
Defined == fault' = {} /\ UNCHANGED crashed

(* The process dies: nothing else of the line happens. *)
Crash == crashed' = TRUE /\ UNCHANGED fields

(* The directives whose handler reads strvec_slot(strvec, 1) unchecked. *)
Slot1Directives ==
    {"vrrp_mcast_group4", "vrrp_mcast_group6", "vrrp_version"} \cup GarpDirectives

(***************************************************************************)
(* What strvec_slot(strvec, 1) gives those handlers: the argument, or, on  *)
(* a line without one, whatever the pointer read past the vector parses    *)
(* as.                                                                     *)
(***************************************************************************)
Slot1Values(strvec) ==
    IF VectorSize(strvec) >= 2 THEN {Slot(strvec, 1)} ELSE Junk

ReadSlot1(d, strvec) ==
    /\ Handled(d, strvec)
    /\ fault' = IF VectorSize(strvec) >= 2 THEN {} ELSE {"oob_read"}
    /\ UNCHANGED crashed

(* Or the pointer read past the vector kills strtoul / inet_stosockaddr. *)
Slot1Crash(d) ==
    /\ Handled(d, Line(d, <<>>))
    /\ fault' = {"oob_read"}
    /\ Crash

(***************************************************************************)
(* vrrp_mcast_group4_handler() / vrrp_mcast_group6_handler(): the literal  *)
(* is parsed into the field and nothing else is checked.  Parsing an IPv6  *)
(* literal into the struct sockaddr_in of group4 writes past it, over the  *)
(* group6 field that follows it in global_data: what group6 then holds is *)
(* undefined and is chosen freely.                                         *)
(***************************************************************************)
vrrp_mcast_group4_handler(t) ==
    /\ vrrp_mcast_group4' = InetStosockaddr(t)
    /\ IF t.kind = "ip6"
       THEN vrrp_mcast_group6' \in {vrrp_mcast_group6,
                                    [vrrp_mcast_group6 EXCEPT !.family = "AF_CORRUPT"]}
       ELSE UNCHANGED vrrp_mcast_group6
    /\ UNCHANGED <<garp, advert, flags, vrrp_version, vrrp_iptables_inchain,
                   vrrp_iptables_outchain>>

vrrp_mcast_group6_handler(t) ==
    /\ vrrp_mcast_group6' = InetStosockaddr(t)
    /\ UNCHANGED <<vrrp_mcast_group4, garp, advert, flags, vrrp_version,
                   vrrp_iptables_inchain, vrrp_iptables_outchain>>

W == 2 ^ UINT_WIDTH

(***************************************************************************)
(* A double converted to unsigned: exact when it fits; otherwise undefined *)
(* in C, and the builds give either the low bits (x86-64 converts through  *)
(* a 64-bit integer) or the saturated value (aarch64).                     *)
(***************************************************************************)
ToUnsigned(x) ==
    IF x \in 0..(W - 1) THEN {x}
    ELSE {x % W, IF x < 0 THEN 0 ELSE W - 1}

(***************************************************************************)
(* The values a vrrp_garp_* / vrrp_gna_interval line can store: no end     *)
(* check, strtoul's value cast to unsigned, multiplied by TIMER_HZ in      *)
(* unsigned arithmetic for the delays, raised to 1 for the master and      *)
(* refresh repeats, and atof's value times TIMER_HZ converted for the      *)
(* intervals.  The refresh is a tv_sec of seconds.                         *)
(***************************************************************************)
GarpValues(d, t) ==
    LET v == StrtoulCast(t, UINT_WIDTH)
    IN  CASE d \in ScaledDelays -> {(v * TIMER_HZ) % W}
          [] d \in ClampedReps  -> {IF v < 1 THEN 1 ELSE v}
          [] d \in Intervals    -> ToUnsigned(StrtolVal(t) * TIMER_HZ)
          [] OTHER              -> {v}

(* The eight vrrp_garp_*_handler()s and vrrp_gna_interval_handler(). *)
garp_handler(d, t) ==
    /\ \E v \in GarpValues(d, t) : garp' = [garp EXCEPT ![d] = v]
    /\ UNCHANGED <<vrrp_mcast_group4, vrrp_mcast_group6, advert, flags,
                   vrrp_version, vrrp_iptables_inchain, vrrp_iptables_outchain>>

(***************************************************************************)
(* vrrp_lower_prio_no_advert_handler(), vrrp_higher_prio_send_advert_     *)
(* handler(): true without an argument, check_true_false() of it          *)
(* otherwise, and an invalid word is only logged.                          *)
(***************************************************************************)
advert_handler(d, strvec) ==
    /\ LET res == IF VectorSize(strvec) >= 2 THEN CheckTrueFalse(Slot(strvec, 1))
                  ELSE 1
       IN  advert' = IF res < 0 THEN advert ELSE [advert EXCEPT ![d] = res = 1]
    /\ Handled(d, strvec)
    /\ Defined
    /\ UNCHANGED <<vrrp_mcast_group4, vrrp_mcast_group6, garp, flags,
                   vrrp_version, vrrp_iptables_inchain, vrrp_iptables_outchain>>

(* vrrp_check_unicast_src_handler(), vrrp_check_adv_addr_handler(),
   vrrp_strict_handler(): the field is set to 1. *)
flag_handler(d) ==
    /\ flags' = flags \cup {d}
    /\ Handled(d, Line(d, <<>>))
    /\ Defined
    /\ UNCHANGED <<vrrp_mcast_group4, vrrp_mcast_group6, garp, advert,
                   vrrp_version, vrrp_iptables_inchain, vrrp_iptables_outchain>>

(* Mutant: only versions above 3 are refused. *)
VersionHandlerNoLowerCheck(t) ==
    /\ LET version == StrtoulCast(t, 8)
       IN  vrrp_version' = IF version <= 3 THEN version ELSE vrrp_version
    /\ UNCHANGED <<vrrp_mcast_group4, vrrp_mcast_group6, garp, advert, flags,
                   vrrp_iptables_inchain, vrrp_iptables_outchain>>

(***************************************************************************)
(* vrrp_version_handler(): (uint8_t)strtoul(), then VRRP_IS_BAD_VERSION,   *)
(* i.e. anything but 2 and 3 is refused.                                   *)
(***************************************************************************)
vrrp_version_handler(t) ==
    /\ LET version == StrtoulCast(t, 8)
       IN  vrrp_version' = IF version \in {2, 3} THEN version ELSE vrrp_version
    /\ UNCHANGED <<vrrp_mcast_group4, vrrp_mcast_group6, garp, advert, flags,
                   vrrp_iptables_inchain, vrrp_iptables_outchain>>

(***************************************************************************)
(* vrrp_iptables_handler(): both chains are emptied, then each given name  *)
(* is copied in order; a name of CHAIN_SIZE - 1 characters or more ends    *)
(* the handler.                                                            *)
(***************************************************************************)
ChainFits(t) == t.len < CHAIN_SIZE - 1

(* Mutant: the out chain is not emptied first. *)
IptablesKeepOutchain(args) ==
    LET n == Len(args)
        inOk == n >= 1 => ChainFits(args[1])
    IN  /\ vrrp_iptables_inchain' = IF n >= 1 /\ inOk THEN args[1] ELSE Empty
        /\ vrrp_iptables_outchain' =
              IF n >= 2 /\ inOk /\ ChainFits(args[2]) THEN args[2]
              ELSE vrrp_iptables_outchain
        /\ Handled("vrrp_iptables", Line("vrrp_iptables", args))
        /\ Defined
        /\ UNCHANGED <<vrrp_mcast_group4, vrrp_mcast_group6, garp, advert, flags,
                       vrrp_version>>

vrrp_iptables_handler(args) ==
    LET n == Len(args)
        inOk == n >= 1 => ChainFits(args[1])
    IN  /\ vrrp_iptables_inchain' = IF n >= 1 /\ inOk THEN args[1] ELSE Empty
        /\ vrrp_iptables_outchain' =
              IF n >= 2 /\ inOk /\ ChainFits(args[2]) THEN args[2] ELSE Empty
        /\ Handled("vrrp_iptables", Line("vrrp_iptables", args))
        /\ Defined
        /\ UNCHANGED <<vrrp_mcast_group4, vrrp_mcast_group6, garp, advert, flags,
                       vrrp_version>>

(* The lines of a directive with no argument or one of args. *)
Lines(d, args) == {Line(d, <<>>)} \cup {Line(d, <<t>>) : t \in args}

Next ==
    /\ ~crashed
    /\ \/ \E l \in Lines("vrrp_mcast_group4", Args["vrrp_mcast_group4"]) :
             /\ ReadSlot1("vrrp_mcast_group4", l)
             /\ \E t \in Slot1Values(l) : vrrp_mcast_group4_handler(t)
       \/ \E l \in Lines("vrrp_mcast_group6", Args["vrrp_mcast_group6"]) :
             /\ ReadSlot1("vrrp_mcast_group6", l)
             /\ \E t \in Slot1Values(l) : vrrp_mcast_group6_handler(t)
       \/ \E d \in GarpDirectives : \E l \in Lines(d, Args["garp"]) :
             ReadSlot1(d, l) /\ \E t \in Slot1Values(l) : garp_handler(d, t)
       \/ \E d \in AdvertDirectives : \E l \in Lines(d, Args["advert"]) :
             advert_handler(d, l)
       \/ \E d \in FlagDirectives : flag_handler(d)
       \/ \E l \in Lines("vrrp_version", Args["vrrp_version"]) :
             ReadSlot1("vrrp_version", l) /\ \E t \in Slot1Values(l) : vrrp_version_handler(t)
       \/ \E a \in {<<>>} \cup {<<x>> : x \in ChainNames}
                          \cup {<<x, y>> : x, y \in ChainNames} :
             vrrp_iptables_handler(a)
       \/ \E d \in Slot1Directives : Slot1Crash(d)

Spec == Init /\ [][Next]_vars

-----------------------------------------------------------------------------
TypeOK ==
    /\ vrrp_mcast_group4.family \in {AF_UNSPEC, AF_INET, AF_INET6}
    /\ vrrp_mcast_group6.family \in {AF_UNSPEC, AF_INET, AF_INET6, "AF_CORRUPT"}
    /\ \A d \in GarpDirectives : garp[d] \in (0..(W - 1)) \cup {GarpDefault[d]}
    /\ advert \in [AdvertDirectives -> BOOLEAN]
    /\ flags \subseteq FlagDirectives
    /\ vrrp_version \in {2, 3}
    /\ vrrp_iptables_inchain \in ChainNames \cup {Empty}
    /\ vrrp_iptables_outchain \in ChainNames \cup {Empty}
    /\ crashed \in BOOLEAN
    /\ fault \subseteq {"oob_read"}

(***************************************************************************)
(* OutChainNeedsInChain: after any sequence of vrrp_iptables lines an out  *)
(* chain is only configured together with an in chain.                     *)
(***************************************************************************)
OutChainNeedsInChain ==
    vrrp_iptables_outchain # Empty => vrrp_iptables_inchain # Empty

(* The VRRP multicast groups hold a multicast address of their own family,
   or nothing. *)
McastGroupIsMulticast ==
    /\ vrrp_mcast_group4.family \in {AF_UNSPEC, AF_INET}
    /\ vrrp_mcast_group4.family = AF_INET => IsMulticast4(vrrp_mcast_group4)
    /\ vrrp_mcast_group6.family \in {AF_UNSPEC, AF_INET6}
    /\ vrrp_mcast_group6.family = AF_INET6 => IsMulticast6(vrrp_mcast_group6)

(* A vrrp_version step: a number other than 2 or 3 leaves the version. *)
VersionStepPerSpec ==
    (last'.dir = "vrrp_version" /\ VectorSize(last'.strvec) >= 2) =>
        LET t == Slot(last'.strvec, 1)
        IN  IF EndptrAtEnd(t) /\ StrtolVal(t) \in {2, 3}
            THEN vrrp_version' = StrtolVal(t)
            ELSE vrrp_version' = vrrp_version

(* A vrrp_iptables step refused for a too-long name leaves both chains. *)
ChainStepPerSpec ==
    (last'.dir = "vrrp_iptables"
       /\ \E j \in 1..(Len(last'.strvec) - 1) : ~ChainFits(Slot(last'.strvec, j)))
    => UNCHANGED <<vrrp_iptables_inchain, vrrp_iptables_outchain>>

(***************************************************************************)
(* A delay step with a numeric value stores that many seconds in timer     *)
(* units, or leaves the delay when that is out of range.                   *)
(***************************************************************************)
DelayStepPerSpec ==
    (/\ last'.dir \in ScaledDelays /\ VectorSize(last'.strvec) >= 2
     /\ EndptrAtEnd(Slot(last'.strvec, 1)))
    => garp'[last'.dir] \in {StrtolVal(Slot(last'.strvec, 1)) * TIMER_HZ,
                             garp[last'.dir]}

(* A line of those without its argument leaves every field, and the process. *)
ArityStepPerSpec ==
    (last'.dir \in Slot1Directives /\ VectorSize(last'.strvec) < 2)
    => UNCHANGED fields /\ ~crashed'

(***************************************************************************)
(* VrrpLinesPerSpec (spec.md 3, 4.1, 7 and 8): after every VRRP tuning     *)
(* line the multicast groups are multicast addresses of their family or    *)
(* unspecified; a vrrp_version line whose number is not 2 or 3 and a       *)
(* vrrp_iptables line refused for a too-long name leave the version and    *)
(* the chains as they were; a garp delay is the given number of seconds,   *)
(* or is left alone; and a line missing its argument fails the arity check *)
(* and changes nothing.                                                    *)
(***************************************************************************)
VrrpLinesPerSpec ==
    [][/\ McastGroupIsMulticast'
       /\ VersionStepPerSpec
       /\ ChainStepPerSpec
       /\ DelayStepPerSpec
       /\ ArityStepPerSpec]_vars
=============================================================================
