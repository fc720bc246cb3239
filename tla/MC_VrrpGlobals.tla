--------------------------- MODULE MC_VrrpGlobals ---------------------------
(***************************************************************************)
(* Argument tokens for the VRRP tuning handlers: multicast and unicast     *)
(* literals of both families and a host name; the garp value 700 (whose  *)
(* product with TIMER_HZ passes 2^UINT_WIDTH) and a word; advert words     *)
(* true, off and an invalid one; versions 2, 3, 258 (2 modulo 256) and a   *)
(* word; a chain name that fits and one of CHAIN_SIZE - 1 characters.     *)
(*                                                                         *)
(* UINT_WIDTH and TIMER_HZ are scaled from 32 and 1000000 so that the      *)
(* products stay within TLC's integers; the wrap is the same arithmetic.   *)
(* Of the directives that run the same code on different fields, one of   *)
(* each kind is enumerated: a delay, a clamped and a plain repeat, an      *)
(* interval, one advert boolean and one flag.                              *)
(***************************************************************************)
EXTENDS VrrpGlobals

MCAddresses ==
    { Tok("ip4", 224, 10), Tok("ip4", 10, 8), Tok("ip6", 255, 8),
      Tok("ip6", 254, 8), Tok("name", 1, 8) }

MCArgs ==
    [ vrrp_mcast_group4 |-> MCAddresses,
      vrrp_mcast_group6 |-> MCAddresses,
      garp |-> { Tok("num", 700, 3), Tok("name", 1, 3) },
      advert |-> { Tok("true", 0, 4), Tok("off", 0, 3), Tok("name", 1, 3) },
      vrrp_version |-> { Tok("num", 2, 1), Tok("num", 3, 1),
                         Tok("num", 258, 3), Tok("name", 1, 3) } ]

MCGarpDirectives ==
    { "vrrp_garp_master_delay", "vrrp_garp_master_repeat",
      "vrrp_garp_lower_prio_repeat", "vrrp_garp_interval" }

(* VRRP_GARP_REP 5, PARAMETER_UNSET for the lower priority repeat. *)
MCGarpDefault ==
    [ d \in MCGarpDirectives |->
        CASE d = "vrrp_garp_master_repeat"     -> 5
          [] d = "vrrp_garp_lower_prio_repeat" -> -1
          [] OTHER                             -> 0 ]

MCAdvertDirectives == { "vrrp_lower_prio_no_advert" }

MCFlagDirectives == { "vrrp_strict" }

MCChainNames == { Tok("name", 1, 5), Tok("name", 3, 28) }

(* A pointer read past the vector, pointing at text without digits. *)
MCJunk == { Tok("name", 2, 4) }

(***************************************************************************)
(* The configuration fields; `last` and `fault` are ghosts that only       *)
(* properties read.  A crashed process has no successor, and Crash leaves  *)
(* the fields as the state before it, where they were checked: all         *)
(* crashed states are one.                                                 *)
(***************************************************************************)
MCView == IF crashed THEN <<>> ELSE fields
=============================================================================
