---------------------------- MODULE MC_LvsSyncd ----------------------------
(***************************************************************************)
(* Model of lvs_sync_daemon for TLC: interface and instance names that fit *)
(* and of IP_VS_IFNAME_MAXLEN characters, then up to three further tokens  *)
(* from the option keywords, values on both sides of the id/port bounds,  *)
(* a digit-led word, unicast and multicast addresses of both families.     *)
(***************************************************************************)
EXTENDS LvsSyncd, SequencesExt

MCIfnameMaxlen == 16

MCIfnames == { Tok("name", 1, 4), Tok("name", 2, 16) }
MCVrrpNames == { Tok("name", 3, 4), Tok("name", 5, 16) }

MCOptionTokens ==
    { Tok("id", 0, 2), Tok("port", 0, 4), Tok("ttl", 0, 3), Tok("maxlen", 0, 6),
      Tok("group", 0, 5), Tok("name", 4, 3),
      Tok("num", 0, 1), Tok("num", 7, 1), Tok("num", 256, 3), Tok("num", 70000, 5),
      Tok("numjunk", 7, 2),
      Tok("ip4", 239, 9), Tok("ip4", 10, 8), Tok("ip6", 255, 6), Tok("ip6", 254, 6) }

MCMaxOptions == 3

(***************************************************************************)
(* A line whose interface or instance name is too long is rejected before  *)
(* its options are read; one option is enough to show that they are not.   *)
(***************************************************************************)
MCOptionsAfter(n, v) ==
    SeqOf(MCOptionTokens,
          IF n.len < MCIfnameMaxlen /\ v.len < MCIfnameMaxlen THEN MCMaxOptions ELSE 1)

MCLines ==
    { <<Tok("name", 0, 15)>> } \cup
    { <<Tok("name", 0, 15), n>> : n \in MCIfnames } \cup
    UNION { { <<Tok("name", 0, 15), n, v>> \o rest : rest \in MCOptionsAfter(n, v) } :
              n \in MCIfnames, v \in MCVrrpNames }
=============================================================================
