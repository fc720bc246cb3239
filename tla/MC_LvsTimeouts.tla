--------------------------- MODULE MC_LvsTimeouts ---------------------------
(***************************************************************************)
(* Model of lvs_timeouts for TLC: every line of up to four options built   *)
(* from the three keywords and value tokens on both sides of each bound:   *)
(* -1 and 0 (tcp accepts 0, tcpfin and udp need 1), LVS_MAX_TIMEOUT and     *)
(* LVS_MAX_TIMEOUT + 1, and the junk "7s", which is also the unknown word   *)
(* (the handler treats every non-keyword word alike).                      *)
(***************************************************************************)
EXTENDS LvsTimeouts, SequencesExt

MCMaxTimeout == 86400 * 31

MCArgTokens ==
    { Tok("tcp", 0, 3), Tok("tcpfin", 0, 6), Tok("udp", 0, 3),
      Tok("num", -1, 2), Tok("num", 0, 1), Tok("num", 86400 * 31, 7),
      Tok("num", 86400 * 31 + 1, 7), Tok("numjunk", 7, 2) }

MCMaxOptions == 4

MCLines ==
    { <<Tok("name", 0, 12)>> \o args : args \in SeqOf(MCArgTokens, MCMaxOptions) }
=============================================================================
