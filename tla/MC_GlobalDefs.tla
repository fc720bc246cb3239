---------------------------- MODULE MC_GlobalDefs ----------------------------
(***************************************************************************)
(* Constants of GlobalDefs for TLC.  One fifo with two names (the records  *)
(* run the same code); of the directives that run the same code on other   *)
(* fields, one string, one alert and the use_polling and snmp RFC toggles  *)
(* (enable_snmp_rfc sets two fields).  smtp_server gets a numeric literal  *)
(* and a name with '/'; default_interface an interface that exists and one *)
(* that does not; snmp_socket a name that fits and one of PATH_MAX         *)
(* characters.  PATH_MAX, unsigned long and TIMER_HZ are scaled.           *)
(***************************************************************************)
EXTENDS GlobalDefs

CONSTANTS global, NoName_, NullVec_

MCFifos == {global}
MCNames == {Tok("name", 1, 12), Tok("name", 2, 12)}

MCStringDirectives == {"router_id"}
MCStringArgs == {Tok("name", 3, 6)}
MCServerArgs == {Tok("ip4", 10, 8), Tok("name", 4, 12), Tok("path", 4, 12)}
MCTimeoutArgs == {Tok("num", 3, 1)}
MCAlertDirectives == {"smtp_alert"}
MCAlertDefault == -1   \* unset: the alert follows smtp_alert
MCAlertArgs == {Tok("off", 0, 3), Tok("name", 5, 3)}
MCBlocks == {NullVec_, <<Tok("name", 6, 9)>>}
MCToggleDirectives == {"linkbeat_use_polling", "enable_snmp_rfc", "enable_snmp_rfcv2"}
MCIfNames == {Tok("name", 7, 4), Tok("name", 8, 4)}
MCExistingIfs == {Tok("name", 7, 4)}
MCSocketArgs == {Tok("path", 9, 5), Tok("path", 10, 16)}
MCWaitArgs == {Tok("num", 5, 1), Tok("numjunk", 5, 2)}
MCGarbage == {3}
MCUserArgs == {Tok("name", 11, 5)}
MCPrimaryGroup == [u \in MCUserArgs |-> u]   \* the user's group has its name

(* The configuration and the crash; `fault` is a ghost only properties read. *)
MCView == <<fields, crashed>>
=============================================================================
