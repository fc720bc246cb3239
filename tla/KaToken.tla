------------------------------ MODULE KaToken ------------------------------
(***************************************************************************)
(* Tokens of a configuration line and the conversions the global_defs     *)
(* handlers of keepalived (src/keepalived/core/global_parser.c) apply to   *)
(* them.                                                                   *)
(*                                                                         *)
(* A token is abstracted to the part of its text the conversions look at:  *)
(*   kind : the keyword it spells ("tcp", "id", "true", ...), or one of    *)
(*          "num"     - an optional '-' and decimal digits only,           *)
(*          "numjunk" - decimal digits followed by other characters,       *)
(*          "name"    - any other word (interface, instance, path ...),    *)
(*          "ip4"/"ip6" - a numeric IPv4/IPv6 address literal;             *)
(*   val  : the number its leading digits spell ("num", "numjunk"), the    *)
(*          first octet of an address ("ip4", "ip6"), or an identity that  *)
(*          tells names apart ("name");                                    *)
(*   len  : strlen() of the text.                                          *)
(* strtol/strtoul/atoi are modelled by what they compute on that text.     *)
(***************************************************************************)
EXTENDS Integers, Sequences

Tok(k, v, l) == [kind |-> k, val |-> v, len |-> l]

(***************************************************************************)
(* strvec: the token vector of a line, C slot k is element k+1.            *)
(***************************************************************************)
VectorSize(strvec) == Len(strvec)
Slot(strvec, k) == strvec[k + 1]

(***************************************************************************)
(* strtol(s, &endptr, 10): the value of the leading digits; *endptr is    *)
(* '\0' exactly when the whole text is an optional sign and digits.        *)
(***************************************************************************)
StrtolVal(t) == IF t.kind \in {"num", "numjunk"} THEN t.val ELSE 0
EndptrAtEnd(t) == t.kind = "num"

(***************************************************************************)
(* strtoul of "-n" yields ULONG_MAX + 1 - n, which exceeds every bound the *)
(* handlers compare it with; its low bits are those of -n, so a cast to a  *)
(* w-bit type is -n % 2^w.                                                 *)
(***************************************************************************)
StrtoulAbove(t, bound) == StrtolVal(t) < 0 \/ StrtolVal(t) > bound
StrtoulCast(t, w) == StrtolVal(t) % (2 ^ w)

(* isdigit(s[0]) *)
LeadsWithDigit(t) ==
    \/ t.kind = "numjunk"
    \/ t.kind = "num" /\ t.val >= 0

(***************************************************************************)
(* check_true_false() (core/parser.c, not part of this file): 1, 0 or -1.  *)
(***************************************************************************)
CheckTrueFalse(t) ==
    CASE t.kind \in {"true", "on", "yes"}  -> 1
      [] t.kind \in {"false", "off", "no"} -> 0
      [] OTHER                             -> -1

(***************************************************************************)
(* A struct sockaddr_storage, abstracted to family and first address byte. *)
(***************************************************************************)
AF_UNSPEC == "AF_UNSPEC"
AF_INET   == "AF_INET"
AF_INET6  == "AF_INET6"
Unspecified == [family |-> AF_UNSPEC, addr |-> 0]

(***************************************************************************)
(* inet_stosockaddr() (lib/utils.c, not part of this file): parses a       *)
(* numeric literal; on failure the address is left unset (AF_UNSPEC).      *)
(***************************************************************************)
InetStosockaddrOk(t) == t.kind \in {"ip4", "ip6"}
InetStosockaddr(t) ==
    CASE t.kind = "ip4" -> [family |-> AF_INET,  addr |-> t.val]
      [] t.kind = "ip6" -> [family |-> AF_INET6, addr |-> t.val]
      [] OTHER          -> Unspecified

(* IN_MULTICAST(): 224.0.0.0/4;  IN6_IS_ADDR_MULTICAST(): ff00::/8 *)
IsMulticast4(sa) == sa.addr \in 224..239
IsMulticast6(sa) == sa.addr = 255
=============================================================================
