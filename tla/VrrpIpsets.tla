------------------------------ MODULE VrrpIpsets ------------------------------
(***************************************************************************)
(* The vrrp_ipsets directive: vrrp_ipsets_handler() in                     *)
(* src/keepalived/core/global_parser.c.  Up to three ipset names go into   *)
(* three fixed buffers of global_data; a name not given is derived from    *)
(* the one before it: "<address>6", then "<address6 without its 6>_if6",   *)
(* each truncated so that it fits.  A name is a sequence of characters;    *)
(* the three buffers have the same size, IPSET_MAXNAMELEN.                 *)
(***************************************************************************)
EXTENDS KaToken, Integers, Sequences

CONSTANTS
    IPSET_MAXNAMELEN,   \* sizeof of each of the three name buffers
    Names,              \* the names a line is tried with (char sequences)
    DefaultAddress      \* the vrrp_ipset_address global_data starts with

VARIABLES
    vrrp_ipset_address,
    vrrp_ipset_address6,
    vrrp_ipset_address_iface6,
    using_ipsets,
    last            \* ghost: the names of the line of the step

vars == <<vrrp_ipset_address, vrrp_ipset_address6, vrrp_ipset_address_iface6,
          using_ipsets, last>>

ipsets == <<vrrp_ipset_address, vrrp_ipset_address6, vrrp_ipset_address_iface6>>

(* The first n characters of s: s with a NUL written at index n. *)
Truncate(s, n) == IF Len(s) > n THEN SubSeq(s, 1, n) ELSE s

(* strlen(name) >= sizeof - 1: the handler's refusal test. *)
TooLong(name) == Len(name) >= IPSET_MAXNAMELEN - 1

(* address6[sizeof - 2] = '\0'; strcat(address6, "6") *)
Address6From(address) ==
    Truncate(address, IPSET_MAXNAMELEN - 2) \o <<"6">>

Iface6From(address6) ==
    LET stem == IF Len(address6) > 0 /\ address6[Len(address6)] = "6"
                THEN SubSeq(address6, 1, Len(address6) - 1)
                ELSE address6
    IN  Truncate(stem, IPSET_MAXNAMELEN - 5) \o <<"_", "i", "f", "6">>

Init ==
    /\ vrrp_ipset_address = DefaultAddress
    /\ vrrp_ipset_address6 = Address6From(DefaultAddress)
    /\ vrrp_ipset_address_iface6 = Iface6From(Address6From(DefaultAddress))
    /\ using_ipsets = TRUE
    /\ last = <<>>

(***************************************************************************)
(* vrrp_ipsets_handler(names): no name turns ipsets off; otherwise each    *)
(* name is checked and copied in turn, and a name that is too long returns *)
(* from the handler, keeping what the names before it already wrote.       *)
(***************************************************************************)
vrrp_ipsets_handler(names) ==
    LET n == Len(names)
        a6 == IF n >= 2 THEN names[2] ELSE Address6From(names[1])
        if6 == IF n >= 3 THEN names[3] ELSE Iface6From(a6)
    IN  /\ last' = names
        /\ CASE n = 0 ->
                  /\ using_ipsets' = FALSE
                  /\ UNCHANGED ipsets
             [] TooLong(names[1]) ->
                  UNCHANGED <<ipsets, using_ipsets>>
             [] n >= 2 /\ TooLong(names[2]) ->
                  /\ vrrp_ipset_address' = names[1]
                  /\ UNCHANGED <<vrrp_ipset_address6, vrrp_ipset_address_iface6,
                                 using_ipsets>>
             [] n >= 3 /\ TooLong(names[3]) ->
                  /\ vrrp_ipset_address' = names[1]
                  /\ vrrp_ipset_address6' = a6
                  /\ UNCHANGED <<vrrp_ipset_address_iface6, using_ipsets>>
             [] OTHER ->
                  /\ vrrp_ipset_address' = names[1]
                  /\ vrrp_ipset_address6' = a6
                  /\ vrrp_ipset_address_iface6' = if6
                  /\ UNCHANGED using_ipsets

Next ==
    \E names \in {<<>>} \cup {<<x>> : x \in Names} \cup {<<x, y>> : x, y \in Names}
                 \cup {<<x, y, z>> : x, y, z \in Names} :
        vrrp_ipsets_handler(names)

Spec == Init /\ [][Next]_vars

-----------------------------------------------------------------------------
Chars == {"a", "6", "_", "i", "f"}

(***************************************************************************)
(* TypeOK: each name is a C string of char[IPSET_MAXNAMELEN], i.e. at most *)
(* IPSET_MAXNAMELEN - 1 characters and its NUL: after any sequence of      *)
(* vrrp_ipsets lines, the truncate-and-append code that derives a missing  *)
(* name never writes past its buffer.                                      *)
(***************************************************************************)
TypeOK ==
    /\ \A k \in 1..3 : /\ ipsets[k] \in Seq(Chars)
                       /\ Len(ipsets[k]) <= IPSET_MAXNAMELEN - 1
    /\ using_ipsets \in BOOLEAN
    /\ last \in Seq(Names)

(***************************************************************************)
(* RejectedIpsetLineKeepsNames (spec.md 3, 4.1 and 7): a vrrp_ipsets line *)
(* refused because one of its names is too long leaves the three names as *)
(* they were, rather than a mix of this line's names and the last one's.   *)
(***************************************************************************)
RejectedIpsetLineKeepsNames ==
    [][(\E k \in 1..Len(last') : TooLong(last'[k]))
         => UNCHANGED ipsets]_vars
=============================================================================
