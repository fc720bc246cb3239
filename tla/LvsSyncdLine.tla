---------------------------- MODULE LvsSyncdLine ----------------------------
(***************************************************************************)
(* What lvs_sync_daemon promises, one line at a time (spec.md 4.1, 4.2):   *)
(* the directive is accepted once, when it names an interface and a VRRP   *)
(* instance short enough to store; a purely numeric third argument is the  *)
(* legacy syncid; the remaining words are scanned as in the spec, stated   *)
(* as a recursive function of the line rather than as a loop with a        *)
(* cursor.  A group that is not a multicast literal leaves the group       *)
(* unspecified (spec.md 3).  Storing the instance name needs memory, which *)
(* may be refused; the interface name is then kept alone.                  *)
(***************************************************************************)
EXTENDS KaToken, Integers, Sequences

CONSTANTS Lines, IP_VS_IFNAME_MAXLEN, NoName

VARIABLES ifname, vrrp_name, opt, mcast_group,
          accepted   \* the line that was accepted, <<>> before

Numbers == {"id", "maxlen", "port", "ttl"}
Keywords == Numbers \cup {"group"}
Least == [id |-> 0, maxlen |-> 1, port |-> 1, ttl |-> 1]
Most == [id |-> 255, maxlen |-> 65535 - 28, port |-> 65535, ttl |-> 255]

(* The value token is a number within the keyword's range. *)
InRange(k, t) == t.kind = "num" /\ t.val \in Least[k]..Most[k]

(* A group value: a multicast literal, or else nothing. *)
GroupOf(t) ==
    IF \/ t.kind = "ip4" /\ t.val \in 224..239
       \/ t.kind = "ip6" /\ t.val = 255
    THEN InetStosockaddr(t)
    ELSE Unspecified

(* The effect of `k t` on the settings s = [opt |-> .., group |-> ..]. *)
Option(s, k, t) ==
    IF k = "group" THEN [s EXCEPT !.group = GroupOf(t)]
    ELSE IF InRange(k, t) THEN [s EXCEPT !.opt[k] = t.val]
    ELSE s

(***************************************************************************)
(* The scan from token j: a keyword with a value applies it and skips      *)
(* both; a keyword that is the last token ends the scan; any other word is *)
(* skipped alone.                                                          *)
(***************************************************************************)
RECURSIVE ScanFrom(_, _, _)
ScanFrom(s, line, j) ==
    IF j >= VectorSize(line) THEN s
    ELSE LET k == Slot(line, j).kind
         IN  CASE k \notin Keywords           -> ScanFrom(s, line, j + 1)
               [] j = VectorSize(line) - 1    -> s
               [] OTHER -> ScanFrom(Option(s, k, Slot(line, j + 1)), line, j + 2)

(* The line is accepted: first of its kind, two names that fit. *)
Accepts(line) ==
    /\ ifname = NoName
    /\ VectorSize(line) >= 3
    /\ Slot(line, 1).len < IP_VS_IFNAME_MAXLEN
    /\ Slot(line, 2).len < IP_VS_IFNAME_MAXLEN

(* The third argument is purely numeric: the legacy syncid. *)
Legacy(line) ==
    VectorSize(line) >= 4 /\ Slot(line, 3).kind = "num" /\ Slot(line, 3).val >= 0

Init ==
    /\ ifname = NoName
    /\ vrrp_name = NoName
    /\ opt = [k \in Numbers |-> IF k = "id" THEN -1 ELSE 0]
    /\ mcast_group = Unspecified
    /\ accepted = <<>>

(* An accepted line, applied as a whole. *)
Handle(line) ==
    /\ Accepts(line)
    /\ accepted' = line
    /\ ifname' = Slot(line, 1)
    /\ \/ UNCHANGED <<vrrp_name, opt, mcast_group>>
       \/ LET s0 == [opt |-> IF Legacy(line) /\ InRange("id", Slot(line, 3))
                             THEN [opt EXCEPT !.id = Slot(line, 3).val]
                             ELSE opt,
                     group |-> mcast_group]
              s == ScanFrom(s0, line, IF Legacy(line) THEN 4 ELSE 3)
          IN  /\ vrrp_name' = Slot(line, 2)
              /\ opt' = s.opt
              /\ mcast_group' = s.group

(* Some line of the file is handed to the handler and accepted. *)
Next == Handle(accepted')

Spec == Init /\ [][Next]_<<ifname, vrrp_name, opt, mcast_group, accepted>>
=============================================================================
