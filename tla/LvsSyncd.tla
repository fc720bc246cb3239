------------------------------ MODULE LvsSyncd ------------------------------
(***************************************************************************)
(* The lvs_sync_daemon directive: lvs_syncd_handler() in                   *)
(* src/keepalived/core/global_parser.c.                                    *)
(*                                                                         *)
(*   lvs_sync_daemon <ifname> <vrrp instance> [<syncid>]                   *)
(*                   [id <n>] [maxlen <n>] [port <n>] [ttl <n>] [group <a>]*)
(*                                                                         *)
(* The directive is accepted once: a later line is ignored as soon as      *)
(* ifname is set.  The entry checks, the two mandatory names and the       *)
(* legacy positional syncid are one step; each iteration of the sub-option *)
(* loop is one step.  The numeric options id, maxlen, port and ttl are the *)
(* same code with different bounds and fields and are one action          *)
(* parameterised by the keyword; their fields are the function `opt`.      *)
(***************************************************************************)
EXTENDS KaToken, Integers, Sequences

CONSTANTS
    Lines,                \* the token vectors an lvs_sync_daemon line can have
    IP_VS_IFNAME_MAXLEN,  \* 16
    NoName                \* a NULL ifname / vrrp_name

VARIABLES
    ifname,       \* global_data->lvs_syncd.ifname
    vrrp_name,    \* global_data->lvs_syncd.vrrp_name
    opt,          \* [id |-> syncid, maxlen |-> sync_maxlen,
                  \*  port |-> mcast_port, ttl |-> mcast_ttl]
    mcast_group,  \* global_data->lvs_syncd.mcast_group
    strvec,       \* the line being handled, <<>> between lines
    i,            \* the loop cursor
    pc,           \* "idle" between lines, "loop" inside the for-loop
    accepted      \* ghost: the line that set ifname, <<>> before

vars == <<ifname, vrrp_name, opt, mcast_group, strvec, i, pc, accepted>>

NumericKeys == {"id", "maxlen", "port", "ttl"}
SyncdKeys == NumericKeys \cup {"group"}

(* PARAMETER_UNSET: the syncid before any is given (then the vrid is used). *)
PARAMETER_UNSET == -1

(***************************************************************************)
(* The accepted range of each numeric option, from the rejection tests     *)
(* val > 255, !val || val > 65535 - 20 - 8, !val || val > 65535, and       *)
(* !val || val > 255; all values are read with strtoul.                    *)
(***************************************************************************)
OptMin == [id |-> 0, maxlen |-> 1, port |-> 1, ttl |-> 1]
OptMax == [id |-> 255, maxlen |-> 65535 - 20 - 8, port |-> 65535, ttl |-> 255]

(* Mutant: the upper bounds are not tested. *)
OptInvalidNoMax(k, t) ==
    \/ ~EndptrAtEnd(t)
    \/ StrtolVal(t) < OptMin[k]

OptInvalid(k, t) ==
    \/ ~EndptrAtEnd(t)
    \/ StrtoulAbove(t, OptMax[k])
    \/ StrtolVal(t) < OptMin[k]

Size == VectorSize(strvec)

(***************************************************************************)
(* The multicast check applied to whatever mcast_group holds after         *)
(* inet_stosockaddr(): a non-multicast address only loses its family.      *)
(***************************************************************************)
MulticastChecked(g) ==
    IF \/ g.family = AF_INET  /\ ~IsMulticast4(g)
       \/ g.family = AF_INET6 /\ ~IsMulticast6(g)
    THEN [g EXCEPT !.family = AF_UNSPEC]
    ELSE g

(* The loop's i++ and its exit, after which the line is dropped. *)
Advance(n) ==
    IF i + n < Size
    THEN /\ i' = i + n
         /\ pc' = "loop"
         /\ UNCHANGED strvec
    ELSE /\ i' = 0
         /\ pc' = "idle"
         /\ strvec' = <<>>

Init ==
    /\ ifname = NoName
    /\ vrrp_name = NoName
    /\ opt = [k \in NumericKeys |-> IF k = "id" THEN PARAMETER_UNSET ELSE 0]
    /\ mcast_group = Unspecified
    /\ strvec = <<>>
    /\ i = 0
    /\ pc = "idle"
    /\ accepted = <<>>

(***************************************************************************)
(* A line rejected by one of the entry checks of lvs_syncd_handler():      *)
(* already specified, fewer than 3 tokens, or a name of                    *)
(* IP_VS_IFNAME_MAXLEN characters or more.                                 *)
(***************************************************************************)
Rejected(line) ==
    \/ ifname # NoName
    \/ VectorSize(line) < 3
    \/ Slot(line, 1).len >= IP_VS_IFNAME_MAXLEN
    \/ Slot(line, 2).len >= IP_VS_IFNAME_MAXLEN

(* The legacy positional syncid: a 4th token starting with a digit. *)
HasLegacyId(line) ==
    VectorSize(line) >= 4 /\ LeadsWithDigit(Slot(line, 3))

(* Mutant: the legacy positional syncid is not supported. *)
LvsSyncdStartNoLegacy(line) ==
    /\ pc = "idle"
    /\ IF Rejected(line)
       THEN UNCHANGED vars
       ELSE /\ accepted' = line
            /\ ifname' = Slot(line, 1)
            /\ vrrp_name' = Slot(line, 2)
            /\ UNCHANGED <<opt, mcast_group>>
            /\ IF 3 < VectorSize(line)
               THEN strvec' = line /\ i' = 3 /\ pc' = "loop"
               ELSE UNCHANGED <<strvec, i, pc>>

(***************************************************************************)
(* ifname is set first; MALLOC of vrrp_name may fail (the handler tests    *)
(* for NULL), and the handler then returns with ifname set and no          *)
(* vrrp_name.                                                              *)
(***************************************************************************)
VrrpNameAllocFails(line) ==
    /\ accepted' = line
    /\ ifname' = Slot(line, 1)
    /\ UNCHANGED <<vrrp_name, opt, mcast_group, strvec, i, pc>>

LvsSyncdStart(line) ==
    /\ pc = "idle"
    /\ IF Rejected(line)
       THEN UNCHANGED vars
       ELSE VrrpNameAllocFails(line) \/
            LET t     == Slot(line, 3)
                first == IF HasLegacyId(line) THEN 4 ELSE 3
            IN  /\ accepted' = line
                /\ ifname' = Slot(line, 1)
                /\ vrrp_name' = Slot(line, 2)
                /\ opt' = IF HasLegacyId(line) /\ ~OptInvalid("id", t)
                          THEN [opt EXCEPT !.id = StrtolVal(t)]
                          ELSE opt
                /\ UNCHANGED mcast_group
                /\ IF first < VectorSize(line)
                   THEN strvec' = line /\ i' = first /\ pc' = "loop"
                   ELSE UNCHANGED <<strvec, i, pc>>

(* A keyword as the last token: "No value specified ... - ignoring". *)
SyncdOptionNoValue(k) ==
    /\ pc = "loop"
    /\ Slot(strvec, i).kind = k
    /\ i = Size - 1
    /\ UNCHANGED <<ifname, vrrp_name, opt, mcast_group, accepted>>
    /\ Advance(1)

(* id, maxlen, port or ttl and its value: stored if valid, skipped always. *)
SyncdNumericOption(k) ==
    /\ pc = "loop"
    /\ Slot(strvec, i).kind = k
    /\ i < Size - 1
    /\ LET t == Slot(strvec, i + 1)
       IN  opt' = IF OptInvalid(k, t) THEN opt
                  ELSE [opt EXCEPT ![k] = StrtolVal(t)]
    /\ UNCHANGED <<ifname, vrrp_name, mcast_group, accepted>>
    /\ Advance(2)

(* group and its value: parsed into mcast_group, then the multicast check. *)
SyncdGroupOption ==
    /\ pc = "loop"
    /\ Slot(strvec, i).kind = "group"
    /\ i < Size - 1
    /\ mcast_group' = MulticastChecked(InetStosockaddr(Slot(strvec, i + 1)))
    /\ UNCHANGED <<ifname, vrrp_name, opt, accepted>>
    /\ Advance(2)

(* Mutant: an unknown word is taken to have a value and skipped with it. *)
SyncdUnknownOptionSkipsValue ==
    /\ pc = "loop"
    /\ Slot(strvec, i).kind \notin SyncdKeys
    /\ UNCHANGED <<ifname, vrrp_name, opt, mcast_group, accepted>>
    /\ Advance(2)

(* "Unknown option %s specified for lvs_sync_daemon" *)
SyncdUnknownOption ==
    /\ pc = "loop"
    /\ Slot(strvec, i).kind \notin SyncdKeys
    /\ UNCHANGED <<ifname, vrrp_name, opt, mcast_group, accepted>>
    /\ Advance(1)

(* One iteration of the sub-option loop. *)
SyncdLoopStep ==
    \/ \E k \in SyncdKeys : SyncdOptionNoValue(k)
    \/ \E k \in NumericKeys : SyncdNumericOption(k)
    \/ SyncdGroupOption
    \/ SyncdUnknownOption

Next ==
    \/ \E line \in Lines : LvsSyncdStart(line)
    \/ SyncdLoopStep

Spec == Init /\ [][Next]_vars

-----------------------------------------------------------------------------
TypeOK ==
    /\ opt \in [NumericKeys -> PARAMETER_UNSET..65535]
    /\ mcast_group.family \in {AF_UNSPEC, AF_INET, AF_INET6}
    /\ pc \in {"idle", "loop"}
    /\ i \in 0..Size
    /\ vrrp_name # NoName => ifname # NoName

(***************************************************************************)
(* A line of two names, an optional legacy syncid and `keyword value`      *)
(* pairs: the lines the spec's partial-failure claim is about.             *)
(***************************************************************************)
FirstOption(line) == IF HasLegacyId(line) THEN 4 ELSE 3

IsSyncdPairLine(line) ==
    /\ VectorSize(line) >= 3
    /\ (VectorSize(line) - FirstOption(line)) % 2 = 0
    /\ \A j \in FirstOption(line)..(VectorSize(line) - 1) :
          IF (j - FirstOption(line)) % 2 = 0
          THEN Slot(line, j).kind \in SyncdKeys
          ELSE Slot(line, j).kind \notin SyncdKeys

(***************************************************************************)
(* What spec.md (4.1, 4.2 and 8) promises for an accepted pair line: both  *)
(* names are set; each numeric option takes the value of its last valid    *)
(* occurrence (the legacy syncid counting as an id before the pairs) and   *)
(* keeps its default if there is none; the group is that of its last pair, *)
(* reset to unspecified when it is not multicast.                          *)
(***************************************************************************)
SyncdPairResult(line) ==
    LET Keyed(k) == {j \in FirstOption(line)..(VectorSize(line) - 1) :
                        /\ (j - FirstOption(line)) % 2 = 0
                        /\ Slot(line, j).kind = k}
        LastOf(J) == CHOOSE j \in J : \A m \in J : m <= j
        Valid(k, t) == t.kind = "num" /\ t.val \in OptMin[k]..OptMax[k]
        ValueAt(k) == {j + 1 : j \in Keyed(k)} \cup
                      IF k = "id" /\ HasLegacyId(line) THEN {3} ELSE {}
        Good(k) == {j \in ValueAt(k) : Valid(k, Slot(line, j))}
        Default == [k \in NumericKeys |-> IF k = "id" THEN PARAMETER_UNSET ELSE 0]
        g == Slot(line, LastOf(Keyed("group")) + 1)
        MulticastLiteral(t) == \/ t.kind = "ip4" /\ t.val \in 224..239
                               \/ t.kind = "ip6" /\ t.val = 255
    IN  << Slot(line, 1),
           Slot(line, 2),
           [k \in NumericKeys |-> IF Good(k) = {} THEN Default[k]
                                  ELSE StrtolVal(Slot(line, LastOf(Good(k))))],
           IF Keyed("group") = {} THEN Unspecified
           ELSE IF MulticastLiteral(g) THEN InetStosockaddr(g) ELSE Unspecified >>

(***************************************************************************)
(* SyncdMatchesPairs: after lvs_syncd_handler() has returned from the line *)
(* it accepted, the sync daemon settings are SyncdPairResult of that line: *)
(* a bad option never costs the names or the other options.                *)
(***************************************************************************)
SyncdMatchesPairs ==
    (pc = "idle" /\ vrrp_name # NoName /\ IsSyncdPairLine(accepted))
        => /\ <<ifname, vrrp_name, opt>> = SubSeq(SyncdPairResult(accepted), 1, 3)
           /\ mcast_group.family = SyncdPairResult(accepted)[4].family
           /\ mcast_group.family # AF_UNSPEC
                  => mcast_group = SyncdPairResult(accepted)[4]

-----------------------------------------------------------------------------
(***************************************************************************)
(* Refinement of LvsSyncdLine.  Between lines the settings are those of    *)
(* the abstract spec; inside the loop they are what the rest of the scan   *)
(* will make of them, so the entry step is the abstract Handle and each    *)
(* loop iteration is a stutter.  An unspecified group's address bytes are  *)
(* meaningless and are mapped to those of Unspecified.                     *)
(***************************************************************************)
Line == INSTANCE LvsSyncdLine

GroupSeen == IF mcast_group.family = AF_UNSPEC THEN Unspecified ELSE mcast_group

Pending ==
    IF pc = "idle" THEN [opt |-> opt, group |-> GroupSeen]
    ELSE Line!ScanFrom([opt |-> opt, group |-> GroupSeen], strvec, i)

ABS == INSTANCE LvsSyncdLine WITH opt <- Pending.opt, mcast_group <- Pending.group

(***************************************************************************)
(* ImplementsSyncdLineSpec: lvs_syncd_handler(), entry checks and cursor   *)
(* loop together, has on every line, not only on pairs, the effect of the  *)
(* recursive scan of spec.md 4.2, and never changes a setting otherwise.   *)
(***************************************************************************)
ImplementsSyncdLineSpec == ABS!Spec
=============================================================================
