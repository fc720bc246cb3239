------------------------------ MODULE GlobalDefs ------------------------------
(***************************************************************************)
(* The remaining global_defs directives of                                 *)
(* src/keepalived/core/global_parser.c, composed with the notify fifos     *)
(* (NotifyFifo) over one global_data: router_id,                           *)
(* notification_email_from and dbus_service_name; smtp_server,             *)
(* smtp_helo_name, smtp_connect_timeout, notification_email and the three  *)
(* smtp_alert*; the set-to-true toggles (linkbeat_use_polling,             *)
(* no_email_faults, lvs_flush, enable_traps, the enable_snmp_* and         *)
(* enable_dbus, enable_script_security); dynamic_interfaces and            *)
(* default_interface; snmp_socket; child_wait_time.                        *)
(*                                                                         *)
(* Each line is one step.  Where the C code has undefined behaviour (a     *)
(* NULL dereference, a heap overflow, a read past the token vector) the    *)
(* step records it in the ghost `fault` and takes one of the outcomes the  *)
(* builds produce, a crash among them; a crashed process reads no more     *)
(* lines.  `fault` holds the faults of the last step only.                 *)
(***************************************************************************)
EXTENDS KaToken, Integers, Sequences

CONSTANTS
    Fifos, Names, NoName,   \* of NotifyFifo; NoName is also a NULL pointer
    NullVec,            \* a root handler called with strvec == NULL
    StringDirectives,   \* the FREE_PTR + set_value directives enumerated
    StringArgs,         \* the tokens their lines, and smtp_helo_name's, carry
    ServerArgs,         \* the tokens smtp_server lines carry
    TimeoutArgs,        \* the tokens smtp_connect_timeout lines carry
    AlertDirectives,    \* the smtp_alert* directives enumerated
    AlertArgs,          \* the words smtp_alert* lines carry
    AlertDefault,       \* the smtp_alert* value global_data starts with
    Blocks,             \* what read_value_block can return: NullVec or a sequence
    MAX_EMAILS,         \* bound on the length of the email list
    ToggleDirectives,   \* the set-to-true directives enumerated
    IfNames,            \* the interface names default_interface lines carry
    ExistingIfs,        \* the interfaces that exist on the system
    SocketArgs,         \* the tokens snmp_socket lines carry
    PATH_MAX,
    WaitArgs,           \* the tokens child_wait_time lines carry
    Garbage,            \* what strtoul can read from memory past a vector
    ULONG_WIDTH,        \* bits of unsigned long
    TIMER_HZ,           \* timer units per second
    UserArgs,           \* the user and group names script_user lines carry
    PrimaryGroup        \* the password database: each user's group

VARIABLES
    fifo_name, fifo_script,    \* the three notify_fifo_t records
    strings,                   \* [d \in StringDirectives |-> value or NoName]
    smtp_helo_name,
    smtp_server,               \* a sockaddr: [family, addr]
    smtp_connection_to,
    alerts,                    \* [d \in AlertDirectives |-> -1, 0 or 1]
    emails,                    \* the email list alloc_email() builds
    enabled,                   \* the toggled global_data fields that are true
    dynamic_interfaces,
    default_ifp,               \* an interface, or NoName (NULL)
    snmp_socket,
    child_wait_time,
    default_script,            \* the default script [uid, gid], or NoName
    crashed,                   \* the process died on this line
    fault                      \* ghost: undefined behaviour of the last step

Fifo == INSTANCE NotifyFifo

fifo == <<fifo_name, fifo_script>>
smtp == <<strings, smtp_helo_name, smtp_server, smtp_connection_to, alerts, emails>>
misc == <<enabled, dynamic_interfaces, default_ifp, snmp_socket, child_wait_time,
          default_script>>
fields == <<fifo, smtp, misc>>
vars == <<fields, crashed, fault>>

ULONG == 2 ^ ULONG_WIDTH

Line(d, args) == <<Tok(d, 0, 12)>> \o args

(***************************************************************************)
(* The global_data fields each toggle directive sets to true;              *)
(* enable_snmp_keepalived is the deprecated name of enable_snmp_vrrp, and  *)
(* enable_snmp_rfc sets both RFC MIB switches.                             *)
(***************************************************************************)
ToggleFields ==
    [ linkbeat_use_polling   |-> {"linkbeat_use_polling"},
      no_email_faults        |-> {"no_email_faults"},
      lvs_flush              |-> {"lvs_flush"},
      enable_traps           |-> {"enable_traps"},
      enable_snmp_vrrp       |-> {"enable_snmp_vrrp"},
      enable_snmp_keepalived |-> {"enable_snmp_vrrp"},
      enable_snmp_rfc        |-> {"enable_snmp_rfcv2", "enable_snmp_rfcv3"},
      enable_snmp_rfcv2      |-> {"enable_snmp_rfcv2"},
      enable_snmp_rfcv3      |-> {"enable_snmp_rfcv3"},
      enable_snmp_checker    |-> {"enable_snmp_checker"},
      enable_dbus            |-> {"enable_dbus"},
      enable_script_security |-> {"script_security"} ]

Init ==
    /\ Fifo!Init
    /\ strings = [d \in StringDirectives |-> NoName]
    /\ smtp_helo_name = NoName
    /\ smtp_server = Unspecified
    /\ smtp_connection_to = 0
    /\ alerts = [d \in AlertDirectives |-> AlertDefault]
    /\ emails = <<>>
    /\ enabled = {}
    /\ dynamic_interfaces = FALSE
    /\ default_ifp = NoName
    /\ snmp_socket = NoName
    /\ child_wait_time = 0
    /\ default_script = NoName
    /\ crashed = FALSE
    /\ fault = {}

(* A step without undefined behaviour. *)
Defined == fault' = {}

(* The process dies: nothing else of the line happens. *)
Crash == crashed' = TRUE /\ UNCHANGED fields

(***************************************************************************)
(* routerid_handler(), emailfrom_handler(), dbus_service_name_handler():   *)
(* the old string is freed and set_value() (core/parser.c) copies the      *)
(* argument.                                                               *)
(***************************************************************************)
string_handler(d, strvec) ==
    /\ strings' = [strings EXCEPT ![d] = Slot(strvec, 1)]
    /\ Defined
    /\ UNCHANGED <<fifo, smtp_helo_name, smtp_server, smtp_connection_to,
                   alerts, emails, misc, crashed>>

(***************************************************************************)
(* smtpserver_handler(): a token with '-' or '/' is not tried as a numeric *)
(* literal (inet_stosockaddr would modify it); a literal that fails, or    *)
(* was not tried, goes to domain_stosockaddr() (lib/utils.c), whose name   *)
(* resolution may succeed or fail.  The port is not modelled.  There is no *)
(* arity check: on a line without a server, slot 1 is read past the       *)
(* vector, and the process dies or both parsers fail on what the pointer   *)
(* points to, inet_stosockaddr having reset the address or not.            *)
(***************************************************************************)
HasDashOrSlash(t) == t.kind = "path"

smtpserver_handler(strvec) ==
    /\ IF VectorSize(strvec) >= 2
       THEN LET t == Slot(strvec, 1)
                tried == ~HasDashOrSlash(t)
                after_inet == IF tried THEN InetStosockaddr(t) ELSE smtp_server
            IN  /\ IF tried /\ InetStosockaddrOk(t)
                   THEN smtp_server' = after_inet
                   ELSE smtp_server' \in {after_inet, [family |-> AF_INET, addr |-> t.val]}
                /\ Defined
                /\ UNCHANGED crashed
       ELSE /\ fault' = {"oob_read"}
            /\ \/ Crash
               \/ smtp_server' \in {smtp_server, Unspecified} /\ UNCHANGED crashed
    /\ UNCHANGED <<fifo, strings, smtp_helo_name, smtp_connection_to,
                   alerts, emails, misc>>

(* smtphelo_handler(): no argument returns; the old name is not freed. *)
smtphelo_handler(strvec) ==
    /\ VectorSize(strvec) >= 2
    /\ smtp_helo_name' = Slot(strvec, 1)
    /\ Defined
    /\ UNCHANGED <<fifo, strings, smtp_server, smtp_connection_to, alerts,
                   emails, misc, crashed>>

(***************************************************************************)
(* smtpto_handler(): strtoul(slot 1) * TIMER_HZ in unsigned long, with no  *)
(* end check and no arity check: on a line without an argument slot 1 is   *)
(* read past the vector, and strtoul parses whatever it points to, or the  *)
(* process dies.                                                           *)
(***************************************************************************)
smtpto_handler(strvec) ==
    \/ /\ VectorSize(strvec) >= 2
       /\ smtp_connection_to' =
            (StrtoulCast(Slot(strvec, 1), ULONG_WIDTH) * TIMER_HZ) % ULONG
       /\ Defined
       /\ UNCHANGED <<fifo, strings, smtp_helo_name, smtp_server, alerts,
                      emails, misc, crashed>>
    \/ /\ VectorSize(strvec) < 2
       /\ fault' = {"oob_read"}
       /\ \/ Crash
          \/ /\ \E v \in Garbage : smtp_connection_to' = (v * TIMER_HZ) % ULONG
             /\ UNCHANGED <<fifo, strings, smtp_helo_name, smtp_server, alerts,
                            emails, misc, crashed>>

(***************************************************************************)
(* email_handler(): read_value_block() (core/parser.c) returns NULL for an *)
(* empty block, else its entries, each passed to alloc_email() in order.   *)
(***************************************************************************)
email_handler(block) ==
    /\ block # NullVec => Len(emails) + Len(block) <= MAX_EMAILS
    /\ IF block = NullVec THEN UNCHANGED emails ELSE emails' = emails \o block
    /\ Defined
    /\ UNCHANGED <<fifo, strings, smtp_helo_name, smtp_server,
                   smtp_connection_to, alerts, misc, crashed>>

(***************************************************************************)
(* smtp_alert_handler(), smtp_alert_vrrp_handler(),                        *)
(* smtp_alert_checker_handler(): true without an argument, an invalid     *)
(* word returns.                                                           *)
(***************************************************************************)
smtp_alert_handler(d, strvec) ==
    /\ LET res == IF VectorSize(strvec) >= 2 THEN CheckTrueFalse(Slot(strvec, 1))
                  ELSE 1
       IN  alerts' = IF res < 0 THEN alerts ELSE [alerts EXCEPT ![d] = res]
    /\ Defined
    /\ UNCHANGED <<fifo, strings, smtp_helo_name, smtp_server,
                   smtp_connection_to, emails, misc, crashed>>

(***************************************************************************)
(* The toggle handlers: the fields are set to true.  use_polling_handler() *)
(* alone is a root keyword and returns when called with strvec == NULL.    *)
(***************************************************************************)
toggle_handler(d, strvec) ==
    /\ enabled' = IF strvec = NullVec THEN enabled ELSE enabled \cup ToggleFields[d]
    /\ Defined
    /\ UNCHANGED <<fifo, smtp, dynamic_interfaces, default_ifp, snmp_socket,
                   child_wait_time, default_script, crashed>>

dynamic_interfaces_handler ==
    /\ dynamic_interfaces' = TRUE
    /\ Defined
    /\ UNCHANGED <<fifo, smtp, enabled, default_ifp, snmp_socket,
                   child_wait_time, default_script, crashed>>

(***************************************************************************)
(* if_get_by_ifname(name, IF_CREATE_IF_DYNAMIC) (vrrp/vrrp_if.c): the      *)
(* interface if it exists, one created for the name when                  *)
(* dynamic_interfaces is set, else NULL.                                   *)
(***************************************************************************)
if_get_by_ifname(name) ==
    IF name \in ExistingIfs \/ dynamic_interfaces THEN name ELSE NoName

(***************************************************************************)
(* default_interface_handler(): no name returns; otherwise the lookup's    *)
(* result is stored.  When it is NULL the warning prints ifp->ifname, a    *)
(* NULL dereference: the process dies, or (ifname being the first member)  *)
(* "(null)" is printed and NULL is stored.                                 *)
(***************************************************************************)
default_interface_handler(strvec) ==
    /\ VectorSize(strvec) >= 2
    /\ LET ifp == if_get_by_ifname(Slot(strvec, 1))
       IN  IF ifp # NoName
           THEN /\ default_ifp' = ifp
                /\ Defined
                /\ UNCHANGED crashed
           ELSE /\ fault' = {"null_deref"}
                /\ \/ Crash
                   \/ default_ifp' = NoName /\ UNCHANGED crashed
    /\ UNCHANGED <<fifo, smtp, enabled, dynamic_interfaces, snmp_socket,
                   child_wait_time, default_script>>

(* Mutant: a name of PATH_MAX characters or more is accepted. *)
snmp_socket_handler_no_length_check(strvec) ==
    /\ VectorSize(strvec) = 2
    /\ snmp_socket = NoName
    /\ snmp_socket' = Slot(strvec, 1)
    /\ fault' = {"heap_overflow"}
    /\ UNCHANGED <<fifo, smtp, enabled, dynamic_interfaces, default_ifp,
                   child_wait_time, default_script, crashed>>

(***************************************************************************)
(* snmp_socket_handler(): more than one name, no name, a name longer than  *)
(* PATH_MAX - 1 and a socket already set all return.  The copy goes into   *)
(* MALLOC(strlen(name + 1)), strlen(name) - 1 bytes, while strcpy writes   *)
(* strlen(name) + 1: a heap overflow, after which the process goes on.     *)
(***************************************************************************)
snmp_socket_handler(strvec) ==
    LET t == Slot(strvec, 1)
        allocated == t.len - 1
        written == t.len + 1
    IN  /\ VectorSize(strvec) = 2
        /\ t.len <= PATH_MAX - 1
        /\ snmp_socket = NoName
        /\ snmp_socket' = t
        /\ fault' = IF allocated < written THEN {"heap_overflow"} ELSE {}
        /\ UNCHANGED <<fifo, smtp, enabled, dynamic_interfaces, default_ifp,
                       child_wait_time, default_script, crashed>>

(***************************************************************************)
(* child_wait_handler(): a NULL strvec returns; strtoul(slot 1) with an    *)
(* end check, so junk returns.  There is no arity check: without an        *)
(* argument, slot 1 is read past the vector, and what it points to parses  *)
(* as a number, as junk, or the process dies.                              *)
(***************************************************************************)
child_wait_handler(strvec) ==
    /\ strvec # NullVec
    /\ \/ /\ VectorSize(strvec) >= 2
          /\ LET t == Slot(strvec, 1)
             IN  child_wait_time' = IF EndptrAtEnd(t)
                                    THEN StrtoulCast(t, ULONG_WIDTH)
                                    ELSE child_wait_time
          /\ Defined
          /\ UNCHANGED crashed
       \/ /\ VectorSize(strvec) < 2
          /\ fault' = {"oob_read"}
          /\ \/ Crash
             \/ UNCHANGED <<child_wait_time, crashed>>
             \/ (\E v \in Garbage : child_wait_time' = v) /\ UNCHANGED crashed
    /\ UNCHANGED <<fifo, smtp, enabled, dynamic_interfaces, default_ifp,
                   snmp_socket, default_script>>

(***************************************************************************)
(* set_default_script_user() (outside this file): the user is looked up in *)
(* the password database and the group, when given, in the group database; *)
(* without one the user's own group is used.  On success the pair becomes  *)
(* the default and 0 is returned; a lookup that fails returns non-zero and *)
(* leaves the default as it was.                                           *)
(***************************************************************************)
set_default_script_user(user, group) ==
    default_script' \in
        { default_script,
          [uid |-> user, gid |-> IF group = NoName THEN PrimaryGroup[user] ELSE group] }

(* script_user_handler(): no name returns; the result is only logged. *)
script_user_handler(strvec) ==
    /\ VectorSize(strvec) >= 2
    /\ set_default_script_user(Slot(strvec, 1),
                               IF VectorSize(strvec) > 2 THEN Slot(strvec, 2) ELSE NoName)
    /\ Defined
    /\ UNCHANGED <<fifo, smtp, enabled, dynamic_interfaces, default_ifp, snmp_socket,
                   child_wait_time, crashed>>

(* The lines of a directive with no argument or one of args. *)
Lines(d, args) == {Line(d, <<>>)} \cup {Line(d, <<t>>) : t \in args}

Next ==
    /\ ~crashed
    /\ \/ Fifo!Next /\ Defined /\ UNCHANGED <<smtp, misc, crashed>>
       \/ \E d \in StringDirectives, t \in StringArgs : string_handler(d, Line(d, <<t>>))
       \/ \E l \in Lines("smtp_server", ServerArgs) : smtpserver_handler(l)
       \/ \E l \in Lines("smtp_helo_name", StringArgs) : smtphelo_handler(l)
       \/ \E l \in Lines("smtp_connect_timeout", TimeoutArgs) : smtpto_handler(l)
       \/ \E b \in Blocks : email_handler(b)
       \/ \E d \in AlertDirectives, l \in Lines("smtp_alert", AlertArgs) :
             smtp_alert_handler(d, l)
       \/ \E d \in ToggleDirectives :
             \E l \in IF d = "linkbeat_use_polling" THEN {NullVec, Line(d, <<>>)}
                                                   ELSE {Line(d, <<>>)} :
                toggle_handler(d, l)
       \/ dynamic_interfaces_handler
       \/ \E l \in Lines("default_interface", IfNames) : default_interface_handler(l)
       \/ \E l \in Lines("snmp_socket", SocketArgs)
                   \cup {Line("snmp_socket", <<x, y>>) : x, y \in SocketArgs} :
             snmp_socket_handler(l)
       \/ \E l \in {NullVec} \cup Lines("child_wait_time", WaitArgs) :
             child_wait_handler(l)
       \/ \E l \in Lines("script_user", UserArgs)
                   \cup {Line("script_user", <<u, g>>) : u, g \in UserArgs} :
             script_user_handler(l)

Spec == Init /\ [][Next]_vars

-----------------------------------------------------------------------------
TypeOK ==
    /\ Fifo!TypeOK
    /\ strings \in [StringDirectives -> StringArgs \cup {NoName}]
    /\ smtp_helo_name \in StringArgs \cup {NoName}
    /\ smtp_server.family \in {AF_UNSPEC, AF_INET, AF_INET6}
    /\ smtp_connection_to \in 0..(ULONG - 1)
    /\ alerts \in [AlertDirectives -> {AlertDefault, 0, 1}]
    /\ Len(emails) <= MAX_EMAILS
    /\ enabled \subseteq UNION {ToggleFields[d] : d \in DOMAIN ToggleFields}
    /\ default_ifp \in IfNames \cup {NoName}
    /\ snmp_socket = NoName \/ snmp_socket.len <= PATH_MAX - 1
    /\ child_wait_time \in 0..(ULONG - 1)
    /\ default_script \in {NoName} \cup [uid : UserArgs, gid : UserArgs]
    /\ fault \subseteq {"oob_read", "null_deref", "heap_overflow"}

(* A step without undefined behaviour. *)
StepDefined == fault' = {}

(* A configured SMTP server is not lost by a later smtp_server line. *)
ServerKeptOnFailure ==
    smtp_server.family # AF_UNSPEC => smtp_server'.family # AF_UNSPEC

(***************************************************************************)
(* GlobalLinesPerSpec (spec.md 4.1 and 7): no global_defs line makes the   *)
(* process dereference NULL (default_interface of an interface that does   *)
(* not exist, without dynamic_interfaces before it), overflow the heap     *)
(* (snmp_socket) or read past its token vector (smtp_server,              *)
(* smtp_connect_timeout, child_wait_time without a value); and an          *)
(* smtp_server line whose literal                                          *)
(* parse and name resolution both fail leaves the server configured       *)
(* before it.                                                              *)
(***************************************************************************)
GlobalLinesPerSpec == [][StepDefined /\ ServerKeptOnFailure]_vars
====
