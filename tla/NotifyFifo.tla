------------------------------ MODULE NotifyFifo ------------------------------
(***************************************************************************)
(* The notify fifo directives of global_defs                               *)
(* (src/keepalived/core/global_parser.c): notify_fifo, vrrp_notify_fifo,   *)
(* lvs_notify_fifo and their *_script variants.  All six handlers call     *)
(* notify_fifo() or notify_fifo_script() on one of three notify_fifo_t     *)
(* records of global_data; a record is a name and a script, each NULL     *)
(* until set.                                                              *)
(*                                                                         *)
(* notify_script_init() (core/notify.c, outside this file) builds the     *)
(* script from the line, and returns NULL when it cannot (for instance an  *)
(* empty command): that outcome is a nondeterministic choice.              *)
(***************************************************************************)
EXTENDS KaToken, Integers, Sequences

CONSTANTS
    Fifos,     \* the three notify_fifo_t records: global, vrrp, lvs
    Names,     \* the argument tokens a line is tried with
    NoName     \* a NULL name or script

VARIABLES
    fifo_name,     \* [f |-> fifo->name]
    fifo_script    \* [f |-> fifo->script]: the token it was built from

vars == <<fifo_name, fifo_script>>

Line(d, args) == <<Tok(d, 0, 11)>> \o args

Lines(d) == {Line(d, <<>>)} \cup {Line(d, <<n>>) : n \in Names}

Init ==
    /\ fifo_name = [f \in Fifos |-> NoName]
    /\ fifo_script = [f \in Fifos |-> NoName]

(***************************************************************************)
(* notify_fifo(): no name on the line, or a name already set, and the line *)
(* is ignored; otherwise the name is copied into the record.               *)
(***************************************************************************)
notify_fifo(strvec, f) ==
    /\ fifo_name' = IF VectorSize(strvec) < 2 \/ fifo_name[f] # NoName
                    THEN fifo_name
                    ELSE [fifo_name EXCEPT ![f] = Slot(strvec, 1)]
    /\ UNCHANGED fifo_script

(***************************************************************************)
(* notify_fifo_script(): the same guards on the script; the script is      *)
(* notify_script_init()'s result, which may be NULL.                       *)
(***************************************************************************)
notify_fifo_script(strvec, f) ==
    /\ IF VectorSize(strvec) < 2 \/ fifo_script[f] # NoName
       THEN UNCHANGED fifo_script
       ELSE \E script \in {Slot(strvec, 1), NoName} :
               fifo_script' = [fifo_script EXCEPT ![f] = script]
    /\ UNCHANGED fifo_name

Next ==
    \E f \in Fifos :
        \/ \E l \in Lines("notify_fifo") : notify_fifo(l, f)
        \/ \E l \in Lines("notify_fifo_script") : notify_fifo_script(l, f)

Spec == Init /\ [][Next]_vars

-----------------------------------------------------------------------------
TypeOK ==
    /\ fifo_name \in [Fifos -> Names \cup {NoName}]
    /\ fifo_script \in [Fifos -> Names \cup {NoName}]
=============================================================================
