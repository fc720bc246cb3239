-------------------------- MODULE ProcessIdentity --------------------------
(***************************************************************************)
(* The root-level directives that fix the identity of a keepalived         *)
(* process: net_namespace, instance, use_pid_dir and                       *)
(* namespace_with_ipsets (src/keepalived/core/global_parser.c), across the *)
(* first configuration pass and any number of reloads.                     *)
(*                                                                         *)
(* net_namespace and instance are single-assignment: a second occurrence   *)
(* is ignored with a diagnostic, and during a reload the handlers leave    *)
(* them alone.  A reload is a fresh parse pass over a new global_data in   *)
(* which the identity fields are those of the previous snapshot (that      *)
(* part is main-program code outside this file, modelled from spec.md 5).  *)
(* use_pid_dir is a process-wide variable, not part of global_data.        *)
(***************************************************************************)
EXTENDS KaToken, Integers

CONSTANTS
    Names,       \* the name tokens a line may carry as its argument
    NoName,      \* a NULL char * field
    NullVec,     \* the handler called with strvec == NULL
    MaxReloads   \* bound on the number of reloads

VARIABLES
    network_namespace,      \* global_data->network_namespace
    instance_name,          \* global_data->instance_name
    namespace_with_ipsets,  \* global_data->namespace_with_ipsets
    use_pid_dir,            \* the global use_pid_dir
    reload,                 \* the global reload flag
    reloads                 \* number of reloads so far

vars == <<network_namespace, instance_name, namespace_with_ipsets,
          use_pid_dir, reload, reloads>>

(* The token vectors a root directive can be called with. *)
Vectors(directive) ==
    {NullVec} \cup {<<Tok(directive, 0, 8), n>> : n \in Names}

Init ==
    /\ network_namespace = NoName
    /\ instance_name = NoName
    /\ namespace_with_ipsets = FALSE
    /\ use_pid_dir = FALSE
    /\ reload = FALSE
    /\ reloads = 0

(* Mutant: the directive word, slot 0, is copied instead of slot 1. *)
SetOnceFieldSlot0(field, strvec) ==
    IF strvec = NullVec \/ reload
    THEN UNCHANGED <<field, use_pid_dir>>
    ELSE IF field = NoName
         THEN /\ field' = Slot(strvec, 0)
              /\ use_pid_dir' = TRUE
         ELSE UNCHANGED <<field, use_pid_dir>>

(***************************************************************************)
(* net_namespace_handler() and instance_handler(): the same code on two    *)
(* fields.  set_value(strvec) is a copy of slot 1.                         *)
(***************************************************************************)
SetOnceField(field, strvec) ==
    IF strvec = NullVec \/ reload
    THEN UNCHANGED <<field, use_pid_dir>>
    ELSE IF field = NoName
         THEN /\ field' = Slot(strvec, 1)
              /\ use_pid_dir' = TRUE
         ELSE UNCHANGED <<field, use_pid_dir>>

net_namespace_handler(strvec) ==
    /\ SetOnceField(network_namespace, strvec)
    /\ UNCHANGED <<instance_name, namespace_with_ipsets, reload, reloads>>

instance_handler(strvec) ==
    /\ SetOnceField(instance_name, strvec)
    /\ UNCHANGED <<network_namespace, namespace_with_ipsets, reload, reloads>>

use_pid_dir_handler(strvec) ==
    /\ use_pid_dir' = (strvec # NullVec \/ use_pid_dir)
    /\ UNCHANGED <<network_namespace, instance_name, namespace_with_ipsets,
                   reload, reloads>>

namespace_ipsets_handler(strvec) ==
    /\ namespace_with_ipsets' = (strvec # NullVec \/ namespace_with_ipsets)
    /\ UNCHANGED <<network_namespace, instance_name, use_pid_dir,
                   reload, reloads>>

(***************************************************************************)
(* A reload (spec.md 5): a new global_data with its defaults, except the   *)
(* identity fields, read from the previous snapshot; the process-wide      *)
(* use_pid_dir survives, and reload is set for the new pass.               *)
(***************************************************************************)
Reload ==
    /\ reloads < MaxReloads
    /\ reload' = TRUE
    /\ reloads' = reloads + 1
    /\ namespace_with_ipsets' = FALSE
    /\ UNCHANGED <<network_namespace, instance_name, use_pid_dir>>

Next ==
    \/ \E v \in Vectors("net_namespace") : net_namespace_handler(v)
    \/ \E v \in Vectors("instance") : instance_handler(v)
    \/ \E v \in Vectors("use_pid_dir") : use_pid_dir_handler(v)
    \/ \E v \in Vectors("namespace_with_ipsets") : namespace_ipsets_handler(v)
    \/ Reload

Spec == Init /\ [][Next]_vars

-----------------------------------------------------------------------------
TypeOK ==
    /\ network_namespace \in Names \cup {NoName}
    /\ instance_name \in Names \cup {NoName}
    /\ namespace_with_ipsets \in BOOLEAN
    /\ use_pid_dir \in BOOLEAN
    /\ reload \in BOOLEAN
    /\ reloads \in 0..MaxReloads
=============================================================================
