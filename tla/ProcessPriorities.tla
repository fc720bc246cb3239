-------------------------- MODULE ProcessPriorities --------------------------
(***************************************************************************)
(* The per-process scheduling directives of global_defs                    *)
(* (src/keepalived/core/global_parser.c): vrrp_priority, checker_priority, *)
(* bfd_priority (get_priority), vrrp/checker/bfd_rt_priority               *)
(* (get_realtime_priority), vrrp/checker/bfd_rlimit_rtime (get_rt_rlimit)  *)
(* and vrrp/checker/bfd_no_swap.                                           *)
(*                                                                         *)
(* The three processes run the same code on their own fields, so a field   *)
(* is a function of the process.  Each handler is one step; `last` is a    *)
(* ghost holding the directive kind, process and line of the step.  A read *)
(* past the token vector may kill the process, which then reads no more    *)
(* lines.                                                                  *)
(***************************************************************************)
EXTENDS KaToken, Integers, Sequences

CONSTANTS
    Args,             \* the argument tokens a line is tried with
    RtArgs,           \* the argument tokens of *_rlimit_rtime lines
    SCHED_RR_MIN,     \* sched_get_priority_min(SCHED_RR)
    SCHED_RR_MAX,     \* sched_get_priority_max(SCHED_RR)
    Processes,        \* the processes: vrrp, checker, bfd
    Garbage           \* what strtoul can read from memory past a vector

VARIABLES
    process_priority,    \* [p |-> global_data-><p>_process_priority]
    realtime_priority,   \* [p |-> global_data-><p>_realtime_priority]
    rlimit_rt,           \* [p |-> global_data-><p>_rlimit_rt]
    no_swap,             \* [p |-> global_data-><p>_no_swap]
    crashed,             \* the process died on a line
    last                 \* ghost: [dir, proc, strvec] of the step

vars == <<process_priority, realtime_priority, rlimit_rt, no_swap, crashed, last>>

(* A line with the directive word and its arguments. *)
Line(d, args) == <<Tok(d, 0, 8)>> \o args

(* global_data is allocated zeroed: every field starts at 0 / false. *)
Init ==
    /\ process_priority = [p \in Processes |-> 0]
    /\ realtime_priority = [p \in Processes |-> 0]
    /\ rlimit_rt = [p \in Processes |-> 0]
    /\ no_swap = [p \in Processes |-> FALSE]
    /\ crashed = FALSE
    /\ last = [dir |-> "none", proc |-> "none", strvec |-> <<>>]

Handled(d, p, strvec) == last' = [dir |-> d, proc |-> p, strvec |-> strvec]

(* Mutant: the range test is dropped. *)
get_priority_unchecked(strvec) ==
    IF VectorSize(strvec) < 2 THEN 0 ELSE StrtolVal(Slot(strvec, 1))

(***************************************************************************)
(* get_priority(): 0 without an argument, atoi() of it, and 0 again when   *)
(* it is outside -20..19; the (int8_t) cast keeps the values in range.     *)
(***************************************************************************)
get_priority(strvec) ==
    IF VectorSize(strvec) < 2 THEN 0
    ELSE LET priority == StrtolVal(Slot(strvec, 1))
         IN  IF priority < -20 \/ priority > 19 THEN 0 ELSE priority

(* Mutant: the raised value is one below the minimum. *)
get_realtime_priority_low(strvec) ==
    IF VectorSize(strvec) < 2 THEN -1
    ELSE LET priority == StrtolVal(Slot(strvec, 1))
         IN  IF priority < SCHED_RR_MIN THEN SCHED_RR_MIN - 1
             ELSE IF priority > SCHED_RR_MAX THEN SCHED_RR_MAX ELSE priority

(***************************************************************************)
(* get_realtime_priority(): -1 without an argument, otherwise atoi() of it *)
(* raised to the SCHED_RR minimum and lowered to its maximum.              *)
(***************************************************************************)
get_realtime_priority(strvec) ==
    IF VectorSize(strvec) < 2 THEN -1
    ELSE LET priority == StrtolVal(Slot(strvec, 1))
         IN  IF priority < SCHED_RR_MIN THEN SCHED_RR_MIN
             ELSE IF priority > SCHED_RR_MAX THEN SCHED_RR_MAX ELSE priority

(***************************************************************************)
(* get_rt_rlimit(): strtoul() of slot 1 with an end check; 0 when it       *)
(* fails.  rlim_t and unsigned long have the same width, so the overflow   *)
(* test never fires.                                                       *)
(***************************************************************************)
get_rt_rlimit(strvec) ==
    LET t == Slot(strvec, 1)
    IN  IF EndptrAtEnd(t) THEN StrtolVal(t) ELSE 0

(* vrrp_prio_handler(), checker_prio_handler(), bfd_prio_handler() *)
prio_handler(p, strvec) ==
    /\ process_priority' = [process_priority EXCEPT ![p] = get_priority(strvec)]
    /\ Handled("priority", p, strvec)
    /\ UNCHANGED <<realtime_priority, rlimit_rt, no_swap, crashed>>

(* vrrp/checker/bfd_rt_priority_handler(): stored only when >= 0. *)
rt_priority_handler(p, strvec) ==
    /\ LET priority == get_realtime_priority(strvec)
       IN  realtime_priority' = IF priority >= 0
                                THEN [realtime_priority EXCEPT ![p] = priority]
                                ELSE realtime_priority
    /\ Handled("rt_priority", p, strvec)
    /\ UNCHANGED <<process_priority, rlimit_rt, no_swap, crashed>>

(***************************************************************************)
(* vrrp/checker/bfd_rt_rlimit_handler(): the result is always stored.      *)
(* get_rt_rlimit() has no arity check: on a line without a value slot 1 is *)
(* read past the vector, and the process dies, or strtoul parses what the  *)
(* pointer points to (junk gives 0).                                       *)
(***************************************************************************)
rt_rlimit_handler(p, strvec) ==
    /\ IF VectorSize(strvec) >= 2
       THEN /\ rlimit_rt' = [rlimit_rt EXCEPT ![p] = get_rt_rlimit(strvec)]
            /\ UNCHANGED crashed
       ELSE \/ crashed' = TRUE /\ UNCHANGED rlimit_rt
            \/ /\ \E v \in {0} \cup Garbage : rlimit_rt' = [rlimit_rt EXCEPT ![p] = v]
               /\ UNCHANGED crashed
    /\ Handled("rlimit_rtime", p, strvec)
    /\ UNCHANGED <<process_priority, realtime_priority, no_swap>>

(* vrrp/checker/bfd_no_swap_handler() *)
no_swap_handler(p) ==
    /\ no_swap' = [no_swap EXCEPT ![p] = TRUE]
    /\ Handled("no_swap", p, Line("no_swap", <<>>))
    /\ UNCHANGED <<process_priority, realtime_priority, rlimit_rt, crashed>>

(* The lines of a priority directive: with no argument or with one. *)
PrioLines(d) == {Line(d, <<>>)} \cup {Line(d, <<t>>) : t \in Args}

RlimitLines == {Line("rlimit_rtime", <<>>)} \cup {Line("rlimit_rtime", <<t>>) : t \in RtArgs}

Next ==
    /\ ~crashed
    /\ \E p \in Processes :
          \/ \E l \in PrioLines("priority") : prio_handler(p, l)
          \/ \E l \in PrioLines("rt_priority") : rt_priority_handler(p, l)
          \/ \E l \in RlimitLines : rt_rlimit_handler(p, l)
          \/ no_swap_handler(p)

Spec == Init /\ [][Next]_vars

-----------------------------------------------------------------------------
TypeOK ==
    /\ process_priority \in [Processes -> -20..19]
    /\ realtime_priority \in [Processes -> 0..SCHED_RR_MAX]
    /\ rlimit_rt \in [Processes -> Nat]
    /\ no_swap \in [Processes -> BOOLEAN]

(***************************************************************************)
(* RtPriorityKeptOrClamped: once a process has a real-time priority, no    *)
(* later *_rt_priority line takes it away again: a line without a value    *)
(* (get_realtime_priority's -1) is ignored, and a junk or low value is     *)
(* raised to the SCHED_RR minimum rather than stored as 0.                 *)
(***************************************************************************)
RtPriorityKeptOrClamped ==
    [][\A p \in Processes :
          realtime_priority[p] # 0 => realtime_priority'[p] \in SCHED_RR_MIN..SCHED_RR_MAX]_vars

(* The spec's clamp of a priority value to [lo, hi]. *)
ClampTo(v, lo, hi) == IF v < lo THEN lo ELSE IF v > hi THEN hi ELSE v

(* A *_priority step with a numeric value clamps it to -20..19. *)
PriorityStepPerSpec ==
    (last'.dir = "priority" /\ VectorSize(last'.strvec) >= 2
       /\ EndptrAtEnd(Slot(last'.strvec, 1)))
    => process_priority'[last'.proc] =
         ClampTo(StrtolVal(Slot(last'.strvec, 1)), -20, 19)

(***************************************************************************)
(* A *_rlimit_rtime step with a non-numeric value, or with no value at all *)
(* (an arity error), leaves the limits, and the process goes on.           *)
(***************************************************************************)
RlimitStepPerSpec ==
    last'.dir = "rlimit_rtime" =>
        IF VectorSize(last'.strvec) >= 2
        THEN ~EndptrAtEnd(Slot(last'.strvec, 1)) => UNCHANGED rlimit_rt
        ELSE UNCHANGED <<rlimit_rt, crashed>>

(***************************************************************************)
(* PriorityErrorsPerSpec (spec.md 3, 4.1, 7 and 8): a *_priority line with *)
(* a numeric value outside -20..19 sets the priority to the nearest bound, *)
(* and a *_rlimit_rtime line whose value is not a number, or that has no   *)
(* value, leaves the limit configured before.                              *)
(***************************************************************************)
PriorityErrorsPerSpec ==
    [][PriorityStepPerSpec /\ RlimitStepPerSpec]_vars
=============================================================================
