---------------------------- MODULE LvsTimeouts ----------------------------
(***************************************************************************)
(* The lvs_timeouts directive: lvs_timeouts() in                           *)
(* src/keepalived/core/global_parser.c, the sub-option scanner that reads  *)
(* "tcp <secs>", "tcpfin <secs>" and "udp <secs>" pairs in any order.      *)
(*                                                                         *)
(* The handler runs to completion on one line before the next directive;   *)
(* one iteration of its for-loop is one step here, so that the cursor i    *)
(* and the skip-over-value logic are modelled as the code has them.  The   *)
(* three per-keyword branches of the loop are the same code with a         *)
(* different lower bound and field: they are one action parameterised by  *)
(* the keyword, and the three fields are the function `timeout`.           *)
(***************************************************************************)
EXTENDS KaToken, Integers, Sequences

CONSTANTS
    Lines,            \* the token vectors an lvs_timeouts line can have
    LVS_MAX_TIMEOUT   \* (86400*31)

VARIABLES
    timeout,   \* [k \in TimeoutKeys |-> global_data->lvs_<k>_timeout]
    strvec,    \* the line being handled, <<>> between lines
    i,         \* the loop cursor
    pc,        \* "idle" between lines, "loop" inside the for-loop
    pre        \* ghost: timeout as it was when the current line started

vars == <<timeout, strvec, i, pc, pre>>

TimeoutKeys == {"tcp", "tcpfin", "udp"}

(* The lowest value each keyword accepts: val < 0 for tcp, val < 1 else. *)
TimeoutMin == [tcp |-> 0, tcpfin |-> 1, udp |-> 1]

(* Mutant: the upper bound LVS_MAX_TIMEOUT is not tested. *)
TimeoutInvalidNoMax(k, t) ==
    \/ ~EndptrAtEnd(t)
    \/ StrtolVal(t) < TimeoutMin[k]

(* The rejection test of a value token. *)
TimeoutInvalid(k, t) ==
    \/ ~EndptrAtEnd(t)
    \/ StrtolVal(t) < TimeoutMin[k]
    \/ StrtolVal(t) > LVS_MAX_TIMEOUT

Size == VectorSize(strvec)

(***************************************************************************)
(* The loop's i++ after `continue` or the end of the body; when the loop   *)
(* test fails the handler returns and the line is dropped.                 *)
(***************************************************************************)
Advance(n) ==
    IF i + n < Size
    THEN /\ i' = i + n
         /\ pc' = "loop"
         /\ UNCHANGED <<strvec, pre>>
    ELSE /\ i' = 0
         /\ pc' = "idle"
         /\ strvec' = <<>>
         /\ pre' = timeout'

Init ==
    /\ timeout = [k \in TimeoutKeys |-> 0]
    /\ strvec = <<>>
    /\ i = 0
    /\ pc = "idle"
    /\ pre = timeout

(***************************************************************************)
(* Entry of lvs_timeouts(): the arity check, then i = 1.                   *)
(***************************************************************************)
LvsTimeoutsStart(line) ==
    /\ pc = "idle"
    /\ IF VectorSize(line) < 3
       THEN UNCHANGED vars
       ELSE /\ strvec' = line
            /\ i' = 1
            /\ pc' = "loop"
            /\ UNCHANGED <<timeout, pre>>

(* A keyword as the last token: "No value specified ... - ignoring". *)
OptionNoValue(k) ==
    /\ pc = "loop"
    /\ Slot(strvec, i).kind = k
    /\ i = Size - 1
    /\ UNCHANGED timeout
    /\ Advance(1)

(* Mutant: an invalid value returns from the handler (abandons the line). *)
OptionValueAbortOnInvalid(k) ==
    /\ pc = "loop"
    /\ Slot(strvec, i).kind = k
    /\ i < Size - 1
    /\ LET t == Slot(strvec, i + 1)
       IN  IF TimeoutInvalid(k, t)
           THEN /\ UNCHANGED timeout
                /\ i' = 0 /\ pc' = "idle" /\ strvec' = <<>> /\ pre' = timeout
           ELSE /\ timeout' = [timeout EXCEPT ![k] = StrtolVal(t)]
                /\ Advance(2)

(* A keyword and its value: store it if valid, skip over it either way. *)
OptionValue(k) ==
    /\ pc = "loop"
    /\ Slot(strvec, i).kind = k
    /\ i < Size - 1
    /\ LET t == Slot(strvec, i + 1)
       IN  timeout' = IF TimeoutInvalid(k, t)
                      THEN timeout
                      ELSE [timeout EXCEPT ![k] = StrtolVal(t)]
    /\ Advance(2)

(* Mutant: an unknown word is taken to have a value, which is skipped. *)
UnknownOptionSkipsValue ==
    /\ pc = "loop"
    /\ Slot(strvec, i).kind \notin TimeoutKeys
    /\ UNCHANGED timeout
    /\ Advance(2)

(* Any other token: "Unknown option %s specified for lvs_timeouts". *)
UnknownOption ==
    /\ pc = "loop"
    /\ Slot(strvec, i).kind \notin TimeoutKeys
    /\ UNCHANGED timeout
    /\ Advance(1)

Next ==
    \/ \E line \in Lines : LvsTimeoutsStart(line)
    \/ \E k \in TimeoutKeys : OptionNoValue(k) \/ OptionValue(k)
    \/ UnknownOption

Spec == Init /\ [][Next]_vars

-----------------------------------------------------------------------------
TypeOK ==
    /\ timeout \in [TimeoutKeys -> 0..LVS_MAX_TIMEOUT]
    /\ pre \in [TimeoutKeys -> 0..LVS_MAX_TIMEOUT]
    /\ pc \in {"idle", "loop"}
    /\ i \in 0..Size
    /\ pc = "idle" => strvec = <<>> /\ pre = timeout

(***************************************************************************)
(* A line whose options are `keyword value` pairs with numeric-looking     *)
(* values: the lines the spec's ordering and partial-failure claims are    *)
(* about.                                                                  *)
(***************************************************************************)
IsPairLine(line) ==
    /\ VectorSize(line) >= 3
    /\ VectorSize(line) % 2 = 1
    /\ \A j \in 1..(VectorSize(line) - 1) :
          IF j % 2 = 1 THEN Slot(line, j).kind \in TimeoutKeys
                       ELSE Slot(line, j).kind \in {"num", "numjunk"}

(***************************************************************************)
(* What the spec promises for such a line (spec.md 4.2): each keyword's    *)
(* field takes the value of its last pair whose value is valid for that    *)
(* keyword and is untouched if there is none; a bad pair never affects the *)
(* others, and the order of the pairs only matters among equal keywords.   *)
(***************************************************************************)
PairResult(before, line) ==
    [k \in TimeoutKeys |->
        LET J == {j \in 1..(VectorSize(line) - 1) :
                    /\ j % 2 = 1
                    /\ Slot(line, j).kind = k
                    /\ StrtolVal(Slot(line, j + 1)) \in TimeoutMin[k]..LVS_MAX_TIMEOUT
                    /\ Slot(line, j + 1).kind = "num"}
        IN  IF J = {} THEN before[k]
            ELSE LET last == CHOOSE j \in J : \A m \in J : m <= j
                 IN  StrtolVal(Slot(line, last + 1))]

(***************************************************************************)
(* ScanMatchesPairs: the step on which the scanner of lvs_timeouts()      *)
(* leaves a pair line sets the three timeouts to exactly PairResult; this  *)
(* is the order independence and partial-failure recovery of the cursor.  *)
(***************************************************************************)
ScanMatchesPairs ==
    [][(pc = "loop" /\ pc' = "idle" /\ IsPairLine(strvec))
          => timeout' = PairResult(pre, strvec)]_vars

(***************************************************************************)
(* The refinement mapping: between lines the abstract timeouts are the     *)
(* handler's; while a line is being scanned they are still those the line  *)
(* started from (pre), so the whole scan is one abstract Apply step, taken *)
(* when the loop ends.  The abstract strvec is the vector being scanned.     *)
(***************************************************************************)
ABS == INSTANCE LvsTimeoutsLine
           WITH timeout <- IF pc = "idle" THEN timeout ELSE pre

(***************************************************************************)
(* ImplementsLineSpec: the cursor loop of lvs_timeouts() implements the    *)
(* atomic, recursive sub-option scan of spec.md 4.2 on every line, not     *)
(* only on pair lines: unknown words, keywords without a value and values  *)
(* after an unknown word included.                                         *)
(***************************************************************************)
ImplementsLineSpec == ABS!Spec
=============================================================================
