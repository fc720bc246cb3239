-------------------------- MODULE LvsTimeoutsLine --------------------------
(***************************************************************************)
(* What lvs_timeouts promises, one line at a time (spec.md 4.1, 4.2): a    *)
(* line is handled atomically, and its effect on the three timeouts is the *)
(* sub-option scan of the spec, stated as a recursive function of the line *)
(* rather than as a loop with a cursor.  The ranges are those the handler  *)
(* checks (0 for tcp, 1 for tcpfin and udp, up to LVS_MAX_TIMEOUT).        *)
(***************************************************************************)
EXTENDS KaToken, Integers, Sequences

CONSTANTS Lines, LVS_MAX_TIMEOUT

VARIABLES
    timeout,   \* the three timeouts
    strvec     \* the line handed to the handler, <<>> between lines

Keys == {"tcp", "tcpfin", "udp"}
Lowest == [tcp |-> 0, tcpfin |-> 1, udp |-> 1]

(* The value token is a number within the keyword's range. *)
ValidFor(k, t) == t.kind = "num" /\ t.val \in Lowest[k]..LVS_MAX_TIMEOUT

(***************************************************************************)
(* The scan from token j: a keyword with a value applies it when valid and *)
(* skips both; a keyword that is the last token ends the scan; any other   *)
(* word is skipped alone.                                                  *)
(***************************************************************************)
RECURSIVE ScanFrom(_, _, _)
ScanFrom(t, line, j) ==
    IF j >= VectorSize(line) THEN t
    ELSE LET k == Slot(line, j).kind
         IN  CASE k \notin Keys              -> ScanFrom(t, line, j + 1)
               [] j = VectorSize(line) - 1   -> t
               [] ValidFor(k, Slot(line, j + 1)) ->
                    ScanFrom([t EXCEPT ![k] = Slot(line, j + 1).val], line, j + 2)
               [] OTHER                      -> ScanFrom(t, line, j + 2)

(* Fewer than one option leaves everything; otherwise scan from slot 1. *)
LineEffect(t, line) ==
    IF VectorSize(line) < 3 THEN t ELSE ScanFrom(t, line, 1)

Init == timeout = [k \in Keys |-> 0] /\ strvec = <<>>

(* The reader hands the handler a line. *)
Receive ==
    /\ strvec = <<>>
    /\ strvec' \in Lines
    /\ UNCHANGED timeout

(* The handler applies it as a whole and returns. *)
Apply ==
    /\ strvec # <<>>
    /\ timeout' = LineEffect(timeout, strvec)
    /\ strvec' = <<>>

Next == Receive \/ Apply

Spec == Init /\ [][Next]_<<timeout, strvec>>
=============================================================================
