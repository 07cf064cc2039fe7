--------------------------- MODULE TraceAllocator ---------------------------
(***************************************************************************)
(* What trace numbers are for: every file gets a run of consecutive        *)
(* numbers that fits the 7-digit field and that no file ever got before.   *)
(***************************************************************************)
EXTENDS Integers

CONSTANT MaxTrace

VARIABLE granted   \* every number ever given to a file

Init == granted = {}

Grant(first, count) ==
    /\ first \in 1..MaxTrace /\ first + count - 1 <= MaxTrace
    /\ (first..(first + count - 1)) \cap granted = {}
    /\ granted' = granted \cup (first..(first + count - 1))

Next == \E first \in 1..MaxTrace, count \in 1..MaxTrace : Grant(first, count)

Spec == Init /\ [][Next]_granted
=============================================================================
