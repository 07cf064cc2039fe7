---------------------------- MODULE TraceSequence ----------------------------
(***************************************************************************)
(* Trace numbers (allocate_trace_sequence and get_next_trace_sequence of   *)
(* services/nacha_service.py).  A request draws its numbers with one       *)
(* nextval per entry, in one statement; the statements of concurrent       *)
(* requests interleave value by value.  nextval is not transactional: a    *)
(* value drawn by a request that fails is never handed out again.          *)
(***************************************************************************)
EXTENDS Integers

CONSTANTS Request,
          MaxTrace,  \* 9_999_999
          MaxCount,  \* bound: entries in one file
          MaxDraw    \* bound: no call starts past this value of the sequence

ASSUME TraceAssumption == MaxTrace \in Nat /\ MaxCount \in Nat \ {0} /\ MaxDraw \in Nat

VARIABLES
    last,     \* the sequence: the last value nextval returned, 0 for none
    call,     \* per request: the call in progress
    granted   \* history: the numbers returned by calls that succeeded

vars == <<last, call, granted>>

NoCall == [count |-> 0, drawn |-> 0, first |-> 0, last |-> 0, mine |-> {}]

Init == /\ last = 0
        /\ call = [r \in Request |-> NoCall]
        /\ granted = {}

\* get_next_trace_sequence: the number shown to the operator, read from
\* last_value and is_called without drawing it.
Preview == last + 1

Call(r, count) ==
    /\ call[r] = NoCall
    /\ last <= MaxDraw
    /\ call' = [call EXCEPT ![r].count = count]
    /\ UNCHANGED <<last, granted>>

\* One row of generate_series: allocated[0] and allocated[-1] are kept; mine is
\* history.
\* Mutants: one row too many; the first value is kept too late.
NextValOneMore(r) ==
    /\ call[r].drawn <= call[r].count
    /\ last' = last + 1
    /\ call' = [call EXCEPT ![r].drawn = @ + 1,
                            ![r].first = IF call[r].drawn = 0 THEN last + 1 ELSE @,
                            ![r].last  = last + 1,
                            ![r].mine  = @ \cup {last + 1}]
    /\ UNCHANGED granted
NextValFirstLate(r) ==
    /\ call[r].drawn < call[r].count
    /\ last' = last + 1
    /\ call' = [call EXCEPT ![r].drawn = @ + 1,
                            ![r].first = IF call[r].drawn <= 1 THEN last + 1 ELSE @,
                            ![r].last  = last + 1,
                            ![r].mine  = @ \cup {last + 1}]
    /\ UNCHANGED granted
NextVal(r) ==
    /\ call[r].drawn < call[r].count
    /\ last' = last + 1
    /\ call' = [call EXCEPT ![r].drawn = @ + 1,
                            ![r].first = IF call[r].drawn = 0 THEN last + 1 ELSE @,
                            ![r].last  = last + 1,
                            ![r].mine  = @ \cup {last + 1}]
    /\ UNCHANGED granted

Drawn(r) == call[r].count > 0 /\ call[r].drawn = call[r].count

\* The two checks that refuse the numbers.  "Atomically reserve count consecutive
\* trace numbers" is what both steps do together: the draw alone does not.
TooLong(r) == call[r].last > MaxTrace
\* Mutant: the values are taken to be consecutive.
GappedNever(r) == FALSE
Gapped(r)  == call[r].last - call[r].first # call[r].count - 1

Return(r) ==
    /\ Drawn(r)
    /\ ~TooLong(r) /\ ~Gapped(r)
    /\ granted' = granted \cup (call[r].first..(call[r].first + call[r].count - 1))
    /\ call' = [call EXCEPT ![r] = NoCall]
    /\ UNCHANGED last

\* Mutant: a refused call gives its numbers back.
RefuseRollsBack(r) ==
    /\ Drawn(r)
    /\ TooLong(r) \/ Gapped(r)
    /\ last' = last - call[r].count
    /\ call' = [call EXCEPT ![r] = NoCall]
    /\ UNCHANGED granted
Refuse(r) ==
    /\ Drawn(r)
    /\ TooLong(r) \/ Gapped(r)
    /\ call' = [call EXCEPT ![r] = NoCall]
    /\ UNCHANGED <<last, granted>>

\* The statement is cut short: the connection or the process is lost.
Crash(r) ==
    /\ call[r] # NoCall
    /\ call' = [call EXCEPT ![r] = NoCall]
    /\ UNCHANGED <<last, granted>>

Next == \E r \in Request :
            \/ \E count \in 1..MaxCount : Call(r, count)
            \/ NextVal(r) \/ Return(r) \/ Refuse(r) \/ Crash(r)

Spec == Init /\ [][Next]_vars

-----------------------------------------------------------------------------
TypeOK ==
    /\ last \in Nat
    /\ call \in [Request -> [count : 0..MaxCount, drawn : 0..MaxCount,
                             first : Nat, last : Nat, mine : SUBSET Nat]]
    /\ granted \subseteq Nat

\* No value is drawn twice, by one call or by two, or drawn after it was
\* granted, and the preview shows one that nobody has: nextval never hands the
\* same value to two callers, so allocate_trace_sequence takes no lock.
DrawnOnce ==
    /\ \A r \in Request : Preview \notin granted \cup call[r].mine
    /\ granted \subseteq 1..last
    /\ \A r \in Request : call[r].mine \subseteq 1..last /\ call[r].mine \cap granted = {}
    /\ \A q, r \in Request : q # r => call[q].mine \cap call[r].mine = {}

\* A call's values grow, so the test last - first = count - 1 says that all of
\* first..last are its own: the reason the contiguity check is enough.
SpanCountsDraws ==
    \A r \in Request :
        LET c == call[r]
        IN  /\ c.drawn <= c.count
            /\ c.drawn = 0 => c.mine = {}
            /\ c.drawn > 0 => /\ c.first \in c.mine /\ c.last \in c.mine
                              /\ c.last - c.first >= c.drawn - 1
                              /\ c.last - c.first = c.drawn - 1 => c.first..c.last \subseteq c.mine

\* Interleaved draws give every file numbers of its own (TraceAllocator).
Allocator == INSTANCE TraceAllocator
HandsOutFreshRuns == Allocator!Spec
=============================================================================
