---------------------------- MODULE DocumentProofs ----------------------------
(***************************************************************************)
(* The numbers and the documents that go in and out.  Trace numbers, for   *)
(* any number of concurrent calls.  The check digit of a routing number    *)
(* (nacha/validation.py), for every routing number: TLC could try only a   *)
(* few of the 10^9.  The blocks of a file and what can be read back from   *)
(* it, what is stored and can be written, the matching of names, the days  *)
(* the bank settles, for every file, payment, directory and year.  The     *)
(* reader of QuickBooks reports, for every report: what it pays and        *)
(* refuses is what the lines of each vendor say.                           *)
(***************************************************************************)
EXTENDS TraceSequence, Documents, Sums

-----------------------------------------------------------------------------
(* Trace numbers.                                                           *)

IInv == TypeOK /\ DrawnOnce /\ SpanCountsDraws

LEMMA InitIInv == Init => IInv
BY TraceAssumption DEF Init, IInv, TypeOK, DrawnOnce, SpanCountsDraws, NoCall, Preview

\* Draws: the one step that adds to mine and moves the sequence.
LEMMA NextValIInv ==
    ASSUME IInv, NEW r \in Request, NextVal(r)
    PROVE  IInv'
<1> USE TraceAssumption
<1>1. TypeOK'
  <2> DEFINE CallRow == [count : 0..MaxCount, drawn : 0..MaxCount,
                         first : Nat, last : Nat, mine : SUBSET Nat]
  <2>1. call \in [Request -> CallRow] /\ last \in Nat
    BY DEF IInv, TypeOK
  <2>2. /\ call[r].count \in 0..MaxCount /\ call[r].drawn \in 0..MaxCount
        /\ call[r].first \in Nat /\ call[r].mine \subseteq Nat
    BY <2>1
  <2>3. call[r].drawn + 1 \in 0..MaxCount
    BY <2>2 DEF NextVal
  <2>4. call'[r] = [count |-> call[r].count, drawn |-> call[r].drawn + 1,
                    first |-> IF call[r].drawn = 0 THEN last + 1 ELSE call[r].first,
                    last |-> last + 1, mine |-> call[r].mine \cup {last + 1}]
    BY <2>1 DEF NextVal
  <2>5. call'[r] \in CallRow
    BY <2>1, <2>2, <2>3, <2>4
  <2>6. call' = [call EXCEPT ![r] = call'[r]]
    BY <2>1 DEF NextVal
  <2>7. call' \in [Request -> CallRow]
    BY <2>1, <2>5, <2>6
  <2> QED
    BY <2>1, <2>7 DEF NextVal, IInv, TypeOK
<1>2. call'[r].mine = call[r].mine \cup {last + 1} /\ last' = last + 1
  BY DEF IInv, TypeOK, NextVal
<1>3. \A q \in Request \ {r} : call'[q] = call[q]
  BY DEF IInv, TypeOK, NextVal
<1>4. DrawnOnce'
  <2>1. \A q \in Request : call[q].mine \subseteq 1..last /\ granted \subseteq 1..last /\ last \in Nat
    BY DEF IInv, TypeOK, DrawnOnce
  <2>2. \A q \in Request : last + 1 \notin call[q].mine /\ last + 1 \notin granted
    <3>1. last + 1 \notin 1..last
      BY <2>1
    <3> QED
      BY <2>1, <3>1
  <2>3. \A q \in Request : call'[q].mine \subseteq call[q].mine \cup {last + 1}
    BY <1>2, <1>3
  <2>4. granted' = granted
    BY DEF NextVal
  <2>5. \A q \in Request : call'[q].mine \subseteq 1..last' /\ granted' \subseteq 1..last'
    BY <2>1, <2>3, <2>4, <1>2
  <2>6. \A q \in Request : call'[q].mine \cap granted' = {}
    BY <2>2, <2>3, <2>4 DEF IInv, DrawnOnce
  <2>7. ASSUME NEW p \in Request, NEW q \in Request, p # q
        PROVE  call'[p].mine \cap call'[q].mine = {}
    BY <2>2, <2>7, <1>2, <1>3 DEF IInv, DrawnOnce
  <2>8. \A q \in Request : Preview' \notin granted' \cup call'[q].mine
    BY <2>5, <1>2, <2>1 DEF Preview
  <2> QED
    BY <2>5, <2>6, <2>7, <2>8 DEF DrawnOnce
<1>5. SpanCountsDraws'
  <2> SUFFICES ASSUME NEW q \in Request
               PROVE  LET c == call'[q]
                      IN  /\ c.drawn <= c.count
                          /\ c.drawn = 0 => c.mine = {}
                          /\ c.drawn > 0 =>
                               /\ c.first \in c.mine /\ c.last \in c.mine
                               /\ c.last - c.first >= c.drawn - 1
                               /\ c.last - c.first = c.drawn - 1 => c.first..c.last \subseteq c.mine
    BY DEF SpanCountsDraws
  <2>1. CASE q # r
    BY <2>1, <1>3 DEF IInv, SpanCountsDraws
  <2>2. CASE q = r /\ call[r].drawn = 0
    <3>1. call'[r].drawn = 1 /\ call'[r].first = last + 1 /\ call'[r].last = last + 1
          /\ call'[r].count = call[r].count /\ last \in Nat /\ call[r].count \in Nat
          /\ call[r].drawn < call[r].count
      BY <2>2 DEF IInv, TypeOK, NextVal
    <3> QED
      BY <3>1, <2>2, <1>2
  <2>3. CASE q = r /\ call[r].drawn > 0
    <3>1. call'[r].drawn = call[r].drawn + 1 /\ call'[r].first = call[r].first
          /\ call'[r].last = last + 1 /\ call'[r].count = call[r].count
      BY <2>3 DEF IInv, TypeOK, NextVal
    <3>2. last \in Nat /\ call[r].drawn \in Nat /\ call[r].count \in Nat
          /\ call[r].first \in Nat /\ call[r].last \in Nat /\ call[r].drawn < call[r].count
      BY DEF IInv, TypeOK, NextVal
    <3>3. call[r].last <= last
      BY <2>3, <3>2 DEF IInv, DrawnOnce, SpanCountsDraws
    <3>4. /\ call[r].first \in call[r].mine
          /\ call[r].last - call[r].first >= call[r].drawn - 1
          /\ call[r].last - call[r].first = call[r].drawn - 1
                => call[r].first..call[r].last \subseteq call[r].mine
      BY <2>3 DEF IInv, SpanCountsDraws
    <3>5. last + 1 - call[r].first = call[r].drawn
             => call[r].first..(last + 1) \subseteq call[r].mine \cup {last + 1}
      BY <3>2, <3>3, <3>4
    <3> QED
      BY <3>1, <3>2, <3>3, <3>4, <3>5, <2>3, <1>2
  <2> QED
    BY <2>1, <2>2, <2>3 DEF IInv, TypeOK
<1> QED
  BY <1>1, <1>4, <1>5 DEF IInv

\* What a successful call returns is its own.
LEMMA ReturnIsFresh ==
    ASSUME IInv, NEW r \in Request, Return(r)
    PROVE  LET first == call[r].first
               end   == call[r].first + call[r].count - 1
           IN  /\ first \in 1..MaxTrace /\ end <= MaxTrace
               /\ first..end \subseteq call[r].mine
               /\ (first..end) \cap granted = {}
<1> USE TraceAssumption
<1>1. /\ call[r].count \in Nat /\ call[r].first \in Nat /\ call[r].last \in Nat /\ last \in Nat
      /\ call[r].drawn = call[r].count /\ call[r].count > 0
  BY DEF IInv, TypeOK, Return, Drawn
<1>2. call[r].last - call[r].first = call[r].count - 1 /\ call[r].last <= MaxTrace
  BY <1>1 DEF Return, TooLong, Gapped
<1>3. call[r].first..call[r].last \subseteq call[r].mine /\ call[r].first \in call[r].mine
  BY <1>1, <1>2 DEF IInv, SpanCountsDraws
<1>4. call[r].mine \subseteq 1..last /\ call[r].mine \cap granted = {}
  BY DEF IInv, DrawnOnce
<1>5. call[r].first + call[r].count - 1 = call[r].last
  BY <1>1, <1>2
<1> QED
  BY <1>1, <1>2, <1>3, <1>4, <1>5

LEMMA ReturnIInv ==
    ASSUME IInv, NEW r \in Request, Return(r)
    PROVE  IInv'
<1> USE TraceAssumption
<1> DEFINE run == call[r].first..(call[r].first + call[r].count - 1)
<1>1. run \subseteq call[r].mine
  BY ReturnIsFresh
<1>2. granted' = granted \cup run /\ last' = last
  BY DEF Return
<1>3. call'[r] = NoCall /\ \A q \in Request \ {r} : call'[q] = call[q]
  BY DEF IInv, TypeOK, Return
<1>4. TypeOK'
  <2>1. run \subseteq Nat
    BY <1>1 DEF IInv, TypeOK
  <2>2. granted' \subseteq Nat /\ last' \in Nat
    BY <2>1, <1>2 DEF IInv, TypeOK
  <2>3. NoCall \in [count : 0..MaxCount, drawn : 0..MaxCount,
                    first : Nat, last : Nat, mine : SUBSET Nat]
    BY DEF NoCall
  <2> QED
    BY <2>2, <2>3 DEF IInv, TypeOK, Return
<1>5. DrawnOnce'
  <2>1. \A q \in Request \ {r} : call[q].mine \cap run = {}
    BY <1>1 DEF IInv, DrawnOnce
  <2>2. granted' \subseteq 1..last
    BY <1>1, <1>2 DEF IInv, DrawnOnce
  <2> QED
    BY <2>1, <2>2, <1>2, <1>3 DEF IInv, DrawnOnce, NoCall, Preview, TypeOK
<1>6. SpanCountsDraws'
  BY <1>3 DEF IInv, SpanCountsDraws, NoCall
<1> QED
  BY <1>4, <1>5, <1>6 DEF IInv

\* Calling, refusing and crashing leave the sequence and the grants alone.
LEMMA OtherIInv ==
    ASSUME IInv, NEW r \in Request,
           \/ \E count \in 1..MaxCount : Call(r, count)
           \/ Refuse(r) \/ Crash(r)
    PROVE  IInv'
<1> USE TraceAssumption
<1>1. last' = last /\ granted' = granted
  BY DEF Call, Refuse, Crash
<1>2. \A q \in Request \ {r} : call'[q] = call[q]
  BY DEF IInv, TypeOK, Call, Refuse, Crash
<1>3. /\ call'[r].mine = {} /\ call'[r].drawn = 0 /\ call'[r].count \in 0..MaxCount
      /\ call'[r].count >= 0
  BY DEF IInv, TypeOK, Call, Refuse, Crash, NoCall
<1>4. TypeOK'
  BY <1>1 DEF IInv, TypeOK, Call, Refuse, Crash, NoCall
<1>5. DrawnOnce'
  BY <1>1, <1>2, <1>3 DEF IInv, DrawnOnce, Preview
<1>6. SpanCountsDraws'
  BY <1>2, <1>3 DEF IInv, SpanCountsDraws
<1> QED
  BY <1>4, <1>5, <1>6 DEF IInv

LEMMA NextIInv == IInv /\ [Next]_vars => IInv'
<1> SUFFICES ASSUME IInv, [Next]_vars
             PROVE  IInv'
  OBVIOUS
<1>1. CASE Next
  BY <1>1, NextValIInv, ReturnIInv, OtherIInv DEF Next
<1>2. CASE UNCHANGED vars
  BY <1>2 DEF vars, IInv, TypeOK, DrawnOnce, SpanCountsDraws, Preview
<1> QED
  BY <1>1, <1>2

\* Every variable of the sequence keeps its type.
THEOREM TypeCorrect == Spec => []TypeOK
BY InitIInv, NextIInv, PTL DEF Spec, IInv

\* However the nextval calls of concurrent requests interleave, and whichever
\* of them fail, no value is drawn twice (allocate_trace_sequence).
THEOREM DrawnOnceHolds == Spec => []DrawnOnce
BY InitIInv, NextIInv, PTL DEF Spec, IInv

\* The test "last - first = count - 1" is as good as comparing all the values.
THEOREM SpanCountsDrawsHolds == Spec => []SpanCountsDraws
BY InitIInv, NextIInv, PTL DEF Spec, IInv

LEMMA StepRefines == IInv /\ [Next]_vars => [Allocator!Next]_granted
<1> SUFFICES ASSUME IInv, [Next]_vars
             PROVE  [Allocator!Next]_granted
  OBVIOUS
<1> USE TraceAssumption
<1>1. ASSUME NEW r \in Request, Return(r)
      PROVE  Allocator!Next
  <2>1. call[r].first \in 1..MaxTrace /\ call[r].count \in 1..MaxTrace
    <3>1. call[r].count \in Nat /\ call[r].count > 0
      BY <1>1 DEF IInv, TypeOK, Return, Drawn
    <3>2. call[r].first \in 1..MaxTrace /\ call[r].first + call[r].count - 1 <= MaxTrace
      BY <1>1, ReturnIsFresh
    <3> QED
      BY <3>1, <3>2
  <2>2. Allocator!Grant(call[r].first, call[r].count)
    BY <1>1, <2>1, ReturnIsFresh DEF Return, Allocator!Grant
  <2> QED
    BY <2>1, <2>2 DEF Allocator!Next
<1>2. ASSUME NEW r \in Request,
             NextVal(r) \/ Refuse(r) \/ Crash(r) \/ \E count \in 1..MaxCount : Call(r, count)
      PROVE  granted' = granted
  BY <1>2 DEF NextVal, Refuse, Crash, Call
<1>3. CASE UNCHANGED vars
  BY <1>3 DEF vars
<1> QED
  BY <1>1, <1>2, <1>3 DEF Next

\* The interleaved sequence implements the abstract allocator: every file gets a
\* run of consecutive numbers, within the field, that no file had before.
THEOREM Implements == Spec => HandsOutFreshRuns
<1>1. Init => Allocator!Init
  BY DEF Init, Allocator!Init
<1> QED
  BY <1>1, InitIInv, NextIInv, StepRefines, PTL DEF Spec, HandsOutFreshRuns, Allocator!Spec

-----------------------------------------------------------------------------
(* The check digit.                                                         *)

RoutingNumber == [1..9 -> 0..9]

\* A factor 1, 3 or 7 of a difference of two digits is no multiple of ten
\* unless the digits are equal.
LEMMA DigitsDiffer ==
    ASSUME NEW x \in 0..9, NEW y \in 0..9, NEW w \in {1, 3, 7}, NEW s \in Int,
           s % 10 = 0, (s + w * (x - y)) % 10 = 0
    PROVE  x = y
<1>1. CASE w = 1
  BY <1>1, SMT
<1>2. CASE w = 3
  BY <1>2, SMT
<1>3. CASE w = 7
  BY <1>3, SMT
<1> QED
  BY <1>1, <1>2, <1>3

\* Two neighbouring weights differ by 4, 6 or 2.
LEMMA NeighboursDiffer ==
    ASSUME NEW x \in 0..9, NEW y \in 0..9, NEW w \in {4, -6, 2}, NEW s \in Int,
           s % 10 = 0, (s + w * (x - y)) % 10 = 0
    PROVE  (x - y) \in {-5, 0, 5}
<1>1. CASE w = 4
  BY <1>1, SMT
<1>2. CASE w = -6
  BY <1>2, SMT
<1>3. CASE w = 2
  BY <1>3, SMT
<1> QED
  BY <1>1, <1>2, <1>3

Weight(i) == IF i \in {1, 4, 7} THEN 3 ELSE IF i \in {2, 5, 8} THEN 7 ELSE 1

\* The weighted sum of a routing number, and of one with a digit changed.
LEMMA WeightedOf ==
    ASSUME NEW d \in RoutingNumber
    PROVE  /\ \A i \in 1..9 : d[i] \in 0..9
           /\ d[1] \in 0..9 /\ d[2] \in 0..9 /\ d[3] \in 0..9 /\ d[4] \in 0..9 /\ d[5] \in 0..9
           /\ d[6] \in 0..9 /\ d[7] \in 0..9 /\ d[8] \in 0..9 /\ d[9] \in 0..9
           /\ Weighted(d) \in Int
<1>1. \A i \in 1..9 : d[i] \in 0..9
  BY DEF RoutingNumber
<1>2. /\ d[1] \in 0..9 /\ d[2] \in 0..9 /\ d[3] \in 0..9 /\ d[4] \in 0..9 /\ d[5] \in 0..9
      /\ d[6] \in 0..9 /\ d[7] \in 0..9 /\ d[8] \in 0..9 /\ d[9] \in 0..9
  BY <1>1
<1>3. Weighted(d) \in Int
  BY SMTT(30), <1>2 DEF Weighted
<1> QED
  BY <1>1, <1>2, <1>3

LEMMA WeightedOfOne ==
    ASSUME NEW d \in RoutingNumber, NEW i \in 1..9, NEW x \in 0..9
    PROVE  /\ [d EXCEPT ![i] = x] \in RoutingNumber
           /\ Weighted([d EXCEPT ![i] = x]) = Weighted(d) + Weight(i) * (x - d[i])
<1> DEFINE e == [d EXCEPT ![i] = x]
<1>1. e \in RoutingNumber /\ \A j \in 1..9 : e[j] = IF j = i THEN x ELSE d[j]
  BY DEF RoutingNumber
<1> HIDE DEF e
<1>2. /\ e[1] = (IF 1 = i THEN x ELSE d[1]) /\ e[2] = (IF 2 = i THEN x ELSE d[2])
      /\ e[3] = (IF 3 = i THEN x ELSE d[3]) /\ e[4] = (IF 4 = i THEN x ELSE d[4])
      /\ e[5] = (IF 5 = i THEN x ELSE d[5]) /\ e[6] = (IF 6 = i THEN x ELSE d[6])
      /\ e[7] = (IF 7 = i THEN x ELSE d[7]) /\ e[8] = (IF 8 = i THEN x ELSE d[8])
      /\ e[9] = (IF 9 = i THEN x ELSE d[9])
  BY <1>1
<1>3. /\ d[1] \in Int /\ d[2] \in Int /\ d[3] \in Int /\ d[4] \in Int /\ d[5] \in Int
      /\ d[6] \in Int /\ d[7] \in Int /\ d[8] \in Int /\ d[9] \in Int
      /\ e[1] \in Int /\ e[2] \in Int /\ e[3] \in Int /\ e[4] \in Int /\ e[5] \in Int
      /\ e[6] \in Int /\ e[7] \in Int /\ e[8] \in Int /\ e[9] \in Int /\ x \in Int
  BY <1>1, WeightedOf
<1>4. Weighted(e) = Weighted(d) + Weight(i) * (x - d[i])
  <2>1. CASE i \in {1, 4, 7}
    <3>1. Weight(i) = 3
      BY <2>1 DEF Weight
    <3>2. e[1] + e[4] + e[7] = d[1] + d[4] + d[7] + (x - d[i])
      BY <1>2, <2>1, <1>3
    <3>3. e[2] + e[5] + e[8] = d[2] + d[5] + d[8] /\ e[3] + e[6] + e[9] = d[3] + d[6] + d[9]
      BY <1>2, <2>1, <1>3
    <3> QED
      BY <3>1, <3>2, <3>3, <1>3 DEF Weighted
  <2>2. CASE i \in {2, 5, 8}
    <3>1. Weight(i) = 7
      BY <2>2 DEF Weight
    <3>2. e[2] + e[5] + e[8] = d[2] + d[5] + d[8] + (x - d[i])
      BY <1>2, <2>2, <1>3
    <3>3. e[1] + e[4] + e[7] = d[1] + d[4] + d[7] /\ e[3] + e[6] + e[9] = d[3] + d[6] + d[9]
      BY <1>2, <2>2, <1>3
    <3> QED
      BY <3>1, <3>2, <3>3, <1>3 DEF Weighted
  <2>3. CASE i \in {3, 6, 9}
    <3>1. Weight(i) = 1
      BY <2>3 DEF Weight
    <3>2. e[3] + e[6] + e[9] = d[3] + d[6] + d[9] + (x - d[i])
      BY <1>2, <2>3, <1>3
    <3>3. e[1] + e[4] + e[7] = d[1] + d[4] + d[7] /\ e[2] + e[5] + e[8] = d[2] + d[5] + d[8]
      BY <1>2, <2>3, <1>3
    <3> QED
      BY <3>1, <3>2, <3>3, <1>3 DEF Weighted
  <2>4. i \in {1, 4, 7} \/ i \in {2, 5, 8} \/ i \in {3, 6, 9}
    OBVIOUS
  <2> QED
    BY <2>1, <2>2, <2>3, <2>4
<1> QED
  BY <1>1, <1>4 DEF e

LEMMA WeightedOfSwap ==
    ASSUME NEW d \in RoutingNumber, NEW i \in 1..8
    PROVE  Weighted([d EXCEPT ![i] = d[i + 1], ![i + 1] = d[i]])
             = Weighted(d) + (Weight(i + 1) - Weight(i)) * (d[i] - d[i + 1])
<1> DEFINE f == [d EXCEPT ![i] = d[i + 1]]
           g == [f EXCEPT ![i + 1] = d[i]]
<1>1. i \in 1..9 /\ i + 1 \in 1..9 /\ i + 1 # i /\ d[i] \in 0..9 /\ d[i + 1] \in 0..9
  BY WeightedOf
<1>2. f \in RoutingNumber /\ Weighted(f) = Weighted(d) + Weight(i) * (d[i + 1] - d[i])
  BY <1>1, WeightedOfOne
<1>3. f[i + 1] = d[i + 1]
  BY <1>1 DEF RoutingNumber
<1>4. g = [d EXCEPT ![i] = d[i + 1], ![i + 1] = d[i]]
  OBVIOUS
<1> HIDE DEF f
<1>5. Weighted(g) = Weighted(f) + Weight(i + 1) * (d[i] - d[i + 1])
  BY <1>1, <1>2, <1>3, WeightedOfOne
<1> HIDE DEF g
<1>6. Weight(i) \in {1, 3, 7} /\ Weight(i + 1) \in {1, 3, 7} /\ Weighted(d) \in Int
  BY WeightedOf DEF Weight
<1>7. Weighted(g) = Weighted(d) + (Weight(i + 1) - Weight(i)) * (d[i] - d[i + 1])
  BY <1>1, <1>2, <1>5, <1>6
<1> QED
  BY <1>4, <1>7

\* In every routing number that validate_routing_checksum accepts, a mistyped digit, or two
\* neighbours swapped (unless they differ by five), makes one that it refuses.
THEOREM TyposNoticed == \A d \in Seq(0..9) : TypoNoticed(d)
<1> SUFFICES ASSUME NEW d \in Seq(0..9), RoutingValid(d) PROVE TypoNoticed(d)
  BY DEF TypoNoticed
<1>1. d \in RoutingNumber /\ Weighted(d) % 10 = 0
  BY DEF RoutingValid, RoutingNumber
<1>2. ASSUME NEW i \in 1..9, NEW x \in 0..9, RoutingValid([d EXCEPT ![i] = x])
      PROVE  x = d[i]
  <2>1. (Weighted(d) + Weight(i) * (x - d[i])) % 10 = 0
    BY <1>1, <1>2, WeightedOfOne DEF RoutingValid
  <2>2. Weight(i) \in {1, 3, 7} /\ d[i] \in 0..9 /\ Weighted(d) \in Int
    BY <1>1, WeightedOf DEF Weight
  <2> QED
    BY <1>1, <2>1, <2>2, DigitsDiffer
<1>3. ASSUME NEW i \in 1..8, RoutingValid([d EXCEPT ![i] = d[i + 1], ![i + 1] = d[i]])
      PROVE  (d[i] - d[i + 1]) \in {-5, 0, 5}
  <2>1. (Weighted(d) + (Weight(i + 1) - Weight(i)) * (d[i] - d[i + 1])) % 10 = 0
    BY <1>1, <1>3, WeightedOfSwap DEF RoutingValid
  <2>2. Weight(i + 1) - Weight(i) \in {4, -6, 2}
    BY DEF Weight
  <2>3. d[i] \in 0..9 /\ d[i + 1] \in 0..9 /\ Weighted(d) \in Int
    BY <1>1, WeightedOf
  <2> QED
    BY <1>1, <2>1, <2>2, <2>3, NeighboursDiffer
<1> QED
  BY <1>2, <1>3 DEF TypoNoticed

-----------------------------------------------------------------------------
(* The text of a file: what is stored passes validation.                    *)

\* Whatever payment and vendor are stored, combine_batches_and_generate_nacha makes an entry
\* of them that validation refuses for the amount or the bank details only: names and
\* references of any length and of any characters fit, a name being not empty.
THEOREM StoredPaymentsAlwaysPass ==
    \A payment \in StoredPayment, vendor \in StoredVendor : StoredPaymentsPass(payment, vendor)
<1> SUFFICES ASSUME NEW payment \in StoredPayment, NEW vendor \in StoredVendor
             PROVE  StoredPaymentsPass(payment, vendor)
  OBVIOUS
<1>1. PICK id : id = IdField(payment.reference, vendor.account.chars)
  OBVIOUS
<1>2. PICK name : name = ReceiverName(vendor.name)
  OBVIOUS
<1>3. PICK e : /\ e = EntryFor(payment, vendor)
               /\ e.code \in {"22", "32"} /\ e.routing = vendor.routing /\ e.account = vendor.account
               /\ e.cents = payment.cents /\ e.id = id /\ e.name = name
  <2>1. PICK code : code = IF vendor.savings THEN "32" ELSE "22"
    OBVIOUS
  <2>2. EntryFor(payment, vendor)
           = [code |-> code, routing |-> vendor.routing, account |-> vendor.account,
              cents |-> payment.cents, id |-> id, name |-> name]
    BY <1>1, <1>2, <2>1 DEF EntryFor
  <2>3. code \in {"22", "32"}
    BY <2>1
  <2> QED
    BY <2>2, <2>3
<1>4. Raw(id) <= 15 /\ ~id.newline
  <2>1. payment.reference.alnum \in Nat /\ vendor.account.chars \in Nat
    BY DEF StoredPayment, StoredVendor, StoredText
  <2>2. \E n \in 0..15 : id = Plain(n)
    BY <1>1, <2>1 DEF IdField, Least
  <2> QED
    BY <2>2 DEF Plain, Raw
<1>5. Stripped(name) \in 1..22 /\ ~name.newline
  <2>1. vendor.name.chars \in Nat /\ vendor.name.other \in Nat /\ vendor.name.chars + vendor.name.other > 0
    BY DEF StoredVendor, StoredText
  <2> QED
    BY <1>2, <2>1 DEF ReceiverName, Plain, Stripped, Least
<1>6. vendor.account.chars \in Nat /\ vendor.account.other \in Nat
  BY DEF StoredVendor, StoredText
<1>7. EntryValid(e) /\ vendor.account.indent = 0 => EntryDetail(e, 1).account.chars = vendor.account.chars
  BY <1>3, <1>6 DEF EntryValid, Stripped, EntryDetail, Written, Least
<1>8. RoutingValid(vendor.routing) /\ Stripped(vendor.account) \in 1..17
         /\ ~vendor.account.newline /\ payment.cents \in 1..(Limit[10] - 1) => EntryValid(e)
  BY <1>3, <1>4, <1>5 DEF EntryValid
<1> QED
  BY <1>3, <1>7, <1>8 DEF StoredPaymentsPass

-----------------------------------------------------------------------------
(* Numbers in fields.                                                       *)

\* The numbers of w digits: at least one, and Base times those of w - 1 digits.
LEMMA LimitIs ==
    /\ \A w \in 0..12 : Limit[w] \in Nat \ {0}
    /\ Limit[0] = 1 /\ \A w \in 1..12 : Limit[w] = Base * Limit[w - 1]
<1> DEFINE Eq(e) == e = [w \in 0..12 |-> IF w = 0 THEN 1 ELSE Base * e[w - 1]]
<1>1. PICK S : S = Nat \ {0}
  OBVIOUS
<1>2. PICK g \in [1..12 -> [S -> S]] : g = [n \in 1..12 |-> [s \in S |-> Base * s]]
  <2>1. \A s \in S : Base * s \in S
    BY <1>1, BaseAssumption
  <2> QED
    BY <2>1
<1>3. PICK f \in [0..12 -> S] : Iterates(f, 12, 1, g)
  <2>1. PICK N \in Nat, a \in S : N = 12 /\ a = 1
    BY <1>1
  <2>2. g \in [1..N -> [S -> S]]
    BY <2>1
  <2>3. PICK f \in [0..N -> S] : Iterates(f, N, a, g)
    BY <2>2, Iteration
  <2> QED
    BY <2>1, <2>3
<1>4. Eq(f)
  <2>1. ASSUME NEW w \in 0..12 PROVE f[w] = IF w = 0 THEN 1 ELSE Base * f[w - 1]
    <3>1. f[w] = IF w = 0 THEN 1 ELSE g[w][f[w - 1]]
      BY <1>3 DEF Iterates
    <3>2. CASE w # 0
      <4>1. w \in 1..12 /\ w - 1 \in 0..12
        BY <3>2
      <4>2. f[w - 1] \in S
        BY <4>1
      <4> QED
        BY <1>2, <3>1, <3>2, <4>1, <4>2
    <3> QED
      BY <3>1, <3>2
  <2>2. f = [w \in 0..12 |-> f[w]]
    OBVIOUS
  <2> QED
    BY <2>1, <2>2
<1>5. Eq(Limit)
  <2>1. Limit = CHOOSE e : Eq(e)
    BY DEF Limit
  <2> HIDE DEF Eq
  <2> QED
    BY <1>4, <2>1
<1>6. \A w \in 0..12 : Limit[w] = IF w = 0 THEN 1 ELSE Base * Limit[w - 1]
  <2>1. PICK e : e = Limit
    OBVIOUS
  <2>2. Eq(e)
    BY <1>5, <2>1
  <2>3. \A w \in 0..12 : e[w] = IF w = 0 THEN 1 ELSE Base * e[w - 1]
    BY <2>2
  <2> QED
    BY <2>1, <2>3
<1>7. PICK G : G = {w \in 0..12 : Limit[w] \in Nat \ {0}}
  OBVIOUS
<1>8. 0 \in G
  BY <1>6, <1>7
<1>9. ASSUME NEW w \in 0..12, w \in G, w + 1 \in 0..12 PROVE w + 1 \in G
  <2>1. Limit[w + 1] = Base * Limit[w] /\ Limit[w] \in Nat \ {0}
    BY <1>6, <1>7, <1>9
  <2>2. PICK x \in Nat \ {0} : x = Limit[w]
    BY <2>1
  <2>3. Base * x \in Nat \ {0}
    BY BaseAssumption
  <2> QED
    BY <1>7, <1>9, <2>1, <2>2, <2>3
<1>10. \A w \in 0..12 : w \in G
  <2>1. 12 \in Nat
    OBVIOUS
  <2> QED
    BY <1>8, <1>9, <2>1, Upwards
<1> QED
  BY <1>6, <1>7, <1>10

\* Of as many digits as the fields have.
LEMMA FieldLimits ==
    /\ Limit[6] \in Nat \ {0} /\ Limit[7] \in Nat \ {0} /\ Limit[8] \in Nat \ {0}
    /\ Limit[10] \in Nat \ {0} /\ Limit[12] \in Nat \ {0}
<1>1. 6 \in 0..12 /\ 7 \in 0..12 /\ 8 \in 0..12 /\ 10 \in 0..12 /\ 12 \in 0..12
  OBVIOUS
<1> QED
  BY <1>1, LimitIs

\* More digits hold more.
LEMMA LimitsGrow == \A w \in 1..12 : Limit[w - 1] <= Limit[w]
<1> SUFFICES ASSUME NEW w \in 1..12 PROVE Limit[w - 1] <= Limit[w]
  OBVIOUS
<1>1. PICK x \in Nat : x = Limit[w - 1] /\ Limit[w] = Base * x
  BY LimitIs
<1>2. PICK z \in Nat : Base = z + 1
  <2>1. Base - 1 \in Nat /\ Base = (Base - 1) + 1
    BY BaseAssumption
  <2> QED
    BY <2>1
<1>3. (z + 1) * x = z * x + x /\ z * x \in Nat
  OBVIOUS
<1> QED
  BY <1>1, <1>2, <1>3

\* Numbers less than K apart have different remainders.
LEMMA ModsDiffer ==
    ASSUME NEW K \in Nat \ {0}, NEW a \in Int, NEW b \in Int, a < b, b - a < K
    PROVE  a % K # b % K
<1>1. PICK q \in Int : a = K * q + (a % K)
  <2>1. a \div K \in Int /\ a = K * (a \div K) + (a % K)
    OBVIOUS
  <2> QED
    BY <2>1
<1>2. PICK s \in Int : b = K * s + (b % K)
  <2>1. b \div K \in Int /\ b = K * (b \div K) + (b % K)
    OBVIOUS
  <2> QED
    BY <2>1
<1> SUFFICES ASSUME a % K = b % K PROVE FALSE
  OBVIOUS
<1>3. PICK d \in Int : d = s - q
  OBVIOUS
<1>4. K * d = K * s - K * q
  BY <1>3
<1>5. K * d = b - a
  BY <1>1, <1>2, <1>4
<1>6. CASE d <= 0
  <2>1. K * d <= 0
    BY <1>6
  <2> QED
    BY <1>5, <2>1
<1>7. CASE d >= 1
  <2>1. K * d >= K
    BY <1>7
  <2> QED
    BY <1>5, <2>1
<1> QED
  BY <1>6, <1>7

-----------------------------------------------------------------------------
(* Sequences one after the other, and the records of a type in a sequence.  *)

\* Where each sequence begins when they are put one after the other.
Starts(start, ss) ==
    /\ start \in [0..Len(ss) -> Nat] /\ start[0] = 0
    /\ \A i \in 1..Len(ss) : start[i] = start[i - 1] + Len(ss[i])

\* The lengths added up, as _file_ counts them.
LEMMA StartsAre ==
    ASSUME NEW S, NEW ss \in Seq(Seq(S))
    PROVE  Starts([i \in 0..Len(ss) |-> SumFunction([k \in 1..i |-> Len(ss[k])])], ss)
<1>1. PICK N \in Nat : N = Len(ss) /\ \A i \in 1..N : ss[i] \in Seq(S)
  OBVIOUS
<1>2. PICK l \in [1..N -> Nat] : l = [k \in 1..N |-> Len(ss[k])]
  <2>1. \A k \in 1..N : Len(ss[k]) \in Nat
    BY <1>1
  <2> QED
    BY <2>1
<1>3. PICK part : part = [i \in 0..N |-> [k \in 1..i |-> Len(ss[k])]]
  OBVIOUS
<1>4. ASSUME NEW i \in 0..N
      PROVE  part[i] = [k \in 1..i |-> l[k]] /\ part[i] \in [1..i -> Int] /\ IsFiniteSet(1..i)
  <2>1. 1..i \subseteq 1..N
    OBVIOUS
  <2>2. part[i] = [k \in 1..i |-> l[k]]
    BY <1>2, <1>3, <2>1
  <2>3. part[i] \in [1..i -> Int]
    BY <2>1, <2>2
  <2>4. IsFiniteSet(1..i)
    BY FS_Interval
  <2> QED
    BY <2>2, <2>3, <2>4
<1>5. PICK start : start = [i \in 0..N |-> SumFunction(part[i])]
  OBVIOUS
<1>6. start[0] = 0
  <2>1. PICK f : f = part[0]
    OBVIOUS
  <2>2. 0 \in 0..N /\ 1..0 = {}
    OBVIOUS
  <2>3. f \in [1..0 -> Int] /\ IsFiniteSet(1..0) /\ 1..0 = {}
    BY <1>4, <2>1, <2>2
  <2>4. PICK g : IsSum(f, 1..0, g)
    BY <2>3, SumExists
  <2>5. SumFunction(f) = g[1..0]
    BY <2>3, <2>4, SumIs
  <2>6. g[1..0] = 0
    BY <2>3, <2>4 DEF IsSum
  <2> QED
    BY <1>5, <2>1, <2>5, <2>6
<1>7. ASSUME NEW i \in 1..N PROVE start[i] = start[i - 1] + Len(ss[i])
  <2>1. i - 1 \in 0..N /\ i \in 0..N
    OBVIOUS
  <2>2. PICK f : f = part[i]
    OBVIOUS
  <2>3. PICK D : D = 1..(i - 1)
    OBVIOUS
  <2>4. D \cup {i} = 1..i /\ i \notin D
    BY <2>3
  <2>5. IsFiniteSet(D) /\ f \in [D \cup {i} -> Int]
    BY <1>4, <2>1, <2>2, <2>3, <2>4
  <2>6. SumFunction(f) = SumFunction([k \in D |-> f[k]]) + f[i]
    BY <2>4, <2>5, SumInsert
  <2>7. f = [k \in 1..i |-> l[k]] /\ part[i - 1] = [k \in D |-> l[k]]
    <3>1. f = [k \in 1..i |-> l[k]]
      BY <1>4, <2>1, <2>2
    <3>2. part[i - 1] = [k \in D |-> l[k]]
      BY <1>4, <2>1, <2>3
    <3> QED
      BY <3>1, <3>2
  <2>8. D \subseteq 1..i /\ i \in 1..i
    BY <2>3
  <2>9. [k \in D |-> f[k]] = part[i - 1]
    <3>1. \A k \in D : f[k] = l[k]
      BY <2>7, <2>8
    <3> QED
      BY <2>7, <3>1
  <2>10. f[i] = Len(ss[i])
    BY <1>2, <2>7, <2>8
  <2> QED
    BY <1>5, <2>1, <2>2, <2>6, <2>9, <2>10
<1>8. start \in [0..N -> Nat]
  <2>1. PICK G : G = {i \in 0..N : start[i] \in Nat}
    OBVIOUS
  <2>2. ASSUME NEW i \in 0..N, i \in G, i + 1 \in 0..N PROVE i + 1 \in G
    <3>1. i + 1 \in 1..N /\ (i + 1) - 1 = i
      BY <2>2
    <3>2. start[i + 1] = start[i] + Len(ss[i + 1]) /\ Len(ss[i + 1]) \in Nat
      BY <1>1, <1>7, <3>1
    <3> QED
      BY <2>1, <2>2, <3>2
  <2>3. 0 \in G
    BY <1>6, <2>1
  <2>4. \A i \in 0..N : i \in G
    BY <2>2, <2>3, Upwards
  <2> QED
    BY <1>5, <2>1, <2>4
<1>9. start = [i \in 0..N |-> SumFunction([k \in 1..i |-> Len(ss[k])])]
  BY <1>3, <1>5
<1> QED
  BY <1>1, <1>6, <1>7, <1>8, <1>9 DEF Starts

\* Later sequences begin later.
LEMMA StartsGrow ==
    ASSUME NEW S, NEW ss \in Seq(S), NEW start, Starts(start, ss), \A i \in 1..Len(ss) : Len(ss[i]) \in Nat,
           NEW i \in 0..Len(ss), NEW k \in i..Len(ss)
    PROVE  start[i] <= start[k]
<1>1. PICK N \in Nat : N = Len(ss)
  OBVIOUS
<1>2. PICK G : G = {m \in 0..N : i <= m => start[i] <= start[m]}
  OBVIOUS
<1>3. 0 \in G
  BY <1>1, <1>2 DEF Starts
<1>4. ASSUME NEW m \in 0..N, m \in G, m + 1 \in 0..N PROVE m + 1 \in G
  <2>1. m + 1 \in 1..N /\ (m + 1) - 1 = m
    BY <1>4
  <2>2. start[m + 1] = start[m] + Len(ss[m + 1]) /\ Len(ss[m + 1]) \in Nat /\ start[m] \in Nat
    BY <1>1, <2>1 DEF Starts
  <2>3. start[i] \in Nat /\ start[m + 1] \in Nat
    BY <1>1, <1>4 DEF Starts
  <2> QED
    BY <1>1, <1>2, <1>4, <2>2, <2>3
<1>5. \A m \in 0..N : m \in G
  BY <1>3, <1>4, Upwards
<1> QED
  BY <1>1, <1>2, <1>5

\* Every place is in one of the sequences.
LEMMA Located ==
    ASSUME NEW N \in Nat, NEW start \in [0..N -> Nat], start[0] = 0, NEW p \in 1..start[N]
    PROVE  \E i \in 1..N : start[i - 1] < p /\ p <= start[i]
<1>1. PICK A : A = {i \in 0..N : p <= start[i]}
  OBVIOUS
<1>2. N \in A /\ A \in SUBSET Nat
  BY <1>1
<1>3. PICK i \in A : \A k \in A : i <= k
  BY <1>2, LeastNumber
<1>4. i \in 0..N /\ p <= start[i] /\ i # 0
  BY <1>1, <1>3
<1>5. i \in 1..N /\ i - 1 \in 0..N /\ i - 1 \notin A
  BY <1>3, <1>4
<1>6. start[i - 1] \in Nat /\ p \in Nat
  BY <1>5
<1> QED
  BY <1>1, <1>4, <1>5, <1>6

\* What is behind is found behind.
LEMMA Behind ==
    ASSUME NEW S, NEW z \in Seq(S), NEW y \in Seq(S), NEW j \in 1..Len(y)
    PROVE  (z \o y)[Len(z) + j] = y[j]
<1>1. PICK a, b \in Nat : a = Len(z) /\ b = Len(y)
  OBVIOUS
<1>2. j \in Nat /\ a + j \in 1..(a + b) /\ ~(a + j <= a) /\ (a + j) - a = j
  BY <1>1
<1> QED
  BY <1>1, <1>2

\* Sequences one after the other are one sequence, each from its start.
LEMMA FlattenIs ==
    ASSUME NEW S, NEW ss \in Seq(Seq(S)), NEW start, Starts(start, ss)
    PROVE  /\ FlattenSeq(ss) \in Seq(S) /\ Len(FlattenSeq(ss)) = start[Len(ss)]
           /\ \A i \in 1..Len(ss) : \A j \in 1..Len(ss[i]) : FlattenSeq(ss)[start[i - 1] + j] = ss[i][j]
<1>1. PICK N \in Nat : N = Len(ss) /\ \A i \in 1..N : ss[i] \in Seq(S)
  OBVIOUS
<1> DEFINE Flat(e) == e = [i \in 1..N |-> IF i = 1 THEN ss[i] ELSE e[i - 1] \o ss[i]]
<1>2. \A i \in 1..N : /\ start[i] = start[i - 1] + Len(ss[i])
                      /\ start[i - 1] \in Nat /\ start[i] \in Nat /\ Len(ss[i]) \in Nat
  <2>1. ASSUME NEW i \in 1..N PROVE i - 1 \in 0..Len(ss) /\ i \in 0..Len(ss) /\ Len(ss[i]) \in Nat
    BY <1>1
  <2> QED
    BY <1>1, <2>1 DEF Starts
<1>3. CASE N = 0
  <2>1. ss \in Seq(S)
    <3>1. ss \in [1..N -> Seq(S)]
      BY <1>1
    <3>2. ss \in [1..N -> S]
      BY <1>3, <3>1
    <3> QED
      BY <3>2
  <2>2. FlattenSeq(ss) = ss
    BY <1>1, <1>3, Zenon DEF FlattenSeq
  <2>3. Len(ss) = 0 /\ start[Len(ss)] = 0
    BY <1>1, <1>3 DEF Starts
  <2> QED
    BY <2>1, <2>2, <2>3
<1>4. CASE N # 0
  <2>1. PICK g \in [1..N -> [Seq(S) -> Seq(S)]] : g = [n \in 1..N |-> [s \in Seq(S) |-> s \o ss[n]]]
    <3>1. ASSUME NEW n \in 1..N PROVE [s \in Seq(S) |-> s \o ss[n]] \in [Seq(S) -> Seq(S)]
      <4>1. \A s \in Seq(S) : s \o ss[n] \in Seq(S)
        BY <1>1
      <4> QED
        BY <4>1
    <3> QED
      BY <3>1
  <2>2. PICK f \in [0..N -> Seq(S)] : Iterates(f, N, <<>>, g)
    <3>1. <<>> \in Seq(S)
      OBVIOUS
    <3> QED
      BY <3>1, Iteration
  <2>3. f[0] = <<>> /\ \A n \in 1..N : f[n] = f[n - 1] \o ss[n]
    <3>1. f[0] = <<>>
      BY <1>1, <2>2 DEF Iterates
    <3>2. ASSUME NEW n \in 1..N PROVE f[n] = f[n - 1] \o ss[n]
      <4>1. n \in 0..N /\ n # 0 /\ n - 1 \in 0..N
        OBVIOUS
      <4>2. f[n - 1] \in Seq(S)
        BY <4>1
      <4>3. f[n] = g[n][f[n - 1]]
        BY <2>2, <4>1 DEF Iterates
      <4> QED
        BY <2>1, <4>3, <4>2
    <3> QED
      BY <3>1, <3>2
  <2>4. PICK h : h = [i \in 1..N |-> f[i]]
    OBVIOUS
  <2>5. Flat(h)
    <3>1. ASSUME NEW i \in 1..N PROVE h[i] = IF i = 1 THEN ss[i] ELSE h[i - 1] \o ss[i]
      <4>1. CASE i = 1
        <5>1. f[i] = f[i - 1] \o ss[i]
          BY <2>3
        <5>2. ss[i] \in Seq(S) /\ f[i - 1] = <<>>
          BY <1>1, <2>3, <4>1
        <5>3. f[i] = ss[i]
          BY <5>1, <5>2
        <5> QED
          BY <2>4, <4>1, <5>3
      <4>2. CASE i # 1
        <5>1. i - 1 \in 1..N
          BY <1>1, <4>2
        <5> QED
          BY <2>3, <2>4, <4>2, <5>1
      <4> QED
        BY <4>1, <4>2
    <3>2. h = [i \in 1..N |-> h[i]]
      BY <2>4
    <3> QED
      BY <3>1, <3>2
  <2>6. PICK k : Flat(k) /\ FlattenSeq(ss) = k[N]
    <3>1. FlattenSeq(ss) = (CHOOSE e : Flat(e))[N]
      BY <1>1, <1>4 DEF FlattenSeq
    <3> HIDE DEF Flat
    <3>2. Flat(CHOOSE e : Flat(e))
      BY <2>5
    <3> QED
      BY <3>1, <3>2
  <2>7. PICK G : G = {i \in 0..N : i = 0 \/ (/\ k[i] \in Seq(S) /\ Len(k[i]) = start[i]
                                            /\ \A m \in 1..i : \A j \in 1..Len(ss[m]) :
                                                  k[i][start[m - 1] + j] = ss[m][j])}
    OBVIOUS
  <2>8. ASSUME NEW i \in 0..N, i \in G, i + 1 \in 0..N PROVE i + 1 \in G
    <3>1. i + 1 \in 1..N /\ (i + 1) - 1 = i
      BY <1>1, <2>8
    <3>2. PICK x : x = k[i + 1]
      OBVIOUS
    <3>3. PICK y \in Seq(S) : y = ss[i + 1]
      BY <1>1, <3>1
    <3>4. x = k[i + 1] /\ y = ss[i + 1]
      BY <3>2, <3>3
    <3>5. start[i + 1] = start[i] + Len(y) /\ start[i] \in Nat /\ Len(y) \in Nat
      <4>1. PICK m \in 1..N : m = i + 1 /\ m - 1 = i
        BY <3>1
      <4>2. start[m] = start[m - 1] + Len(ss[m]) /\ start[m - 1] \in Nat /\ Len(ss[m]) \in Nat
        BY <1>2
      <4> QED
        BY <3>3, <4>1, <4>2
    <3>6. CASE i = 0
      <4>1. x = y
        BY <2>6, <3>1, <3>4, <3>6
      <4>2. start[i] = 0
        BY <3>6 DEF Starts
      <4>3. ASSUME NEW m \in 1..(i + 1), NEW j \in 1..Len(ss[m]) PROVE x[start[m - 1] + j] = ss[m][j]
        <5>1. m = i + 1 /\ m - 1 = i /\ j \in Nat
          BY <3>6
        <5> QED
          BY <3>4, <4>1, <4>2, <5>1
      <4>4. x \in Seq(S) /\ Len(x) = start[i + 1]
        BY <3>5, <4>1, <4>2
      <4> QED
        BY <2>7, <2>8, <3>4, <4>3, <4>4
    <3>7. CASE i # 0
      <4>1. PICK z \in Seq(S) : z = k[i] /\ Len(z) = start[i]
        BY <2>7, <2>8, <3>7
      <4>2. x = z \o y
        <5>1. k[i + 1] = IF i + 1 = 1 THEN ss[i + 1] ELSE k[i] \o ss[i + 1]
          BY <2>6, <3>1
        <5>2. i + 1 # 1
          BY <1>1, <3>7
        <5>3. k[i + 1] = k[i] \o ss[i + 1]
          BY <5>1, <5>2
        <5> QED
          BY <3>4, <4>1, <5>3
      <4>3. x \in Seq(S) /\ Len(x) = start[i + 1]
        BY <3>5, <4>1, <4>2
      <4>4. ASSUME NEW m \in 1..(i + 1), NEW j \in 1..Len(ss[m]) PROVE x[start[m - 1] + j] = ss[m][j]
        <5>1. CASE m = i + 1
          <6>1. j \in 1..Len(y) /\ start[m - 1] = Len(z)
            BY <3>4, <4>1, <5>1
          <6>2. x[Len(z) + j] = y[j]
            <7>1. z \in Seq(S) /\ y \in Seq(S) /\ j \in 1..Len(y)
              BY <6>1
            <7>2. (z \o y)[Len(z) + j] = y[j]
              BY ONLY <7>1, Behind
            <7> QED
              BY <4>2, <7>2
          <6> QED
            BY <3>4, <5>1, <6>1, <6>2
        <5>2. CASE m # i + 1
          <6>1. m \in 1..i /\ m \in 1..N /\ m \in 0..N /\ i \in m..N /\ m - 1 \in 0..N
            BY <1>1, <5>2
          <6>2. z[start[m - 1] + j] = ss[m][j]
            BY <2>7, <2>8, <3>7, <4>1, <6>1
          <6>3. start[m] <= start[i]
            <7>1. \A q \in 1..Len(ss) : Len(ss[q]) \in Nat
              BY <1>1
            <7>2. m \in 0..Len(ss) /\ i \in m..Len(ss)
              BY <1>1, <6>1
            <7> QED
              BY <7>1, <7>2, StartsGrow
          <6>4. start[m] = start[m - 1] + Len(ss[m]) /\ start[m - 1] \in Nat /\ Len(ss[m]) \in Nat
            BY <1>2, <6>1
          <6>5. start[m - 1] + j \in 1..Len(z)
            <7>1. j \in Nat /\ j > 0 /\ j <= Len(ss[m])
              BY <6>4
            <7>2. PICK a, b, c, d \in Nat : /\ a = start[m - 1] /\ b = Len(ss[m])
                                           /\ c = start[m] /\ d = start[i]
              BY <1>2, <3>5, <6>1
            <7>3. c = a + b /\ c <= d /\ Len(z) = d /\ j <= b
              BY <4>1, <6>3, <6>4, <7>1, <7>2
            <7>4. a + j \in 1..d
              BY <7>1, <7>3
            <7> QED
              BY <7>2, <7>3, <7>4
          <6> QED
            BY <4>2, <6>2, <6>5
        <5> QED
          BY <5>1, <5>2
      <4> QED
        BY <2>7, <2>8, <3>4, <4>3, <4>4
    <3> QED
      BY <3>6, <3>7
  <2>9. \A i \in 0..N : i \in G
    <3>1. 0 \in G
      BY <2>7
    <3> QED
      BY <2>8, <3>1, Upwards
  <2>10. N \in 0..N /\ N \in G /\ N # 0
    BY <1>4, <2>9
  <2> QED
    BY <1>1, <2>6, <2>7, <2>10
<1> QED
  BY <1>3, <1>4

\* One more at the end.
LEMMA Appended ==
    ASSUME NEW D, NEW ds \in Seq(D), NEW d \in D
    PROVE  /\ Len(Append(ds, d)) = Len(ds) + 1 /\ Append(ds, d)[Len(ds) + 1] = d
           /\ \A j \in 1..Len(ds) : Append(ds, d)[j] = ds[j]
<1>1. \A j \in 1..Len(ds) : Append(ds, d)[j] = ds[j]
  OBVIOUS
<1>2. Len(Append(ds, d)) = Len(ds) + 1
  OBVIOUS
<1>3. Append(ds, d)[Len(ds) + 1] = d
  OBVIOUS
<1> QED
  BY <1>1, <1>2, <1>3

\* The m records of a type stand at the places pos, and nowhere else.
Stand(records, type, m, pos) ==
    /\ pos \in [1..m -> 1..Len(records)] /\ \A j, k \in 1..m : j < k => pos[j] < pos[k]
    /\ \A i \in 1..Len(records) : records[i].type = type <=> \E k \in 1..m : pos[k] = i

\* The records of one type are those at its places, in their order.
LEMMA SelectIs ==
    ASSUME NEW B, NEW records \in Seq(B), NEW type, NEW m \in Nat, NEW pos, Stand(records, type, m, pos)
    PROVE  OfType(records, type) = [k \in 1..m |-> records[pos[k]]]
<1>1. PICK N \in Nat : N = Len(records) /\ \A i \in 1..N : records[i] \in B
  OBVIOUS
<1>2. /\ pos \in [1..m -> 1..N] /\ \A j, k \in 1..m : j < k => pos[j] < pos[k]
      /\ \A i \in 1..N : records[i].type = type <=> \E k \in 1..m : pos[k] = i
  BY <1>1 DEF Stand
<1> DEFINE Taken(e) == e = [n \in 0..N |-> IF n = 0 THEN <<>>
                                           ELSE IF records[n].type = type THEN Append(e[n - 1], records[n])
                                           ELSE e[n - 1]]
<1>3. PICK g \in [1..N -> [Seq(B) -> Seq(B)]] :
         g = [n \in 1..N |-> [s \in Seq(B) |-> IF records[n].type = type THEN Append(s, records[n]) ELSE s]]
  <2>1. ASSUME NEW n \in 1..N
        PROVE  [s \in Seq(B) |-> IF records[n].type = type THEN Append(s, records[n]) ELSE s] \in [Seq(B) -> Seq(B)]
    <3>1. \A s \in Seq(B) : Append(s, records[n]) \in Seq(B)
      BY <1>1, <1>2
    <3> QED
      BY <3>1
  <2> QED
    BY <2>1
<1>4. PICK f \in [0..N -> Seq(B)] : Iterates(f, N, <<>>, g)
  <2>1. <<>> \in Seq(B)
    OBVIOUS
  <2> QED
    BY <2>1, Iteration
<1>5. Taken(f)
  <2>1. ASSUME NEW n \in 0..N
        PROVE  f[n] = IF n = 0 THEN <<>> ELSE IF records[n].type = type THEN Append(f[n - 1], records[n]) ELSE f[n - 1]
    <3>1. f[n] = IF n = 0 THEN <<>> ELSE g[n][f[n - 1]]
      BY <1>4 DEF Iterates
    <3>2. CASE n = 0
      BY <3>1, <3>2
    <3>3. CASE n # 0
      <4>1. n \in 1..N /\ n - 1 \in 0..N
        BY <3>3
      <4>2. PICK s \in Seq(B) : s = f[n - 1]
        BY <4>1
      <4>3. g[n][s] = IF records[n].type = type THEN Append(s, records[n]) ELSE s
        BY <1>3, <4>1
      <4> QED
        BY <3>1, <3>3, <4>2, <4>3
    <3> QED
      BY <3>2, <3>3
  <2>2. f = [n \in 0..N |-> f[n]]
    OBVIOUS
  <2> QED
    BY <2>1, <2>2
<1>6. PICK e : Taken(e) /\ OfType(records, type) = e[N]
  <2>1. OfType(records, type) = (CHOOSE e : Taken(e))[N]
    BY <1>1, <1>2 DEF OfType
  <2> HIDE DEF Taken
  <2>2. Taken(CHOOSE e : Taken(e))
    BY <1>5
  <2> QED
    BY <2>1, <2>2
<1>7. /\ e[0] = <<>>
      /\ \A n \in 1..N : e[n] = IF records[n].type = type THEN Append(e[n - 1], records[n]) ELSE e[n - 1]
  <2>1. \A n \in 0..N : e[n] = IF n = 0 THEN <<>>
                               ELSE IF records[n].type = type THEN Append(e[n - 1], records[n]) ELSE e[n - 1]
    BY <1>6
  <2>2. \A n \in 1..N : n \in 0..N /\ n # 0
    OBVIOUS
  <2>3. 0 \in 0..N
    OBVIOUS
  <2> HIDE DEF Taken
  <2> QED
    BY <2>1, <2>2, <2>3
<1> HIDE DEF Taken
\* The first n records have the first c places.
<1> DEFINE Upto(n, c) == /\ \A k \in 1..m : pos[k] <= n <=> k <= c
                         /\ e[n] = [k \in 1..c |-> records[pos[k]]]
<1>8. PICK G : G = {n \in 0..N : \E c \in 0..m : Upto(n, c)}
  OBVIOUS
<1>9. 0 \in G
  <2>1. \A k \in 1..m : pos[k] \in 1..N
    BY <1>1, <1>2
  <2>2. \A k \in 1..m : pos[k] <= 0 <=> k <= 0
    BY <2>1
  <2>3. e[0] = [k \in 1..0 |-> records[pos[k]]]
    BY <1>7
  <2>4. 0 \in 0..m /\ 0 \in 0..N
    OBVIOUS
  <2> QED
    BY <1>8, <2>2, <2>3, <2>4
<1>10. ASSUME NEW n \in 0..N, n \in G, n + 1 \in 0..N PROVE n + 1 \in G
  <2>1. PICK c \in 0..m : Upto(n, c)
    BY <1>8, <1>10
  <2>2. n + 1 \in 1..N /\ (n + 1) - 1 = n
    BY <1>10
  <2>3. e[n + 1] = IF records[n + 1].type = type THEN Append(e[n], records[n + 1]) ELSE e[n]
    BY <1>7, <2>2
  <2>4. \A k \in 1..m : pos[k] \in Nat
    BY <1>1, <1>2
  <2>5. CASE records[n + 1].type = type
    <3>1. PICK k \in 1..m : pos[k] = n + 1
      BY <1>1, <1>2, <2>2, <2>5
    <3>2. ~(k <= c)
      BY <2>1, <2>2, <3>1
    <3>3. k = c + 1
      <4>1. CASE k > c + 1
        <5>1. c + 1 \in 1..m /\ c + 1 < k
          BY <4>1
        <5>2. pos[c + 1] < n + 1
          BY <1>2, <3>1, <5>1
        <5>3. pos[c + 1] <= n
          BY <2>4, <5>1, <5>2
        <5> QED
          BY <2>1, <5>1, <5>3
      <4> QED
        BY <3>2, <4>1
    <3>4. \A j \in 1..m : pos[j] <= n + 1 <=> j <= c + 1
      <4> SUFFICES ASSUME NEW j \in 1..m PROVE pos[j] <= n + 1 <=> j <= c + 1
        OBVIOUS
      <4>1. CASE j <= c
        <5>1. pos[j] <= n
          BY <2>1, <4>1
        <5> QED
          BY <2>4, <4>1, <5>1
      <4>2. CASE j = c + 1
        BY <3>1, <3>3, <4>2
      <4>3. CASE j > c + 1
        <5>1. pos[j] > n + 1
          <6>1. pos[k] < pos[j]
            BY <1>2, <3>3, <4>3
          <6> QED
            BY <2>4, <3>1, <6>1
        <5> QED
          BY <2>4, <4>3, <5>1
      <4> QED
        BY <4>1, <4>2, <4>3
    <3>5. PICK s : s = [j \in 1..c |-> records[pos[j]]]
      OBVIOUS
    <3>6. s \in Seq(B) /\ Len(s) = c
      <4>1. s \in [1..c -> B]
        <5>1. \A j \in 1..c : j \in 1..m
          OBVIOUS
        <5>2. \A j \in 1..c : records[pos[j]] \in B
          BY <1>1, <1>2, <5>1
        <5> QED
          BY <3>5, <5>2
      <4> QED
        BY <4>1
    <3>7. PICK r \in B : r = records[n + 1]
      BY <1>1, <1>2, <2>2
    <3>8. Append(s, r) = [j \in 1..(c + 1) |-> records[pos[j]]]
      <4>1. Append(s, r) \in Seq(B)
        BY <3>6, <3>7
      <4>2. PICK t \in Seq(B) : t = Append(s, r)
        BY <4>1
      <4>3. Len(t) = c + 1 /\ t[c + 1] = r /\ \A j \in 1..c : t[j] = s[j]
        <5>1. /\ Len(Append(s, r)) = Len(s) + 1 /\ Append(s, r)[Len(s) + 1] = r
              /\ \A j \in 1..Len(s) : Append(s, r)[j] = s[j]
          BY <3>6, <3>7, Appended
        <5> QED
          BY <3>6, <4>2, <5>1
      <4>4. \A j \in 1..(c + 1) : t[j] = records[pos[j]]
        BY <3>1, <3>3, <3>5, <3>7, <4>3
      <4>5. t \in [1..(c + 1) -> B]
        BY <4>3
      <4>6. t = [j \in 1..(c + 1) |-> t[j]]
        BY <4>5
      <4> QED
        BY <4>2, <4>4, <4>6
    <3>9. e[n + 1] = [j \in 1..(c + 1) |-> records[pos[j]]]
      BY <2>1, <2>3, <2>5, <3>5, <3>7, <3>8
    <3>10. c + 1 \in 0..m
      BY <3>3
    <3>11. Upto(n + 1, c + 1)
      BY <3>4, <3>9
    <3> HIDE DEF Upto
    <3> QED
      BY <1>8, <1>10, <3>10, <3>11
  <2>6. CASE records[n + 1].type # type
    <3>1. \A k \in 1..m : pos[k] # n + 1
      BY <1>1, <1>2, <2>2, <2>6
    <3>2. \A k \in 1..m : pos[k] <= n + 1 <=> pos[k] <= n
      BY <2>4, <3>1
    <3>3. Upto(n + 1, c)
      BY <2>1, <2>3, <2>6, <3>2
    <3> HIDE DEF Upto
    <3> QED
      BY <1>8, <1>10, <3>3
  <2> QED
    BY <2>5, <2>6
<1>11. \A n \in 0..N : n \in G
  BY <1>9, <1>10, Upwards
<1>12. PICK c \in 0..m : Upto(N, c)
  <2>1. N \in 0..N
    OBVIOUS
  <2> HIDE DEF Upto
  <2> QED
    BY <1>8, <1>11, <2>1
<1>13. c = m
  <2>1. CASE c < m
    <3>1. c + 1 \in 1..m /\ ~(c + 1 <= c)
      BY <2>1
    <3>2. pos[c + 1] <= N
      BY <1>1, <1>2, <3>1
    <3> QED
      BY <1>12, <3>1, <3>2
  <2> QED
    BY <2>1
<1> QED
  BY <1>6, <1>12, <1>13

-----------------------------------------------------------------------------
(* The lines of a file, where they stand, and the blocks they fill.         *)

\* A sequence between two elements.
LEMMA Framed ==
    ASSUME NEW D, NEW ds \in Seq(D), NEW a \in D, NEW z \in D, NEW s, s = <<a>> \o ds \o <<z>>
    PROVE  /\ s \in Seq(D) /\ Len(s) = Len(ds) + 2 /\ s[1] = a /\ s[Len(ds) + 2] = z
           /\ \A j \in 1..Len(ds) : s[j + 1] = ds[j]
<1>1. <<a>> \in Seq(D) /\ Len(<<a>>) = 1 /\ <<a>>[1] = a /\ <<z>> \in Seq(D) /\ Len(<<z>>) = 1 /\ <<z>>[1] = z
  OBVIOUS
<1>2. <<a>> \o ds \in Seq(D)
  BY <1>1
<1>3. PICK front \in Seq(D) : front = <<a>> \o ds
  BY <1>2
<1>4. Len(front) = Len(ds) + 1 /\ front[1] = a /\ \A j \in 1..Len(ds) : front[j + 1] = ds[j]
  BY <1>3
<1>5. s = front \o <<z>> /\ s \in Seq(D) /\ Len(s) = Len(front) + 1
  BY <1>3
<1>6. s[Len(front) + 1] = z /\ \A k \in 1..Len(front) : s[k] = front[k]
  BY <1>5
<1>7. \A j \in 1..Len(ds) : j + 1 \in 1..Len(front)
  BY <1>4
<1>8. 1 \in 1..Len(front) /\ Len(front) + 1 = Len(ds) + 2 /\ Len(ds) \in Nat
  BY <1>4
<1> QED
  BY <1>4, <1>5, <1>6, <1>7, <1>8

\* A sequence after one element.
LEMMA Headed ==
    ASSUME NEW D, NEW ds \in Seq(D), NEW a \in D, NEW s, s = <<a>> \o ds
    PROVE  /\ s \in Seq(D) /\ Len(s) = Len(ds) + 1 /\ s[1] = a
           /\ \A j \in 1..Len(ds) : s[j + 1] = ds[j]
<1>1. <<a>> \in Seq(D) /\ Len(<<a>>) = 1
  OBVIOUS
<1>2. s \in Seq(D) /\ Len(s) = Len(ds) + 1 /\ s[1] = a
  BY <1>1
<1>3. ASSUME NEW j \in 1..Len(ds) PROVE s[j + 1] = ds[j]
  <2>1. j + 1 > 1 /\ j + 1 \in 1..(1 + Len(ds)) /\ (j + 1) - 1 = j
    OBVIOUS
  <2> QED
    BY <1>1, <2>1
<1> QED
  BY <1>2, <1>3

\* What is written after the file header and before the file control, and where: batch i is
\* its header, its payments and its control, after i - 1 others of two records more than payments.
Placed(file, body, start) ==
    LET bs == file.batches
    IN  \A i \in 1..Len(bs) :
          /\ body[start[i - 1] + 2 * i - 1] = BatchHeader(file.header, i)
          /\ body[start[i] + 2 * i] = BatchControl(bs[i], i)
          /\ \A j \in 1..Len(bs[i]) :
                body[start[i - 1] + 2 * i - 1 + j] = EntryDetail(bs[i][j], Traces(file, i)[j])

\* A header and a control go with the payments of each batch.
TwoMore(ss, bs) == Len(ss) = Len(bs) /\ \A i \in 1..Len(bs) : Len(ss[i]) = Len(bs[i]) + 2

\* The records of the batches, two more than payments in each.
LEMMA Placing ==
    ASSUME NEW D, NEW bs \in Seq(Seq(D)), NEW B, NEW ss \in Seq(Seq(B)), TwoMore(ss, bs),
           NEW start, Starts(start, bs)
    PROVE  /\ FlattenSeq(ss) \in Seq(B) /\ Len(FlattenSeq(ss)) = start[Len(bs)] + 2 * Len(bs)
           /\ \A i \in 1..Len(bs) :
                /\ start[i - 1] \in Nat /\ start[i] = start[i - 1] + Len(bs[i])
                /\ \A j \in 1..(Len(bs[i]) + 2) : FlattenSeq(ss)[start[i - 1] + 2 * i - 2 + j] = ss[i][j]
<1>1. PICK N \in Nat : N = Len(bs) /\ N = Len(ss)
  BY DEF TwoMore
<1>2. \A i \in 1..N : Len(ss[i]) = Len(bs[i]) + 2 /\ bs[i] \in Seq(D)
  BY <1>1 DEF TwoMore
<1>3. /\ start \in [0..N -> Nat] /\ start[0] = 0
      /\ \A i \in 1..N : start[i] = start[i - 1] + Len(bs[i])
  BY <1>1 DEF Starts
<1>4. ASSUME NEW i \in 1..N
      PROVE  \E m, c \in Nat : /\ m = Len(bs[i]) /\ c = start[i - 1] /\ start[i] = c + m
                               /\ Len(ss[i]) = m + 2
  <2>1. PICK m \in Nat : m = Len(bs[i]) /\ Len(ss[i]) = m + 2
    BY <1>2
  <2>2. i - 1 \in 0..N
    OBVIOUS
  <2>3. PICK c \in Nat : c = start[i - 1]
    BY <1>3, <2>2
  <2> QED
    BY <1>3, <2>1, <2>3
<1>5. PICK st : st = [i \in 0..N |-> start[i] + 2 * i]
  OBVIOUS
<1>6. st \in [0..N -> Nat] /\ st[0] = 0 /\ st[N] = start[N] + 2 * N
  <2>1. \A i \in 0..N : start[i] \in Nat /\ i \in Nat
    BY <1>3
  <2>2. \A i \in 0..N : start[i] + 2 * i \in Nat
    BY <2>1
  <2>3. 0 \in 0..N /\ N \in 0..N
    OBVIOUS
  <2>4. st[0] = start[0] + 2 * 0
    BY <1>5, <2>3
  <2>5. st[N] = start[N] + 2 * N
    BY <1>5, <2>3
  <2>6. st \in [0..N -> Nat]
    BY <1>5, <2>2
  <2>7. st[0] = 0
    BY <1>3, <2>4
  <2> QED
    BY <2>5, <2>6, <2>7
<1>7. ASSUME NEW i \in 1..N PROVE st[i] = st[i - 1] + Len(ss[i])
  <2>1. PICK m, c \in Nat : /\ m = Len(bs[i]) /\ c = start[i - 1] /\ start[i] = c + m
                            /\ Len(ss[i]) = m + 2
    BY <1>4
  <2>2. i - 1 \in 0..N /\ i \in 0..N
    OBVIOUS
  <2>3. st[i] = start[i] + 2 * i /\ st[i - 1] = start[i - 1] + 2 * (i - 1)
    BY <1>5, <2>2
  <2>4. c + m + 2 * i = c + 2 * (i - 1) + (m + 2)
    OBVIOUS
  <2> QED
    BY <2>1, <2>3, <2>4
<1>8. Starts(st, ss)
  BY <1>6, <1>7, <1>1 DEF Starts
<1>9. PICK flat \in Seq(B) : /\ flat = FlattenSeq(ss) /\ Len(flat) = st[N]
                             /\ \A i \in 1..N : \A j \in 1..Len(ss[i]) : flat[st[i - 1] + j] = ss[i][j]
  <2>1. /\ FlattenSeq(ss) \in Seq(B) /\ Len(FlattenSeq(ss)) = st[N]
        /\ \A i \in 1..N : \A j \in 1..Len(ss[i]) : FlattenSeq(ss)[st[i - 1] + j] = ss[i][j]
    <3>1. /\ FlattenSeq(ss) \in Seq(B) /\ Len(FlattenSeq(ss)) = st[Len(ss)]
          /\ \A i \in 1..Len(ss) : \A j \in 1..Len(ss[i]) : FlattenSeq(ss)[st[i - 1] + j] = ss[i][j]
      BY <1>8, FlattenIs
    <3> QED
      BY <1>1, <3>1
  <2> QED
    BY <2>1
<1>10. ASSUME NEW i \in 1..N, NEW j \in 1..(Len(bs[i]) + 2)
       PROVE  flat[start[i - 1] + 2 * i - 2 + j] = ss[i][j]
  <2>1. PICK m, c \in Nat : /\ m = Len(bs[i]) /\ c = start[i - 1] /\ start[i] = c + m
                            /\ Len(ss[i]) = m + 2
    BY <1>4
  <2>2. i - 1 \in 0..N /\ i \in 0..N /\ j \in 1..(m + 2)
    BY <2>1
  <2>3. st[i - 1] = c + 2 * (i - 1) /\ st[i] = c + m + 2 * i
    BY <1>5, <2>1, <2>2
  <2>4. st[i] <= st[N]
    <3>1. \A k \in 1..Len(ss) : Len(ss[k]) \in Nat
      OBVIOUS
    <3>2. i \in 0..Len(ss) /\ N \in i..Len(ss)
      BY <1>1
    <3> QED
      BY <1>8, <3>1, <3>2, StartsGrow
  <2>5. PICK d \in Nat : d = Len(flat) /\ c + m + 2 * i <= d
    BY <1>6, <1>9, <2>3, <2>4
  <2>6. PICK k \in 1..d : k = c + 2 * (i - 1) + j /\ k = c + 2 * i - 2 + j
    <3>1. c + 2 * (i - 1) + j \in 1..d
      BY <2>2, <2>5
    <3> QED
      BY <2>2, <3>1
  <2>7. flat[k] = ss[i][j]
    <3>1. PICK q \in 1..(m + 2) : q = j /\ st[i - 1] + q = k
      BY <2>2, <2>3, <2>6
    <3>2. q \in 1..Len(ss[i])
      BY <2>1
    <3> QED
      BY <1>9, <3>1, <3>2
  <2> QED
    BY <2>1, <2>6, <2>7
<1>11. Len(flat) = start[N] + 2 * N
  BY <1>6, <1>9
<1>12. \A i \in 1..N : start[i - 1] \in Nat /\ start[i] = start[i - 1] + Len(bs[i])
  BY <1>4
<1> QED
  BY <1>9, <1>10, <1>11, <1>12, <1>1

\* What a record before the file control can be.
FullLines(B) == \A r \in B : r.length = RecordLen /\ r.type \in {"1", "5", "6", "8"}

\* Every record of a valid file is 94 characters long; headers, entries and controls of
\* batches come between the file header and the file control, each in its place.
LEMMA BodyIs ==
    ASSUME NEW file \in File, Valid(file), NEW start, Starts(start, file.batches)
    PROVE  \E B, body :
              /\ body \in Seq(B) /\ FullLines(B) /\ FileHeader(file.header) \in B
              /\ body = FlattenSeq([i \in DOMAIN file.batches |-> BatchRecords(file, i)])
              /\ Len(body) = start[Len(file.batches)] + 2 * Len(file.batches)
              /\ Placed(file, body, start)
<1>1. PICK h : h = file.header
  OBVIOUS
<1>2. PICK bs \in Seq(Seq(Entry)) : bs = file.batches
  BY DEF File
<1>3. /\ h.effective.length = 6 /\ h.created.length = 6 /\ h.time.length = 4 /\ h.modifier = 1
      /\ \A i \in DOMAIN bs : \A j \in DOMAIN bs[i] : EntryValid(bs[i][j])
  BY <1>1, <1>2 DEF Valid, HeaderValid, Digits
<1>4. PICK passed : passed = {e \in Entry : EntryValid(e)}
  OBVIOUS
<1>5. PICK T : T = UNION {{Traces(file, i)[j] : j \in DOMAIN bs[i]} : i \in DOMAIN bs}
  OBVIOUS
<1>6. PICK B : B = {FileHeader(h)} \cup {BatchHeader(h, i) : i \in Nat}
                   \cup {EntryDetail(p[1], p[2]) : p \in passed \X T}
                   \cup {BatchControl(p[1], p[2]) : p \in Seq(Entry) \X Nat}
  OBVIOUS
<1>7. ASSUME NEW r \in B PROVE r.length = RecordLen /\ r.type \in {"1", "5", "6", "8"}
  <2>1. CASE r = FileHeader(h)
    BY <1>3, <2>1 DEF FileHeader, RecordLen
  <2>2. CASE \E i \in Nat : r = BatchHeader(h, i)
    BY <1>3, <2>2 DEF BatchHeader, RecordLen
  <2>3. CASE \E p \in passed \X T : r = EntryDetail(p[1], p[2])
    <3>1. PICK e \in passed, t \in T : r = EntryDetail(e, t)
      BY <2>3
    <3>2. Len(e.routing) = 9
      BY <1>4, <3>1 DEF EntryValid, RoutingValid
    <3> QED
      BY <3>1, <3>2 DEF EntryDetail, Least, RecordLen
  <2>4. CASE \E p \in Seq(Entry) \X Nat : r = BatchControl(p[1], p[2])
    BY <2>4 DEF BatchControl, RecordLen
  <2> QED
    BY <1>6, <2>1, <2>2, <2>3, <2>4
<1>8. ASSUME NEW i \in DOMAIN bs
      PROVE  /\ BatchRecords(file, i) \in Seq(B) /\ Len(BatchRecords(file, i)) = Len(bs[i]) + 2
             /\ BatchRecords(file, i)[1] = BatchHeader(h, i)
             /\ BatchRecords(file, i)[Len(bs[i]) + 2] = BatchControl(bs[i], i)
             /\ \A j \in 1..Len(bs[i]) : BatchRecords(file, i)[j + 1] = EntryDetail(bs[i][j], Traces(file, i)[j])
  <2>1. PICK es \in Seq(Entry) : es = file.batches[i] /\ \A j \in DOMAIN es : es[j] \in passed
    BY <1>2, <1>3, <1>4
  <2>2. i \in Nat
    BY <1>2
  <2>3. PICK ts : ts = Traces(file, i)
    OBVIOUS
  <2>4. \A j \in DOMAIN es : ts[j] \in T
    BY <1>2, <1>5, <2>1, <2>3
  <2>5. PICK ds : ds = [j \in DOMAIN es |-> EntryDetail(es[j], ts[j])]
    OBVIOUS
  <2>6. ds \in Seq(B) /\ Len(ds) = Len(es)
    <3>1. ASSUME NEW j \in DOMAIN es PROVE EntryDetail(es[j], ts[j]) \in B
      <4>1. PICK e \in passed, t \in T : e = es[j] /\ t = ts[j]
        BY <2>1, <2>4
      <4>2. PICK p \in passed \X T : p[1] = e /\ p[2] = t
        <5>1. <<e, t>> \in passed \X T /\ <<e, t>>[1] = e /\ <<e, t>>[2] = t
          OBVIOUS
        <5> QED
          BY <5>1
      <4>3. EntryDetail(p[1], p[2]) \in B
        BY <1>6
      <4>4. EntryDetail(e, t) \in B
        BY <4>2, <4>3
      <4> QED
        BY <4>1, <4>4
    <3>2. PICK m \in Nat : DOMAIN es = 1..m /\ Len(es) = m
      <4>1. Len(es) \in Nat /\ DOMAIN es = 1..Len(es)
        BY <2>1
      <4> QED
        BY <4>1
    <3>3. ds \in [1..m -> B]
      BY <2>5, <3>1, <3>2
    <3>4. ds \in Seq(B) /\ Len(ds) = m
      BY <3>3
    <3> QED
      BY <3>2, <3>4
  <2>7. BatchHeader(file.header, i) \in B /\ BatchControl(es, i) \in B
    <3>1. PICK p \in Seq(Entry) \X Nat : p = <<es, i>>
      BY <2>2
    <3>2. BatchControl(p[1], p[2]) \in B /\ p[1] = es /\ p[2] = i
      BY <1>6, <3>1
    <3> QED
      BY <1>1, <1>6, <2>2, <3>2
  <2>8. PICK first \in B, closing \in B : first = BatchHeader(h, i) /\ closing = BatchControl(es, i)
    BY <1>1, <2>7
  <2>9. BatchRecords(file, i) = <<first>> \o ds \o <<closing>>
    BY <1>1, <2>1, <2>3, <2>5, <2>8 DEF BatchRecords
  <2>10. PICK s : s = BatchRecords(file, i)
    OBVIOUS
  <2>11. /\ s \in Seq(B) /\ Len(s) = Len(ds) + 2 /\ s[1] = first /\ s[Len(ds) + 2] = closing
         /\ \A j \in 1..Len(ds) : s[j + 1] = ds[j]
    BY <2>6, <2>9, <2>10, Framed
  <2>12. \A j \in 1..Len(es) : ds[j] = EntryDetail(es[j], Traces(file, i)[j])
    BY <2>1, <2>3, <2>5
  <2>13. es = bs[i]
    BY <1>2, <2>1
  <2> QED
    BY <2>6, <2>8, <2>10, <2>11, <2>12, <2>13
<1>9. PICK ss : ss = [i \in DOMAIN bs |-> BatchRecords(file, i)]
  OBVIOUS
<1>10. ss \in Seq(Seq(B))
  <2>1. PICK n \in Nat : DOMAIN bs = 1..n
    <3>1. Len(bs) \in Nat /\ DOMAIN bs = 1..Len(bs)
      BY <1>2
    <3> QED
      BY <3>1
  <2>2. \A i \in 1..n : BatchRecords(file, i) \in Seq(B)
    BY <1>8, <2>1
  <2>3. ss \in [1..n -> Seq(B)]
    BY <1>9, <2>1, <2>2
  <2> QED
    BY <2>3
<1>11. PICK N \in Nat : N = Len(bs) /\ DOMAIN bs = 1..N /\ Len(ss) = N
  BY <1>2, <1>9
<1>12. \A i \in 1..N : Len(bs[i]) \in Nat /\ Len(ss[i]) = Len(bs[i]) + 2 /\ ss[i] = BatchRecords(file, i)
  <2> SUFFICES ASSUME NEW i \in 1..N
               PROVE  Len(bs[i]) \in Nat /\ Len(ss[i]) = Len(bs[i]) + 2 /\ ss[i] = BatchRecords(file, i)
    OBVIOUS
  <2>1. i \in DOMAIN bs
    BY <1>11
  <2>2. bs[i] \in Seq(Entry) /\ ss[i] = BatchRecords(file, i)
    BY <1>2, <1>9, <2>1
  <2> QED
    BY <1>8, <2>1, <2>2
<1>13. PICK body : body = FlattenSeq(ss)
  OBVIOUS
<1>14. /\ body \in Seq(B) /\ Len(body) = start[N] + 2 * N
       /\ \A i \in 1..N : /\ start[i - 1] \in Nat /\ start[i] = start[i - 1] + Len(bs[i])
                          /\ \A j \in 1..(Len(bs[i]) + 2) : body[start[i - 1] + 2 * i - 2 + j] = ss[i][j]
  <2>1. Starts(start, bs)
    BY <1>2
  <2>2. TwoMore(ss, bs)
    BY <1>11, <1>12 DEF TwoMore
  <2>3. /\ FlattenSeq(ss) \in Seq(B) /\ Len(FlattenSeq(ss)) = start[Len(bs)] + 2 * Len(bs)
        /\ \A i \in 1..Len(bs) :
              /\ start[i - 1] \in Nat /\ start[i] = start[i - 1] + Len(bs[i])
              /\ \A j \in 1..(Len(bs[i]) + 2) : FlattenSeq(ss)[start[i - 1] + 2 * i - 2 + j] = ss[i][j]
    BY <1>10, <2>1, <2>2, Placing
  <2> QED
    BY <1>11, <1>13, <2>3
<1>15. ASSUME NEW i \in 1..N
       PROVE  /\ body[start[i - 1] + 2 * i - 1] = BatchHeader(h, i)
              /\ body[start[i] + 2 * i] = BatchControl(bs[i], i)
              /\ \A j \in 1..Len(bs[i]) :
                    body[start[i - 1] + 2 * i - 1 + j] = EntryDetail(bs[i][j], Traces(file, i)[j])
  <2>1. PICK m \in Nat : m = Len(bs[i])
    BY <1>12
  <2>2. PICK c \in Nat : c = start[i - 1] /\ start[i] = c + m
    BY <1>14, <2>1
  <2>3. \A j \in 1..(m + 2) : body[c + 2 * i - 2 + j] = BatchRecords(file, i)[j]
    BY <1>14, <1>12, <2>1, <2>2
  <2>4. i \in DOMAIN bs
    BY <1>11
  <2>5. body[c + 2 * i - 1] = BatchHeader(h, i)
    <3>1. 1 \in 1..(m + 2) /\ c + 2 * i - 2 + 1 = c + 2 * i - 1
      OBVIOUS
    <3> QED
      BY <1>8, <2>3, <2>4, <3>1
  <2>6. body[start[i] + 2 * i] = BatchControl(bs[i], i)
    <3>1. m + 2 \in 1..(m + 2) /\ c + 2 * i - 2 + (m + 2) = c + m + 2 * i
      OBVIOUS
    <3>2. body[c + m + 2 * i] = BatchRecords(file, i)[m + 2]
      BY <2>3, <3>1
    <3>3. BatchRecords(file, i)[m + 2] = BatchControl(bs[i], i)
      BY <1>8, <2>1, <2>4
    <3> QED
      BY <2>2, <3>2, <3>3
  <2>7. ASSUME NEW j \in 1..m PROVE body[c + 2 * i - 1 + j] = EntryDetail(bs[i][j], Traces(file, i)[j])
    <3>1. j + 1 \in 1..(m + 2) /\ c + 2 * i - 2 + (j + 1) = c + 2 * i - 1 + j
      OBVIOUS
    <3>2. body[c + 2 * i - 1 + j] = BatchRecords(file, i)[j + 1]
      BY <2>3, <3>1
    <3>3. BatchRecords(file, i)[j + 1] = EntryDetail(bs[i][j], Traces(file, i)[j])
      BY <1>8, <2>1, <2>4
    <3> QED
      BY <3>2, <3>3
  <2> QED
    BY <2>1, <2>2, <2>5, <2>6, <2>7
<1>16. Placed(file, body, start)
  BY <1>1, <1>2, <1>11, <1>14, <1>15 DEF Placed
<1>17. FullLines(B)
  BY <1>7 DEF FullLines
<1>18. FileHeader(file.header) \in B
  BY <1>1, <1>6
<1>19. body = FlattenSeq([i \in DOMAIN file.batches |-> BatchRecords(file, i)])
  BY <1>2, <1>9, <1>13
<1>20. Len(body) = start[Len(file.batches)] + 2 * Len(file.batches)
  BY <1>2, <1>11, <1>14
<1> QED
  BY <1>14, <1>16, <1>17, <1>18, <1>19, <1>20

\* How many blocks there are, and what is left to fill.
LEMMA BlocksFill ==
    ASSUME NEW n \in Nat, NEW b, b = (n + 1 + BlockSize - 1) \div BlockSize
    PROVE  b \in Nat /\ BlockSize * b - n - 1 \in 0..(BlockSize - 1)
  BY DEF BlockSize

\* The lines of a file: n of 94 characters, the file control, fillers to the end of a block.
Composed(file, records, n, b) ==
    /\ n \in Nat /\ b \in Nat /\ Len(records) = BlockSize * b
    /\ Len(records) - n - 1 \in 0..(BlockSize - 1)
    /\ \A i \in 1..n : records[i].length = RecordLen /\ records[i].type \in {"1", "5", "6", "8"}
    /\ records[n + 1] = FileControl(file.batches, b)
    /\ \A i \in (n + 2)..Len(records) : records[i] = Filler

\* And where those of the batches are in it, after the file header.
Laid(file, records, start, n, b) ==
    LET bs == file.batches
    IN  /\ Composed(file, records, n, b) /\ n = start[Len(bs)] + 2 * Len(bs) + 1
        /\ records[1].type = "1"
        /\ \A i \in 1..Len(bs) :
             /\ records[start[i - 1] + 2 * i] = BatchHeader(file.header, i)
             /\ records[start[i] + 2 * i + 1] = BatchControl(bs[i], i)
             /\ \A j \in 1..Len(bs[i]) :
                   records[start[i - 1] + 2 * i + j] = EntryDetail(bs[i][j], Traces(file, i)[j])

\* Two sequences and an element between them.
LEMMA Joined ==
    ASSUME NEW D, NEW ds \in Seq(D), NEW es \in Seq(D), NEW a \in D, NEW s, s = ds \o <<a>> \o es
    PROVE  /\ s \in Seq(D) /\ Len(s) = Len(ds) + 1 + Len(es) /\ s[Len(ds) + 1] = a
           /\ \A j \in 1..Len(ds) : s[j] = ds[j]
           /\ \A j \in 1..Len(es) : s[Len(ds) + 1 + j] = es[j]
<1>1. <<a>> \in Seq(D) /\ Len(<<a>>) = 1 /\ <<a>>[1] = a
  OBVIOUS
<1>2. ds \o <<a>> \in Seq(D)
  BY <1>1
<1>3. PICK front \in Seq(D) : front = ds \o <<a>>
  BY <1>2
<1>4. PICK m, k \in Nat : m = Len(ds) /\ k = Len(es)
  OBVIOUS
<1>5. Len(front) = m + 1 /\ front[m + 1] = a /\ \A j \in 1..m : front[j] = ds[j]
  BY <1>3, <1>4
<1>6. s = front \o es
  BY <1>3
<1>7. s \in Seq(D) /\ Len(s) = m + 1 + k
  BY <1>4, <1>5, <1>6
<1>8. ASSUME NEW j \in 1..(m + 1) PROVE s[j] = front[j]
  BY <1>4, <1>5, <1>6
<1>9. ASSUME NEW j \in 1..k PROVE s[m + 1 + j] = es[j]
  <2>1. m + 1 + j \in 1..(Len(front) + Len(es)) /\ m + 1 + j > Len(front) /\ (m + 1 + j) - Len(front) = j
    BY <1>4, <1>5
  <2> QED
    BY <1>6, <2>1
<1>10. m + 1 \in 1..(m + 1) /\ \A j \in 1..m : j \in 1..(m + 1)
  OBVIOUS
<1> QED
  BY <1>4, <1>5, <1>7, <1>8, <1>9, <1>10

\* Every line of a file, and where it stands.
LEMMA RecordsAre ==
    ASSUME NEW file \in File, Valid(file), NEW start, Starts(start, file.batches)
    PROVE  \E P, records, n, b :
              records \in Seq(P) /\ records = Records(file) /\ Laid(file, records, start, n, b)
<1>1. PICK B, flat : /\ flat \in Seq(B) /\ FullLines(B) /\ FileHeader(file.header) \in B
                     /\ flat = FlattenSeq([i \in DOMAIN file.batches |-> BatchRecords(file, i)])
                     /\ Len(flat) = start[Len(file.batches)] + 2 * Len(file.batches)
                     /\ Placed(file, flat, start)
  BY BodyIs
<1>2. PICK top \in B : top = FileHeader(file.header)
  BY <1>1
<1>3. PICK body : body = <<top>> \o flat
  OBVIOUS
<1>4. /\ body \in Seq(B) /\ Len(body) = Len(flat) + 1 /\ body[1] = top
      /\ \A k \in 1..Len(flat) : body[k + 1] = flat[k]
  BY <1>1, <1>3, Headed
<1>5. PICK n \in Nat : n = Len(body)
  BY <1>4
<1>6. PICK b : b = Blocks(body)
  OBVIOUS
<1>7. b \in Nat /\ BlockSize * b - n - 1 \in 0..(BlockSize - 1)
  BY <1>5, <1>6, BlocksFill DEF Blocks
<1>8. PICK k \in 0..(BlockSize - 1) : k = BlockSize * b - n - 1
  BY <1>7
<1>9. PICK control : control = FileControl(file.batches, b)
  OBVIOUS
<1>10. PICK fill : fill = [i \in 1..k |-> Filler]
  OBVIOUS
<1>11. PICK records : records = body \o <<control>> \o fill
  OBVIOUS
<1>12. Records(file) = records
  BY <1>1, <1>2, <1>3, <1>5, <1>6, <1>8, <1>9, <1>10, <1>11 DEF Records
<1>13. PICK P : P = B \cup {control, Filler}
  OBVIOUS
<1>14. fill \in Seq(P) /\ Len(fill) = k /\ k \in Nat /\ \A i \in 1..k : fill[i] = Filler
  <2>1. k \in Nat
    BY DEF BlockSize
  <2>2. fill \in [1..k -> P]
    BY <1>10, <1>13
  <2> QED
    BY <1>10, <2>1, <2>2
<1>15. body \in Seq(P) /\ control \in P
  BY <1>4, <1>13
<1>16. /\ records \in Seq(P) /\ Len(records) = Len(body) + 1 + Len(fill)
       /\ records[Len(body) + 1] = control
       /\ \A j \in 1..Len(body) : records[j] = body[j]
       /\ \A j \in 1..Len(fill) : records[Len(body) + 1 + j] = fill[j]
  <2>1. fill \in Seq(P)
    BY <1>14
  <2>2. PICK ds, es \in Seq(P) : ds = body /\ es = fill
    BY <1>15, <2>1
  <2>3. PICK a \in P : a = control
    BY <1>15
  <2>4. records = ds \o <<a>> \o es
    BY <1>11, <2>2, <2>3
  <2>5. /\ records \in Seq(P) /\ Len(records) = Len(ds) + 1 + Len(es) /\ records[Len(ds) + 1] = a
        /\ \A j \in 1..Len(ds) : records[j] = ds[j]
        /\ \A j \in 1..Len(es) : records[Len(ds) + 1 + j] = es[j]
    BY <2>4, Joined
  <2> QED
    BY <2>2, <2>3, <2>5
<1>17. /\ Len(records) = n + 1 + k /\ records[n + 1] = control
       /\ \A i \in 1..n : records[i] = body[i]
       /\ \A j \in 1..k : records[n + 1 + j] = Filler
  BY <1>5, <1>14, <1>16
<1>18. Composed(file, records, n, b)
  <2>1. Len(records) = BlockSize * b /\ Len(records) - n - 1 \in 0..(BlockSize - 1)
    BY <1>7, <1>8, <1>17 DEF BlockSize
  <2>2. ASSUME NEW i \in 1..n PROVE records[i].length = RecordLen /\ records[i].type \in {"1", "5", "6", "8"}
    <3>1. body[i] \in B
      BY <1>4, <1>5
    <3> QED
      BY <1>1, <1>17, <3>1 DEF FullLines
  <2>3. ASSUME NEW i \in (n + 2)..Len(records) PROVE records[i] = Filler
    <3>1. PICK j \in 1..k : i = n + 1 + j
      <4>1. i - (n + 1) \in 1..k /\ i = n + 1 + (i - (n + 1))
        BY <1>14, <1>17
      <4> QED
        BY <4>1
    <3> QED
      BY <1>17, <3>1
  <2> QED
    BY <1>7, <1>9, <1>17, <2>1, <2>2, <2>3 DEF Composed
<1>19. n = start[Len(file.batches)] + 2 * Len(file.batches) + 1
  BY <1>1, <1>4, <1>5
<1>20. Laid(file, records, start, n, b)
  <2>1. PICK bs \in Seq(Seq(Entry)) : bs = file.batches
    BY DEF File
  <2>2. PICK N \in Nat : N = Len(bs) /\ \A i \in 1..N : bs[i] \in Seq(Entry)
    BY <2>1
  <2>3. /\ start \in [0..N -> Nat] /\ \A i \in 1..N : start[i] = start[i - 1] + Len(bs[i])
    BY <2>1, <2>2 DEF Starts
  <2>4. n = start[N] + 2 * N + 1
    BY <1>1, <1>4, <1>5, <2>1, <2>2
  <2>5. ASSUME NEW i \in 1..N
        PROVE  /\ records[start[i - 1] + 2 * i] = BatchHeader(file.header, i)
               /\ records[start[i] + 2 * i + 1] = BatchControl(bs[i], i)
               /\ \A j \in 1..Len(bs[i]) :
                     records[start[i - 1] + 2 * i + j] = EntryDetail(bs[i][j], Traces(file, i)[j])
    <3>1. i - 1 \in 0..N /\ i \in 0..N /\ N \in i..N /\ N \in 0..N
      OBVIOUS
    <3>2. PICK m, c, d \in Nat : m = Len(bs[i]) /\ c = start[i - 1] /\ c + m = start[i] /\ d = start[N]
      <4>1. Len(bs[i]) \in Nat
        BY <2>2
      <4> QED
        BY <2>3, <3>1, <4>1
    <3>3. c + m <= d
      <4>1. \A q \in 1..Len(bs) : Len(bs[q]) \in Nat
        BY <2>2
      <4>2. i \in 0..Len(bs) /\ N \in i..Len(bs) /\ Starts(start, bs)
        BY <2>1, <2>2, <3>1
      <4>3. start[i] <= start[N]
        BY <4>1, <4>2, StartsGrow
      <4> QED
        BY <3>2, <4>3
    <3>4. n = d + 2 * N + 1 /\ Len(flat) = d + 2 * N
      BY <1>1, <2>1, <2>2, <2>4, <3>2
    <3>5. ASSUME NEW q \in 1..(d + 2 * N) PROVE records[q + 1] = flat[q]
      <4>1. q + 1 \in 1..n /\ q \in 1..Len(flat)
        BY <3>4
      <4> QED
        BY <1>4, <1>17, <4>1
    <3>6. /\ flat[c + 2 * i - 1] = BatchHeader(file.header, i) /\ flat[c + m + 2 * i] = BatchControl(bs[i], i)
          /\ \A j \in 1..m : flat[c + 2 * i - 1 + j] = EntryDetail(bs[i][j], Traces(file, i)[j])
      BY <1>1, <2>1, <2>2, <3>2 DEF Placed
    <3>7. c + 2 * i - 1 \in 1..(d + 2 * N) /\ (c + 2 * i - 1) + 1 = c + 2 * i
      BY <3>3
    <3>8. c + m + 2 * i \in 1..(d + 2 * N)
      BY <3>3
    <3>9. ASSUME NEW j \in 1..m PROVE records[c + 2 * i + j] = EntryDetail(bs[i][j], Traces(file, i)[j])
      <4>1. c + 2 * i - 1 + j \in 1..(d + 2 * N) /\ (c + 2 * i - 1 + j) + 1 = c + 2 * i + j
        BY <3>3
      <4> QED
        BY <3>5, <3>6, <4>1
    <3>10. records[c + 2 * i] = BatchHeader(file.header, i)
      BY <3>5, <3>6, <3>7
    <3>11. records[c + m + 2 * i + 1] = BatchControl(bs[i], i)
      BY <3>5, <3>6, <3>8
    <3> QED
      BY <3>2, <3>9, <3>10, <3>11
  <2>6. records[1].type = "1"
    <3>1. 1 \in 1..n
      BY <1>1, <1>4, <1>5
    <3>2. records[1] = FileHeader(file.header)
      BY <1>2, <1>4, <1>17, <3>1
    <3>3. FileHeader(file.header).type = "1"
      BY DEF FileHeader
    <3> QED
      BY <3>2, <3>3
  <2> QED
    BY <1>18, <1>19, <2>1, <2>2, <2>5, <2>6 DEF Laid
<1> QED
  BY <1>12, <1>16, <1>20

\* Whatever its batches, as long as six digits count its blocks: a file that passed
\* validation is written, in lines of 94 characters and whole blocks of ten.
THEOREM FilesAreWellBlocked == \A file \in File : WellBlocked(file)
<1> SUFFICES ASSUME NEW file \in File, Valid(file), Len(Records(file)) < BlockSize * Limit[6]
             PROVE  WellBlocked(file)
  BY DEF WellBlocked
<1>1. PICK start : Starts(start, file.batches)
  <2>1. file.batches \in Seq(Seq(Entry))
    BY DEF File
  <2> QED
    BY <2>1, StartsAre
<1>2. PICK P, records, n, b : records \in Seq(P) /\ records = Records(file) /\ Composed(file, records, n, b)
  BY <1>1, RecordsAre DEF Laid
<1>3. PICK control : control = FileControl(file.batches, b)
  OBVIOUS
<1>4. control.length = RecordLen /\ control.type = "9" /\ control.blocks = b % Limit[6]
  BY <1>3 DEF FileControl, Number, RecordLen
<1>5. n \in Nat /\ b \in Nat
  BY <1>2 DEF Composed
<1>6. PICK k \in 0..(BlockSize - 1) : Len(records) = n + 1 + k /\ Len(records) = BlockSize * b
  <2>1. Len(records) \in Nat /\ Len(records) - n - 1 \in 0..(BlockSize - 1) /\ Len(records) = BlockSize * b
    BY <1>2 DEF Composed
  <2>2. Len(records) = n + 1 + (Len(records) - n - 1)
    BY <1>5, <2>1
  <2> QED
    BY <2>1, <2>2
<1>7. /\ DOMAIN records = 1..(n + 1 + k)
      /\ \A i \in 1..n : records[i].length = RecordLen /\ records[i].type \in {"1", "5", "6", "8"}
      /\ records[n + 1] = control
      /\ \A i \in (n + 2)..(n + 1 + k) : records[i] = Filler
  BY <1>2, <1>3, <1>6 DEF Composed
<1>8. Filler.length = RecordLen /\ Filler.type = "filler"
  BY DEF Filler
<1>9. HowMany(records, "filler") = k
  <2>1. {i \in DOMAIN records : records[i].type = "filler"} = (n + 2)..(n + 1 + k)
    BY <1>4, <1>5, <1>7, <1>8, SMTT(30)
  <2>2. Cardinality((n + 2)..(n + 1 + k)) = k
    <3>1. k \in Nat /\ n + 2 \in Int /\ n + 1 + k \in Int
      BY <1>5 DEF BlockSize
    <3>2. PICK x \in Int, y \in Int : x = n + 2 /\ y = n + 1 + k
      BY <3>1
    <3>3. Cardinality(x..y) = IF x > y THEN 0 ELSE y - x + 1
      BY FS_Interval
    <3> QED
      BY <1>5, <3>1, <3>2, <3>3
  <2> QED
    BY <2>1, <2>2 DEF HowMany
<1>10. HowMany(records, "9") = 1
  <2>1. {i \in DOMAIN records : records[i].type = "9"} = {n + 1}
    BY <1>4, <1>5, <1>7, <1>8
  <2> QED
    BY <2>1, FS_Singleton DEF HowMany
<1>11. ~Broken(records)
  <2>1. ASSUME NEW i \in DOMAIN records PROVE records[i].length = RecordLen
    <3>1. i \in 1..n \/ i = n + 1 \/ i \in (n + 2)..(n + 1 + k)
      BY <1>5, <1>7
    <3> QED
      BY <1>4, <1>7, <1>8, <3>1
  <2> QED
    BY <2>1 DEF Broken
<1>12. Outcome(file) = "written"
  BY <1>2, <1>11 DEF Outcome
<1>13. control.blocks = b
  <2>1. PICK l \in Nat \ {0} : l = Limit[6]
    BY FieldLimits
  <2>2. BlockSize * b < BlockSize * l
    BY <1>2, <1>6, <2>1
  <2>3. b < l
    BY <1>5, <2>2 DEF BlockSize
  <2>4. b % l = b
    BY <1>5, <2>3
  <2> QED
    BY <1>4, <2>1, <2>4
<1>14. Len(records) - k = n + 1 /\ Len(records) % BlockSize = 0 /\ k < BlockSize
  BY <1>5, <1>6 DEF BlockSize
<1>15. records[Len(records) - k] = control /\ control.blocks * BlockSize = Len(records)
  <2>1. records[Len(records) - k] = control
    BY <1>7, <1>14
  <2>2. control.blocks * BlockSize = BlockSize * b
    BY <1>5, <1>13 DEF BlockSize
  <2> QED
    BY <1>6, <2>1, <2>2
<1>16. WellBlocked(file)
          <=> (Valid(file) /\ Len(records) < BlockSize * Limit[6] =>
                 /\ Outcome(file) = "written"
                 /\ Len(records) % BlockSize = 0 /\ HowMany(records, "filler") < BlockSize
                 /\ records[Len(records) - HowMany(records, "filler")].type = "9"
                 /\ HowMany(records, "9") = 1
                 /\ records[Len(records) - HowMany(records, "filler")].blocks * BlockSize = Len(records))
  BY <1>2 DEF WellBlocked
<1> QED
  BY <1>4, <1>9, <1>10, <1>12, <1>14, <1>15, <1>16

-----------------------------------------------------------------------------
(* What is read back from a file.                                           *)

\* Where the batches of a file are in it: payments, and the batch each belongs to.
Batched(at, start, N) ==
    at \in [1..start[N] -> 1..N] /\ \A p \in 1..start[N] : start[at[p] - 1] < p /\ p <= start[at[p]]

\* Every payment is in one batch.
LEMMA BatchedAt ==
    ASSUME NEW N \in Nat, NEW start \in [0..N -> Nat], start[0] = 0
    PROVE  \E at : Batched(at, start, N)
<1>1. \A p \in 1..start[N] : \E i \in 1..N : start[i - 1] < p /\ p <= start[i]
  BY Located
<1>2. PICK at : at = [p \in 1..start[N] |-> CHOOSE i \in 1..N : start[i - 1] < p /\ p <= start[i]]
  OBVIOUS
<1>3. Batched(at, start, N)
  BY <1>1, <1>2 DEF Batched
<1> QED
  BY <1>3

\* Every line but the first and those from the file control on is a header, a payment or a
\* control of a batch.
LEMMA Lines ==
    ASSUME NEW N \in Nat, NEW start \in [0..N -> Nat], start[0] = 0, NEW k \in 2..(start[N] + 2 * N + 1)
    PROVE  \E i \in 1..N : \/ k = start[i - 1] + 2 * i
                           \/ k = start[i] + 2 * i + 1
                           \/ \E p \in (start[i - 1] + 1)..start[i] : k = p + 2 * i
<1>1. PICK st : st = [i \in 0..N |-> start[i] + 2 * i]
  OBVIOUS
<1>2. \A i \in 0..N : start[i] \in Nat /\ i \in Nat
  OBVIOUS
<1>3. \A i \in 0..N : start[i] + 2 * i \in Nat
  BY <1>2
<1>4. 0 \in 0..N /\ N \in 0..N
  OBVIOUS
<1>5. st \in [0..N -> Nat]
  BY <1>1, <1>3
<1>6. st[0] = 0 /\ st[N] = start[N] + 2 * N
  <2>1. st[0] = start[0] + 2 * 0 /\ st[N] = start[N] + 2 * N
    BY <1>1, <1>4
  <2> QED
    BY <2>1
<1>7. PICK q \in 1..st[N] : q = k - 1
  <2>1. k - 1 \in 1..st[N]
    BY <1>2, <1>4, <1>6
  <2> QED
    BY <2>1
<1>8. PICK i \in 1..N : st[i - 1] < q /\ q <= st[i]
  BY <1>5, <1>6, Located
<1>9. i - 1 \in 0..N /\ i \in 0..N
  OBVIOUS
<1>10. PICK a, b \in Nat : a = start[i - 1] /\ b = start[i]
  BY <1>2, <1>9
<1>11. st[i - 1] = a + 2 * (i - 1) /\ st[i] = b + 2 * i
  BY <1>1, <1>9, <1>10
<1>12. a + 2 * i <= k /\ k <= b + 2 * i + 1
  BY <1>7, <1>8, <1>11
<1>13. k = a + 2 * i \/ k = b + 2 * i + 1 \/ k - 2 * i \in (a + 1)..b
  BY <1>12
<1>14. k = (k - 2 * i) + 2 * i
  OBVIOUS
<1> QED
  BY <1>10, <1>13, <1>14

\* The lines of batch i come before the file control.
LEMMA Fits ==
    ASSUME NEW c \in Nat, NEW m \in Nat, NEW d \in Nat, NEW N \in Nat, NEW i \in 1..N, c + m <= d
    PROVE  /\ c + 2 * i <= d + 2 * N + 1 /\ c + m + 2 * i + 1 <= d + 2 * N + 1
           /\ \A p \in (c + 1)..(c + m) : p + 2 * i <= d + 2 * N + 1
  OBVIOUS

\* What the lines are, by their type: the headers of the N batches, their controls, the
\* payments, the file control.
Sorted(records, start, N, n) ==
    \A k \in 1..Len(records) :
       /\ records[k].type = "5" <=> \E i \in 1..N : k = start[i - 1] + 2 * i
       /\ records[k].type = "8" <=> \E i \in 1..N : k = start[i] + 2 * i + 1
       /\ records[k].type = "6" <=> \E i \in 1..N : \E p \in (start[i - 1] + 1)..start[i] : k = p + 2 * i
       /\ records[k].type = "9" <=> k = n + 1

\* The lines of a valid file are told apart by their type.
LEMMA Kinds ==
    ASSUME NEW file \in File, NEW start, Starts(start, file.batches), NEW P, NEW records \in Seq(P),
           NEW n, NEW b, Laid(file, records, start, n, b)
    PROVE  Sorted(records, start, Len(file.batches), n)
<1>1. PICK bs \in Seq(Seq(Entry)) : bs = file.batches
  BY DEF File
<1>2. PICK N \in Nat : N = Len(bs)
  OBVIOUS
<1>3. start \in [0..N -> Nat] /\ start[0] = 0 /\ \A i \in 1..N : start[i] = start[i - 1] + Len(bs[i])
  BY <1>1, <1>2 DEF Starts
<1>4. ASSUME NEW i \in 1..N
      PROVE  \E c, m \in Nat : c = start[i - 1] /\ m = Len(bs[i]) /\ c + m = start[i] /\ c + m <= start[N]
  <2>1. PICK m \in Nat : m = Len(bs[i])
    <3>1. bs[i] \in Seq(Entry)
      BY <1>1, <1>2
    <3> QED
      BY <3>1
  <2>2. PICK c \in Nat : c = start[i - 1]
    <3>1. i - 1 \in 0..N
      OBVIOUS
    <3> QED
      BY <1>3, <3>1
  <2>3. start[i] <= start[N]
    <3>1. \A q \in 1..Len(bs) : Len(bs[q]) \in Nat
      BY <1>1
    <3>2. i \in 0..Len(bs) /\ N \in i..Len(bs) /\ Starts(start, bs)
      BY <1>1, <1>2
    <3> QED
      BY <3>1, <3>2, StartsGrow
  <2> QED
    BY <1>3, <2>1, <2>2, <2>3
<1>5. ASSUME NEW i \in 1..N
      PROVE  /\ records[start[i - 1] + 2 * i].type = "5"
             /\ records[start[i] + 2 * i + 1].type = "8"
             /\ \A p \in (start[i - 1] + 1)..start[i] : records[p + 2 * i].type = "6"
             /\ start[i - 1] + 2 * i <= n /\ start[i] + 2 * i + 1 <= n
             /\ \A p \in (start[i - 1] + 1)..start[i] : p + 2 * i <= n
  <2>1. PICK c, m \in Nat : c = start[i - 1] /\ m = Len(bs[i]) /\ c + m = start[i] /\ c + m <= start[N]
    BY <1>4
  <2>2. /\ records[c + 2 * i] = BatchHeader(file.header, i)
        /\ records[c + m + 2 * i + 1] = BatchControl(bs[i], i)
        /\ \A j \in 1..m : records[c + 2 * i + j] = EntryDetail(bs[i][j], Traces(file, i)[j])
    BY <1>1, <1>2, <2>1 DEF Laid
  <2>3. records[c + 2 * i].type = "5"
    BY <2>2 DEF BatchHeader
  <2>4. records[c + m + 2 * i + 1].type = "8"
    BY <2>2 DEF BatchControl
  <2>5. ASSUME NEW p \in (c + 1)..(c + m) PROVE records[p + 2 * i].type = "6"
    <3>1. p - c \in 1..m /\ c + 2 * i + (p - c) = p + 2 * i
      OBVIOUS
    <3>2. records[p + 2 * i] = EntryDetail(bs[i][p - c], Traces(file, i)[p - c])
      BY <2>2, <3>1
    <3> QED
      BY <3>2 DEF EntryDetail
  <2>6. PICK d \in Nat : d = start[N] /\ n = d + 2 * N + 1
    <3>1. N \in 0..N
      OBVIOUS
    <3>2. n = start[N] + 2 * N + 1
      BY <1>1, <1>2 DEF Laid
    <3> QED
      BY <1>3, <3>1, <3>2
  <2>7. c + 2 * i <= n /\ c + m + 2 * i + 1 <= n /\ \A p \in (c + 1)..(c + m) : p + 2 * i <= n
    <3>1. c + m <= d
      BY <2>1, <2>6
    <3>2. /\ c + 2 * i <= d + 2 * N + 1 /\ c + m + 2 * i + 1 <= d + 2 * N + 1
          /\ \A p \in (c + 1)..(c + m) : p + 2 * i <= d + 2 * N + 1
      BY <3>1, Fits
    <3> QED
      BY <2>6, <3>2
  <2> QED
    BY <2>1, <2>3, <2>4, <2>5, <2>7
<1>6. records[1].type = "1" /\ records[n + 1].type = "9" /\ \A k \in (n + 2)..Len(records) : records[k].type = "filler"
  <2>1. /\ records[1].type = "1" /\ records[n + 1] = FileControl(file.batches, b)
        /\ \A k \in (n + 2)..Len(records) : records[k] = Filler
    BY DEF Laid, Composed
  <2>2. FileControl(file.batches, b).type = "9"
    BY DEF FileControl
  <2>3. Filler.type = "filler"
    BY DEF Filler
  <2> QED
    BY <2>1, <2>2, <2>3
<1>7. n \in Nat /\ n = start[N] + 2 * N + 1
  BY <1>1, <1>2 DEF Composed, Laid
<1> SUFFICES ASSUME NEW k \in 1..Len(records)
             PROVE  /\ records[k].type = "5" <=> \E i \in 1..N : k = start[i - 1] + 2 * i
                    /\ records[k].type = "8" <=> \E i \in 1..N : k = start[i] + 2 * i + 1
                    /\ records[k].type = "6" <=> \E i \in 1..N : \E p \in (start[i - 1] + 1)..start[i] : k = p + 2 * i
                    /\ records[k].type = "9" <=> k = n + 1
  BY <1>1, <1>2 DEF Sorted
<1>8. CASE k \in 2..n
  <2>1. PICK i \in 1..N : \/ k = start[i - 1] + 2 * i
                          \/ k = start[i] + 2 * i + 1
                          \/ \E p \in (start[i - 1] + 1)..start[i] : k = p + 2 * i
    BY <1>3, <1>7, <1>8, Lines
  <2>2. k # n + 1
    BY <1>7, <1>8
  <2>3. CASE k = start[i - 1] + 2 * i
    <3>1. records[k].type = "5"
      BY <1>5, <2>3
    <3> QED
      BY <1>5, <2>2, <2>3, <3>1
  <2>4. CASE k = start[i] + 2 * i + 1
    <3>1. records[k].type = "8"
      BY <1>5, <2>4
    <3> QED
      BY <1>5, <2>2, <2>4, <3>1
  <2>5. CASE \E p \in (start[i - 1] + 1)..start[i] : k = p + 2 * i
    <3>1. records[k].type = "6"
      BY <1>5, <2>5
    <3> QED
      BY <1>5, <2>2, <2>5, <3>1
  <2> QED
    BY <2>1, <2>3, <2>4, <2>5
<1>9. CASE k \notin 2..n
  <2>1. k = 1 \/ k = n + 1 \/ k \in (n + 2)..Len(records)
    BY <1>7, <1>9
  <2>2. records[k].type \in {"1", "9", "filler"} /\ (records[k].type = "9" <=> k = n + 1)
    BY <1>6, <2>1
  <2> QED
    BY <1>5, <1>7, <1>9, <2>2
<1> QED
  BY <1>8, <1>9

\* Each batch begins where the ones before it are through.
Growing(start, N) == \A i \in 0..N : \A k \in i..N : start[i] <= start[k]

\* The lines of the payments are in the order of the payments, batch by batch.
InOrder(at, start, N) ==
    /\ \A p, q \in 1..start[N] : p < q => p + 2 * at[p] < q + 2 * at[q]
    /\ \A i \in 1..N : \A p \in (start[i - 1] + 1)..start[i] : p \in 1..start[N] /\ at[p] = i

\* Payments further on are in later batches or in the same, and a payment is in one only.
LEMMA BatchedInOrder ==
    ASSUME NEW N \in Nat, NEW start \in [0..N -> Nat], start[0] = 0,
           Growing(start, N), NEW at, Batched(at, start, N)
    PROVE  InOrder(at, start, N)
<1>1. /\ at \in [1..start[N] -> 1..N]
      /\ \A p \in 1..start[N] : start[at[p] - 1] < p /\ p <= start[at[p]]
  BY DEF Batched
<1>2. ASSUME NEW i \in 1..N, NEW k \in 1..N, i < k PROVE start[i] <= start[k - 1]
  <2>1. i \in 0..N /\ k - 1 \in i..N
    BY <1>2
  <2> QED
    BY <2>1 DEF Growing
<1>3. ASSUME NEW i \in 0..N PROVE start[i] \in Nat
  OBVIOUS
<1>4. ASSUME NEW p \in 1..start[N], NEW q \in 1..start[N], p < q PROVE p + 2 * at[p] < q + 2 * at[q]
  <2>1. PICK i, k \in 1..N : i = at[p] /\ k = at[q]
    BY <1>1
  <2>2. start[i - 1] < p /\ q <= start[k]
    BY <1>1, <2>1
  <2>3. k \in 0..N /\ i - 1 \in 0..N /\ N \in 0..N
    OBVIOUS
  <2>4. PICK a, b, d \in Nat : a = start[i - 1] /\ b = start[k] /\ d = start[N]
    BY <1>3, <2>3
  <2>5. ~(k < i)
    <3>1. k < i => b <= a
      BY <1>2, <2>4
    <3>2. p \in Nat /\ q \in Nat
      BY <2>4
    <3> QED
      BY <1>4, <2>2, <2>4, <3>1, <3>2
  <2>6. p \in Nat /\ q \in Nat
    BY <2>4
  <2>7. i \in Nat /\ k \in Nat /\ p < q /\ i <= k
    BY <1>4, <2>5
  <2>8. p + 2 * i < q + 2 * k
    BY ONLY <2>6, <2>7
  <2> QED
    BY <2>1, <2>8
<1>5. ASSUME NEW i \in 1..N, NEW p \in (start[i - 1] + 1)..start[i] PROVE p \in 1..start[N] /\ at[p] = i
  <2>1. i - 1 \in 0..N /\ i \in 0..N /\ N \in i..N
    OBVIOUS
  <2>2. PICK a, b, d \in Nat : a = start[i - 1] /\ b = start[i] /\ d = start[N] /\ b <= d
    BY <1>3, <2>1 DEF Growing
  <2>3. a < p /\ p <= b /\ p \in 1..d
    BY <2>2
  <2>4. PICK k \in 1..N : k = at[p]
    BY <1>1, <2>2, <2>3
  <2>5. start[k - 1] < p /\ p <= start[k]
    BY <1>1, <2>2, <2>3, <2>4
  <2>6. k - 1 \in 0..N /\ k \in 0..N
    OBVIOUS
  <2>7. PICK x, y \in Nat : x = start[k - 1] /\ y = start[k]
    BY <1>3, <2>6
  <2>8. k < i => y <= a
    BY <1>2, <2>2, <2>7
  <2>9. i < k => b <= x
    BY <1>2, <2>2, <2>7
  <2>10. i = k
    BY <2>3, <2>5, <2>7, <2>8, <2>9
  <2> QED
    BY <2>2, <2>3, <2>4, <2>10
<1> QED
  BY <1>4, <1>5 DEF InOrder

\* The traces of a file count its payments through.
Numbered(file, start) ==
    \A i \in 1..Len(file.batches) : \A j \in 1..Len(file.batches[i]) :
        Traces(file, i)[j] = file.header.start + start[i - 1] + j - 1

\* The traces of a batch go on where those of the batches before it end.
LEMMA TracesAre ==
    ASSUME NEW file \in File
    PROVE  \E start : Starts(start, file.batches) /\ Numbered(file, start)
<1>1. PICK bs \in Seq(Seq(Entry)) : bs = file.batches
  BY DEF File
<1>2. PICK start : start = [i \in 0..Len(bs) |-> SumFunction([k \in 1..i |-> Len(bs[k])])]
  OBVIOUS
<1>3. Starts(start, bs)
  BY <1>2, StartsAre
<1>4. ASSUME NEW i \in 1..Len(bs), NEW j \in 1..Len(bs[i])
      PROVE  Traces(file, i)[j] = file.header.start + start[i - 1] + j - 1
  <2>1. DOMAIN file.batches[i] = 1..Len(bs[i])
    <3>1. bs[i] \in Seq(Entry)
      BY <1>1
    <3> QED
      BY <1>1, <3>1
  <2>2. start[i - 1] = SumFunction([k \in 1..(i - 1) |-> Len(file.batches[k])])
    <3>1. i - 1 \in 0..Len(bs)
      BY <1>1
    <3> QED
      BY <1>1, <1>2, <3>1
  <2>3. Traces(file, i) = [q \in 1..Len(bs[i]) |->
           file.header.start + SumFunction([k \in 1..(i - 1) |-> Len(file.batches[k])]) + q - 1]
    BY <2>1 DEF Traces
  <2> QED
    BY <2>2, <2>3
<1> QED
  BY <1>1, <1>3, <1>4 DEF Numbered

\* Number p of all is number p - c of the m after the first c.
LEMMA Offset ==
    ASSUME NEW c \in Nat, NEW m \in Nat, NEW p \in Nat, c < p, p <= c + m
    PROVE  p - c \in 1..m /\ p = c + (p - c)
  OBVIOUS

\* The entries read from a file are its payments, numbered through.
LEMMA PaymentsAre ==
    ASSUME NEW file \in File, Valid(file), NEW start, Starts(start, file.batches),
           Numbered(file, start), NEW P, NEW records \in Seq(P), NEW n, NEW b, Laid(file, records, start, n, b)
    PROVE  /\ FlattenSeq(file.batches) \in Seq(Entry)
           /\ Len(FlattenSeq(file.batches)) = start[Len(file.batches)]
           /\ OfType(records, "6") = [p \in 1..start[Len(file.batches)] |->
                 EntryDetail(FlattenSeq(file.batches)[p], file.header.start + p - 1)]
<1>1. PICK bs \in Seq(Seq(Entry)) : bs = file.batches
  BY DEF File
<1>2. Starts(start, bs)
  BY <1>1
<1>3. PICK N \in Nat : N = Len(bs) /\ \A i \in 1..N : bs[i] \in Seq(Entry)
  BY <1>1
<1>4. PICK pay \in Seq(Entry) : /\ pay = FlattenSeq(bs) /\ Len(pay) = start[N]
                                /\ \A i \in 1..N : \A j \in 1..Len(bs[i]) : pay[start[i - 1] + j] = bs[i][j]
  <2>1. /\ FlattenSeq(bs) \in Seq(Entry) /\ Len(FlattenSeq(bs)) = start[Len(bs)]
        /\ \A i \in 1..Len(bs) : \A j \in 1..Len(bs[i]) : FlattenSeq(bs)[start[i - 1] + j] = bs[i][j]
    BY <1>2, FlattenIs
  <2> QED
    BY <1>3, <2>1
<1>5. start \in [0..N -> Nat] /\ start[0] = 0 /\ \A i \in 1..N : start[i] = start[i - 1] + Len(bs[i])
  BY <1>2, <1>3 DEF Starts
<1>6. Growing(start, N)
  <2>1. \A q \in 1..Len(bs) : Len(bs[q]) \in Nat
    OBVIOUS
  <2>2. \A i \in 0..Len(bs) : \A k \in i..Len(bs) : start[i] <= start[k]
    BY <1>2, <2>1, StartsGrow
  <2> QED
    BY <1>3, <2>2 DEF Growing
<1>7. PICK at : Batched(at, start, N)
  BY <1>5, BatchedAt
<1>8. /\ \A p, q \in 1..start[N] : p < q => p + 2 * at[p] < q + 2 * at[q]
      /\ \A i \in 1..N : \A p \in (start[i - 1] + 1)..start[i] : p \in 1..start[N] /\ at[p] = i
  <2>1. start \in [0..N -> Nat] /\ start[0] = 0
    BY <1>5
  <2>2. InOrder(at, start, N)
    BY <2>1, <1>6, <1>7, BatchedInOrder
  <2> QED
    BY <2>2 DEF InOrder
<1>9. PICK M \in Nat : M = start[N]
  BY <1>4
<1>10. ASSUME NEW p \in 1..M
       PROVE  \E i \in 1..N : \E c, m \in Nat :
                /\ i = at[p] /\ c = start[i - 1] /\ m = Len(bs[i]) /\ start[i] = c + m
                /\ c < p /\ p <= c + m /\ c + m <= M
  <2>1. PICK i \in 1..N : i = at[p] /\ start[i - 1] < p /\ p <= start[i]
    BY <1>7, <1>9 DEF Batched
  <2>2. PICK c \in Nat : c = start[i - 1]
    <3>1. i - 1 \in 0..N
      OBVIOUS
    <3> QED
      BY <1>5, <3>1
  <2>3. PICK m \in Nat : m = Len(bs[i])
    BY <1>3
  <2>4. start[i] = c + m
    BY <1>5, <2>2, <2>3
  <2>5. start[i] <= start[N]
    <3>1. i \in 0..N /\ N \in i..N
      OBVIOUS
    <3> QED
      BY <1>6, <3>1 DEF Growing
  <2> QED
    BY <1>9, <2>1, <2>2, <2>3, <2>4, <2>5
<1>11. n \in Nat /\ Len(records) \in Nat /\ n + 1 <= Len(records) /\ n = M + 2 * N + 1
  <2>1. n \in Nat /\ Len(records) - n - 1 \in 0..(BlockSize - 1) /\ Len(records) \in Nat
    BY DEF Composed, Laid
  <2>2. n + 1 <= Len(records)
    BY <2>1
  <2> QED
    BY <1>1, <1>3, <1>9, <2>1, <2>2 DEF Laid
<1>12. PICK pos \in [1..M -> 1..Len(records)] : pos = [p \in 1..M |-> p + 2 * at[p]]
  <2>1. ASSUME NEW p \in 1..M PROVE p + 2 * at[p] \in 1..Len(records)
    <3>1. PICK i \in 1..N : \E c, m \in Nat :
                /\ i = at[p] /\ c = start[i - 1] /\ m = Len(bs[i]) /\ start[i] = c + m
                /\ c < p /\ p <= c + m /\ c + m <= M
      BY <1>10
    <3>2. PICK c, m \in Nat : i = at[p] /\ c < p /\ p <= c + m /\ c + m <= M
      BY <3>1
    <3>3. p \in (c + 1)..(c + m)
      BY <3>2
    <3>4. p + 2 * i <= M + 2 * N + 1
      BY <3>2, <3>3, Fits
    <3> QED
      BY <1>11, <3>2, <3>4
  <2> QED
    BY <2>1
<1>13. \A j, k \in 1..M : j < k => pos[j] < pos[k]
  BY <1>8, <1>9, <1>12
<1>14. \A k \in 1..Len(records) : records[k].type = "6" <=> \E p \in 1..M : pos[p] = k
  <2>1. \A k \in 1..Len(records) :
           records[k].type = "6" <=> \E i \in 1..N : \E p \in (start[i - 1] + 1)..start[i] : k = p + 2 * i
    <3>1. N = Len(file.batches) /\ Starts(start, file.batches)
      BY <1>1, <1>2, <1>3
    <3>2. Sorted(records, start, N, n)
      BY <3>1, Kinds
    <3> QED
      BY <3>2 DEF Sorted
  <2>2. ASSUME NEW k \in 1..Len(records), NEW i \in 1..N, NEW p \in (start[i - 1] + 1)..start[i], k = p + 2 * i
        PROVE  p \in 1..M /\ pos[p] = k
    BY <1>8, <1>9, <1>12, <2>2
  <2>3. ASSUME NEW k \in 1..Len(records), NEW p \in 1..M, pos[p] = k
        PROVE  \E i \in 1..N : \E q \in (start[i - 1] + 1)..start[i] : k = q + 2 * i
    <3>1. PICK i \in 1..N : \E c, m \in Nat :
                /\ i = at[p] /\ c = start[i - 1] /\ m = Len(bs[i]) /\ start[i] = c + m
                /\ c < p /\ p <= c + m /\ c + m <= M
      BY <1>10
    <3>2. p \in (start[i - 1] + 1)..start[i]
      BY <3>1
    <3> QED
      BY <1>12, <2>3, <3>1, <3>2
  <2> QED
    BY <2>1, <2>2, <2>3
<1>15. OfType(records, "6") = [p \in 1..M |-> records[pos[p]]]
  <2>1. Stand(records, "6", M, pos)
    <3>1. pos \in [1..M -> 1..Len(records)]
      OBVIOUS
    <3> QED
      BY <3>1, <1>13, <1>14 DEF Stand
  <2> QED
    <3>1. PICK type : type = "6"
      OBVIOUS
    <3>2. records \in Seq(P) /\ M \in Nat /\ Stand(records, type, M, pos)
      BY <2>1, <3>1
    <3>3. OfType(records, type) = [k \in 1..M |-> records[pos[k]]]
      BY ONLY <3>2, SelectIs
    <3> QED
      BY <3>1, <3>3
<1>16. ASSUME NEW p \in 1..M PROVE records[pos[p]] = EntryDetail(pay[p], file.header.start + p - 1)
  <2>1. PICK i \in 1..N : \E c, m \in Nat :
              /\ i = at[p] /\ c = start[i - 1] /\ m = Len(bs[i]) /\ start[i] = c + m
              /\ c < p /\ p <= c + m /\ c + m <= M
    BY <1>10
  <2>2. PICK c, m \in Nat :
              /\ i = at[p] /\ c = start[i - 1] /\ m = Len(bs[i]) /\ start[i] = c + m
              /\ c < p /\ p <= c + m /\ c + m <= M
    BY <2>1
  <2>3. PICK j \in 1..m : j = p - c /\ p = c + j
    <3>1. c \in Nat /\ m \in Nat /\ p \in Nat /\ c < p /\ p <= c + m
      BY <2>2
    <3>2. p - c \in 1..m /\ p = c + (p - c)
      BY <3>1, Offset
    <3> QED
      BY <3>2
  <2>4. records[c + 2 * i + j] = EntryDetail(bs[i][j], Traces(file, i)[j])
    <3>1. i \in 1..Len(file.batches) /\ j \in 1..Len(file.batches[i])
      BY <1>1, <1>3, <2>2
    <3>2. records[start[i - 1] + 2 * i + j] = EntryDetail(file.batches[i][j], Traces(file, i)[j])
      BY <3>1 DEF Laid
    <3> QED
      BY <1>1, <2>2, <3>2
  <2>5. c + 2 * i + j = pos[p]
    <3>1. pos[p] = p + 2 * i
      BY <1>12, <2>2
    <3>2. c + 2 * i + j = (c + j) + 2 * i
      OBVIOUS
    <3> QED
      BY <2>3, <3>1, <3>2
  <2>6. bs[i][j] = pay[p]
    BY <1>4, <2>2, <2>3
  <2>7. Traces(file, i)[j] = file.header.start + p - 1
    <3>1. i \in 1..Len(file.batches) /\ j \in 1..Len(file.batches[i])
      BY <1>1, <1>3, <2>2
    <3>2. Traces(file, i)[j] = file.header.start + start[i - 1] + j - 1
      BY <3>1 DEF Numbered
    <3>3. PICK h \in Int : h = file.header.start
      BY DEF File, Heading
    <3>4. h + c + j - 1 = h + p - 1
      BY <2>3
    <3> QED
      BY <2>2, <3>2, <3>3, <3>4
  <2> QED
    BY <2>4, <2>5, <2>6, <2>7
<1>17. OfType(records, "6") = [p \in 1..M |-> EntryDetail(pay[p], file.header.start + p - 1)]
  BY <1>15, <1>16
<1> QED
  BY <1>1, <1>3, <1>4, <1>9, <1>17

\* A number that fits is written as it is.
LEMMA NumberIs ==
    ASSUME NEW w \in 0..12, NEW x \in Nat, x < Limit[w]
    PROVE  Number(x, w) = x
<1>1. PICK L \in Nat \ {0} : L = Limit[w]
  BY LimitIs
<1>2. x % L = x
  BY <1>1
<1> QED
  BY <1>1, <1>2 DEF Number

\* Six digits hold less than seven, seven less than eight.
LEMMA SixDigits == Limit[6] \in Nat /\ Limit[6] <= Limit[7] /\ Limit[7] <= Limit[8] /\ Limit[6] <= Limit[8]
<1>1. 7 \in 1..12 /\ 8 \in 1..12 /\ 7 - 1 = 6 /\ 8 - 1 = 7 /\ 6 \in 0..12 /\ 7 \in 0..12 /\ 8 \in 0..12
  OBVIOUS
<1>2. PICK x, y, z \in Nat : x = Limit[6] /\ y = Limit[7] /\ z = Limit[8]
  BY <1>1, LimitIs
<1>3. x <= y /\ y <= z
  BY <1>1, <1>2, LimitsGrow
<1> QED
  BY <1>2, <1>3

\* A batch is the m payments after the first c, of d.
Within(file, start, i, c, m, d) ==
    c = start[i - 1] /\ m = Len(file.batches[i]) /\ start[i] = c + m /\ d = start[Len(file.batches)] /\ c + m <= d

\* Where a batch begins and how long it is.
LEMMA BatchIs ==
    ASSUME NEW file \in File, NEW start, Starts(start, file.batches), NEW i \in 1..Len(file.batches)
    PROVE  \E c, m, d \in Nat : Within(file, start, i, c, m, d)
<1>1. PICK bs \in Seq(Seq(Entry)) : bs = file.batches
  BY DEF File
<1>2. PICK N \in Nat : N = Len(bs)
  OBVIOUS
<1>3. start \in [0..N -> Nat] /\ start[i] = start[i - 1] + Len(bs[i])
  BY <1>1, <1>2 DEF Starts
<1>4. i \in 1..N /\ i - 1 \in 0..N /\ i \in 0..N /\ N \in i..N /\ N \in 0..N
  BY <1>1, <1>2
<1>5. PICK m \in Nat : m = Len(bs[i])
  <2>1. bs[i] \in Seq(Entry)
    BY <1>2, <1>4
  <2> QED
    BY <2>1
<1>6. PICK c, d \in Nat : c = start[i - 1] /\ d = start[N]
  BY <1>3, <1>4
<1>7. start[i] <= start[N]
  <2>1. \A q \in 1..Len(bs) : Len(bs[q]) \in Nat
    OBVIOUS
  <2>2. \A a \in 0..Len(bs) : \A k \in a..Len(bs) : start[a] <= start[k]
    BY <1>1, <2>1, StartsGrow
  <2> QED
    BY <1>2, <1>4, <2>2
<1> QED
  BY <1>1, <1>2, <1>3, <1>5, <1>6, <1>7 DEF Within

\* A later batch that begins no earlier has its lines later.
LEMMA Later ==
    ASSUME NEW x \in Nat, NEW y \in Nat, NEW i \in Nat, NEW k \in Nat, x <= y, i < k
    PROVE  x + 2 * i + 1 < y + 2 * k + 1
  OBVIOUS

\* What is read as the controls.
Closings(file, records, b) ==
    /\ OfType(records, "8") = [i \in 1..Len(file.batches) |-> BatchControl(file.batches[i], i)]
    /\ OfType(records, "9")[1] = FileControl(file.batches, b)

\* The controls of a file: that of each batch, in order, and that of the file.
LEMMA ControlsAre ==
    ASSUME NEW file \in File, NEW start, Starts(start, file.batches), NEW P, NEW records \in Seq(P),
           NEW n, NEW b, Laid(file, records, start, n, b)
    PROVE  Closings(file, records, b)
<1>1. PICK N \in Nat : N = Len(file.batches)
  <2>1. file.batches \in Seq(Seq(Entry))
    BY DEF File
  <2> QED
    BY <2>1
<1>2. Sorted(records, start, N, n)
  BY <1>1, Kinds
<1>3. n \in Nat /\ Len(records) \in Nat /\ n + 1 <= Len(records) /\ n = start[N] + 2 * N + 1
  <2>1. n \in Nat /\ Len(records) - n - 1 \in 0..(BlockSize - 1) /\ Len(records) \in Nat
    BY DEF Composed, Laid
  <2>2. n + 1 <= Len(records)
    BY <2>1
  <2> QED
    BY <1>1, <2>1, <2>2 DEF Laid
<1>4. ASSUME NEW i \in 1..N PROVE start[i] \in Nat /\ start[i] + 2 * i + 1 \in 1..Len(records)
  <2>1. PICK c, m, d \in Nat : start[i] = c + m /\ d = start[N] /\ c + m <= d
    <3>1. i \in 1..Len(file.batches)
      BY <1>1
    <3>2. \E c, m, d \in Nat : Within(file, start, i, c, m, d)
      BY <3>1, BatchIs
    <3> QED
      BY <1>1, <3>2 DEF Within
  <2>2. c + m + 2 * i + 1 <= d + 2 * N + 1
    BY <2>1, Fits
  <2> QED
    BY <1>3, <2>1, <2>2
<1>5. ASSUME NEW i \in 1..N, NEW k \in 1..N, i < k PROVE start[i] <= start[k]
  <2>1. file.batches \in Seq(Seq(Entry))
    BY DEF File
  <2>2. \A q \in 1..Len(file.batches) : Len(file.batches[q]) \in Nat
    BY <2>1
  <2>3. i \in 0..Len(file.batches) /\ k \in i..Len(file.batches)
    BY <1>1, <1>5
  <2> QED
    BY <2>1, <2>2, <2>3, StartsGrow
<1>6. OfType(records, "8") = [i \in 1..N |-> BatchControl(file.batches[i], i)]
  <2>1. PICK pos \in [1..N -> 1..Len(records)] : pos = [i \in 1..N |-> start[i] + 2 * i + 1]
    BY <1>4
  <2>2. \A i, k \in 1..N : i < k => pos[i] < pos[k]
    <3> SUFFICES ASSUME NEW i \in 1..N, NEW k \in 1..N, i < k PROVE pos[i] < pos[k]
      OBVIOUS
    <3>1. PICK x, y \in Nat : x = start[i] /\ y = start[k] /\ x <= y
      BY <1>4, <1>5
    <3>2. x + 2 * i + 1 < y + 2 * k + 1
      <4>1. i \in Nat /\ k \in Nat
        OBVIOUS
      <4> QED
        BY <3>1, <4>1, Later
    <3> QED
      BY <2>1, <3>1, <3>2
  <2>3. PICK type : type = "8"
    OBVIOUS
  <2>4. \A k \in 1..Len(records) : records[k].type = type <=> \E i \in 1..N : pos[i] = k
    BY <1>2, <2>1, <2>3 DEF Sorted
  <2>5. Stand(records, type, N, pos)
    <3>1. pos \in [1..N -> 1..Len(records)]
      OBVIOUS
    <3> QED
      BY <2>2, <2>4, <3>1 DEF Stand
  <2>6. OfType(records, type) = [i \in 1..N |-> records[pos[i]]]
    <3>1. records \in Seq(P) /\ N \in Nat
      OBVIOUS
    <3> QED
      BY ONLY <2>5, <3>1, SelectIs
  <2>7. \A i \in 1..N : records[pos[i]] = BatchControl(file.batches[i], i)
    BY <1>1, <2>1 DEF Laid
  <2> QED
    BY <2>3, <2>6, <2>7
<1>7. OfType(records, "9")[1] = FileControl(file.batches, b)
  <2>1. PICK pos \in [1..1 -> 1..Len(records)] : pos = [i \in 1..1 |-> n + 1]
    <3>1. PICK x : x = n + 1
      OBVIOUS
    <3>2. x \in 1..Len(records)
      BY <1>3, <3>1
    <3>3. [i \in 1..1 |-> x] \in [1..1 -> 1..Len(records)]
      BY <3>2
    <3> QED
      BY <3>1, <3>3
  <2>2. PICK type : type = "9"
    OBVIOUS
  <2>3. \A k \in 1..Len(records) : records[k].type = type <=> \E i \in 1..1 : pos[i] = k
    BY <1>2, <2>1, <2>2 DEF Sorted
  <2>4. Stand(records, type, 1, pos)
    <3>1. pos \in [1..1 -> 1..Len(records)] /\ \A j, k \in 1..1 : ~(j < k)
      OBVIOUS
    <3> QED
      BY <2>3, <3>1 DEF Stand
  <2>5. OfType(records, type) = [i \in 1..1 |-> records[pos[i]]]
    <3>1. records \in Seq(P) /\ 1 \in Nat
      OBVIOUS
    <3> QED
      BY ONLY <2>4, <3>1, SelectIs
  <2>6. records[n + 1] = FileControl(file.batches, b)
    BY DEF Laid, Composed
  <2> QED
    BY <2>1, <2>2, <2>5, <2>6
<1> QED
  BY <1>1, <1>6, <1>7 DEF Closings

\* Part of a sequence.
LEMMA PartIs ==
    ASSUME NEW D, NEW ds \in Seq(D), NEW a \in Nat, NEW m \in Nat, a + m <= Len(ds)
    PROVE  SubSeq(ds, a + 1, a + m) = [j \in 1..m |-> ds[a + j]]
<1>1. PICK l \in Nat : l = Len(ds) /\ ds \in [1..l -> D]
  OBVIOUS
<1>2. \A k \in (a + 1)..(a + m) : ds[k] \in D
  BY <1>1
<1>3. SubSeq(ds, a + 1, a + m) \in Seq(D)
  BY <1>1, <1>2
<1>4. PICK t \in Seq(D) : t = SubSeq(ds, a + 1, a + m)
  BY <1>3
<1>5. Len(t) = m
  BY <1>1, <1>4
<1>6. \A j \in 1..m : t[j] = ds[a + j]
  BY <1>1, <1>4, <1>5
<1>7. t \in [1..m -> D]
  BY <1>5
<1>8. t = [j \in 1..m |-> t[j]]
  BY <1>7
<1> QED
  BY <1>4, <1>6, <1>8

\* What is read as the payments of a batch.
Between(file, records, i) ==
    EntriesOf(records, i) = [j \in 1..Len(file.batches[i]) |->
        EntryDetail(file.batches[i][j], Traces(file, i)[j])]

\* Between the header of a batch and its control, found by their number, are its payments.
LEMMA EntriesAre ==
    ASSUME NEW file \in File, NEW start, Starts(start, file.batches), NEW P, NEW records \in Seq(P),
           NEW n, NEW b, Laid(file, records, start, n, b), Len(file.batches) < Limit[7],
           NEW i \in 1..Len(file.batches)
    PROVE  Between(file, records, i)
<1>1. PICK N \in Nat : N = Len(file.batches) /\ i \in 1..N /\ N < Limit[7]
  <2>1. file.batches \in Seq(Seq(Entry))
    BY DEF File
  <2> QED
    BY <2>1
<1>2. ASSUME NEW k \in 1..N PROVE Number(k, 7) = k
  <2>1. PICK L \in Nat : L = Limit[7]
    BY FieldLimits
  <2>2. 7 \in 0..12 /\ k \in Nat /\ k < Limit[7]
    BY <1>1, <2>1
  <2> QED
    BY <2>2, NumberIs
<1>3. Sorted(records, start, N, n)
  BY <1>1, Kinds
<1>4. ASSUME NEW k \in 1..N
      PROVE  /\ records[start[k - 1] + 2 * k].batch = k
             /\ records[start[k] + 2 * k + 1].batch = k
  <2>1. /\ records[start[k - 1] + 2 * k] = BatchHeader(file.header, k)
        /\ records[start[k] + 2 * k + 1] = BatchControl(file.batches[k], k)
    BY <1>1 DEF Laid
  <2> QED
    BY <1>2, <2>1 DEF BatchHeader, BatchControl
<1>5. DOMAIN records = 1..Len(records)
  OBVIOUS
<1>6. PICK c, m, d \in Nat : /\ c = start[i - 1] /\ m = Len(file.batches[i]) /\ start[i] = c + m
                             /\ d = start[N] /\ c + m <= d
  <2>1. \E c, m, d \in Nat : Within(file, start, i, c, m, d)
    BY BatchIs
  <2> QED
    BY <1>1, <2>1 DEF Within
<1>7. PICK l \in Nat : l = Len(records) /\ d + 2 * N + 1 <= l
  <2>1. n \in Nat /\ Len(records) - n - 1 \in 0..(BlockSize - 1) /\ Len(records) \in Nat
    BY DEF Composed, Laid
  <2>2. n = d + 2 * N + 1
    BY <1>1, <1>6 DEF Laid
  <2>3. n <= Len(records)
    BY <2>1
  <2> QED
    BY <2>1, <2>2, <2>3
<1>8. c + 2 * i \in 1..l /\ c + m + 2 * i + 1 \in 1..l
  <2>1. c + 2 * i <= d + 2 * N + 1 /\ c + m + 2 * i + 1 <= d + 2 * N + 1
    BY <1>1, <1>6, Fits
  <2>2. PICK z \in Nat : z = d + 2 * N + 1 /\ z <= l
    BY <1>7
  <2>3. PICK x, y \in Nat : x = c + 2 * i /\ y = c + m + 2 * i + 1 /\ x >= 1 /\ y >= 1
    BY <1>1
  <2>4. x <= z /\ y <= z
    BY <2>1, <2>2, <2>3
  <2>5. x \in 1..l /\ y \in 1..l
    BY <2>2, <2>3, <2>4
  <2> QED
    BY <2>3, <2>5
<1>9. ASSUME NEW k \in 1..l, records[k].type = "5", records[k].batch = i PROVE k = c + 2 * i
  <2>1. PICK q \in 1..N : k = start[q - 1] + 2 * q
    BY <1>3, <1>7, <1>9 DEF Sorted
  <2>2. q = i
    BY <1>4, <1>9, <2>1
  <2> QED
    BY <1>6, <2>1, <2>2
<1>10. ASSUME NEW k \in 1..l, records[k].type = "8", records[k].batch = i PROVE k = c + m + 2 * i + 1
  <2>1. PICK q \in 1..N : k = start[q] + 2 * q + 1
    BY <1>3, <1>7, <1>10 DEF Sorted
  <2>2. q = i
    BY <1>4, <1>10, <2>1
  <2> QED
    BY <1>6, <2>1, <2>2
<1>11. /\ records[c + 2 * i].type = "5" /\ records[c + 2 * i].batch = i
       /\ records[c + m + 2 * i + 1].type = "8" /\ records[c + m + 2 * i + 1].batch = i
  <2>1. \E q \in 1..N : c + 2 * i = start[q - 1] + 2 * q
    BY <1>1, <1>6
  <2>2. \E q \in 1..N : c + m + 2 * i + 1 = start[q] + 2 * q + 1
    BY <1>1, <1>6
  <2>3. records[c + 2 * i].type = "5"
    BY <1>3, <1>7, <1>8, <2>1 DEF Sorted
  <2>4. records[c + m + 2 * i + 1].type = "8"
    BY <1>3, <1>7, <1>8, <2>2 DEF Sorted
  <2> QED
    BY <1>1, <1>4, <1>6, <2>3, <2>4
<1> DEFINE At(type) == CHOOSE k \in DOMAIN records : records[k].type = type /\ records[k].batch = i
<1>12. At("5") = c + 2 * i
  BY <1>5, <1>7, <1>8, <1>9, <1>11
<1>13. At("8") = c + m + 2 * i + 1
  BY <1>5, <1>7, <1>8, <1>10, <1>11
<1>14. EntriesOf(records, i) = SubSeq(records, At("5") + 1, At("8") - 1)
  BY DEF EntriesOf
<1> HIDE DEF At
<1>15. PICK a \in Nat : a = c + 2 * i
  BY <1>1
<1>16. At("5") + 1 = a + 1 /\ At("8") - 1 = a + m
  BY <1>1, <1>12, <1>13, <1>15
<1>17. a + m <= Len(records)
  BY <1>1, <1>7, <1>8, <1>15
<1>18. SubSeq(records, a + 1, a + m) = [j \in 1..m |-> records[a + j]]
  BY <1>17, PartIs
<1>19. \A j \in 1..m : records[a + j] = EntryDetail(file.batches[i][j], Traces(file, i)[j])
  <2> SUFFICES ASSUME NEW j \in 1..m
               PROVE  records[a + j] = EntryDetail(file.batches[i][j], Traces(file, i)[j])
    OBVIOUS
  <2>1. records[start[i - 1] + 2 * i + j] = EntryDetail(file.batches[i][j], Traces(file, i)[j])
    BY <1>6 DEF Laid
  <2> QED
    BY <1>6, <1>15, <2>1
<1> QED
  BY <1>6, <1>14, <1>16, <1>18, <1>19 DEF Between

\* The counts and totals of some payments.
Total(es) == SumFunction([j \in DOMAIN es |-> es[j].cents])

\* A control that states the counts and totals of some payments is confirmed by their lines,
\* when no amount, and neither the count nor the sum, outgrows its field.
LEMMA Confirmed ==
    ASSUME NEW es \in Seq(Entry), NEW t, \A j \in DOMAIN es : es[j].cents \in 1..(Limit[10] - 1),
           NEW w \in 0..12, Len(es) < Limit[w], Total(es) \in Nat, Total(es) < Limit[12],
           NEW control, control.count = Number(Controls(es).count, w),
           control.hash = Number(Controls(es).hash, 10), control.credit = Number(Controls(es).credit, 12),
           NEW rs, rs = [j \in 1..Len(es) |-> EntryDetail(es[j], t[j])]
    PROVE  Confirms(control, rs)
<1>1. DOMAIN es = 1..Len(es) /\ DOMAIN rs = 1..Len(es) /\ Len(es) \in Nat
  OBVIOUS
<1>2. \A j \in 1..Len(es) : rs[j].dfi = Dfi(es[j]) /\ rs[j].amount = Number(es[j].cents, 10)
  BY DEF EntryDetail
<1>3. \A j \in 1..Len(es) : rs[j].amount = es[j].cents
  <2> SUFFICES ASSUME NEW j \in 1..Len(es) PROVE rs[j].amount = es[j].cents
    OBVIOUS
  <2>1. PICK L \in Nat : L = Limit[10]
    BY FieldLimits
  <2>2. es[j].cents \in 1..(L - 1)
    BY <1>1, <2>1
  <2>3. es[j].cents \in Nat /\ es[j].cents < Limit[10] /\ 10 \in 0..12
    BY <2>1, <2>2
  <2>4. Number(es[j].cents, 10) = es[j].cents
    BY <2>3, NumberIs
  <2> QED
    BY <1>2, <2>4
<1>4. Len(rs) = Len(es)
  <2>1. rs \in [1..Len(es) -> {rs[j] : j \in 1..Len(es)}]
    OBVIOUS
  <2>2. rs \in Seq({rs[j] : j \in 1..Len(es)})
    BY <1>1, <2>1
  <2> QED
    BY <1>1, <2>2
<1>5. control.count = Len(es)
  <2>1. Controls(es).count = Len(es)
    BY DEF Controls
  <2> QED
    BY <1>1, <2>1, NumberIs
<1>6. control.hash = SumFunction([j \in DOMAIN rs |-> rs[j].dfi]) % Limit[10]
  <2>1. [j \in DOMAIN rs |-> rs[j].dfi] = [j \in DOMAIN es |-> Dfi(es[j])]
    BY <1>1, <1>2
  <2>2. Controls(es).hash = SumFunction([j \in DOMAIN es |-> Dfi(es[j])])
    BY DEF Controls
  <2> QED
    BY <2>1, <2>2 DEF Number
<1>7. control.credit = SumFunction([j \in DOMAIN rs |-> rs[j].amount])
  <2>1. [j \in DOMAIN rs |-> rs[j].amount] = [j \in DOMAIN es |-> es[j].cents]
    BY <1>1, <1>3
  <2>2. Controls(es).credit = Total(es)
    BY DEF Controls, Total
  <2>3. 12 \in 0..12
    OBVIOUS
  <2>4. Number(Total(es), 12) = Total(es)
    BY <2>3, NumberIs
  <2> QED
    BY <2>1, <2>2, <2>4 DEF Total
<1> QED
  BY <1>4, <1>5, <1>6, <1>7 DEF Confirms

\* A payment of an amount that fits its field.
Payable == {e \in Entry : e.cents \in 1..(Limit[10] - 1)}

\* The payments of a valid file can be paid: they have amounts that fit, no batch is empty.
LEMMA ValidBatches ==
    ASSUME NEW file \in File, Valid(file)
    PROVE  /\ file.batches \in Seq(Seq(Payable))
           /\ \A i \in 1..Len(file.batches) : file.batches[i] # <<>>
<1>1. PICK bs \in Seq(Seq(Entry)) : bs = file.batches
  BY DEF File
<1>2. \A i \in DOMAIN bs : bs[i] # <<>> /\ \A j \in DOMAIN bs[i] : EntryValid(bs[i][j])
  BY <1>1 DEF Valid
<1>3. ASSUME NEW i \in 1..Len(bs) PROVE bs[i] \in Seq(Payable)
  <2>1. PICK es \in Seq(Entry) : es = bs[i]
    OBVIOUS
  <2>2. \A j \in 1..Len(es) : es[j] \in Payable
    BY <1>2, <2>1 DEF Payable, EntryValid
  <2>3. es \in Seq(Payable)
    BY <2>2
  <2> QED
    BY <2>1, <2>3
<1>4. bs \in Seq(Seq(Payable))
  BY <1>3
<1> QED
  BY <1>1, <1>2, <1>4

\* There are no more batches than payments.
LEMMA FewBatches ==
    ASSUME NEW D, NEW ss \in Seq(Seq(D)), \A i \in 1..Len(ss) : ss[i] # <<>>,
           NEW start, Starts(start, ss)
    PROVE  Len(ss) <= start[Len(ss)]
<1>1. PICK N \in Nat : N = Len(ss)
  OBVIOUS
<1>2. start \in [0..N -> Nat] /\ start[0] = 0 /\ \A i \in 1..N : start[i] = start[i - 1] + Len(ss[i])
  BY <1>1 DEF Starts
<1>3. PICK G : G = {i \in 0..N : i <= start[i]}
  OBVIOUS
<1>4. 0 \in G
  BY <1>2, <1>3
<1>5. ASSUME NEW i \in 0..N, i \in G, i + 1 \in 0..N PROVE i + 1 \in G
  <2>1. i + 1 \in 1..Len(ss) /\ (i + 1) - 1 = i
    BY <1>1, <1>5
  <2>2. PICK s \in Seq(D) : s = ss[i + 1] /\ s # <<>>
    BY <2>1
  <2>3. PICK m \in Nat : m = Len(s) /\ m # 0
    BY <2>2
  <2>4. PICK a \in Nat : a = start[i] /\ i <= a
    BY <1>2, <1>3, <1>5
  <2>5. start[i + 1] = a + m
    BY <1>1, <1>2, <2>1, <2>2, <2>3, <2>4
  <2>6. i + 1 <= a + m
    BY <2>3, <2>4
  <2> QED
    BY <1>3, <1>5, <2>5, <2>6
<1>6. \A i \in 0..N : i \in G
  BY <1>4, <1>5, Upwards
<1> QED
  BY <1>1, <1>3, <1>6

\* What the theorem is about: payments fewer than a field counts, and their total.
Countable(pay) == Len(pay) < Limit[6] /\ Total(pay) \in Nat /\ Total(pay) < Limit[12]

\* The control of a batch is confirmed by the lines of its payments.
LEMMA BatchConfirmed ==
    ASSUME NEW pay \in Seq(Payable), Countable(pay), NEW es \in Seq(Payable), NEW c \in Nat,
           c + Len(es) <= Len(pay), \A j \in 1..Len(es) : pay[c + j] = es[j], NEW i, NEW t
    PROVE  Confirms(BatchControl(es, i), [j \in 1..Len(es) |-> EntryDetail(es[j], t[j])])
<1>1. PICK m, M \in Nat : m = Len(es) /\ M = Len(pay) /\ c + m <= M
  OBVIOUS
<1>2. PICK f \in [1..M -> Nat] : f = [p \in 1..M |-> pay[p].cents]
  <2>1. ASSUME NEW p \in 1..M PROVE pay[p].cents \in Nat
    <3>1. pay[p] \in Payable
      BY <1>1
    <3>2. PICK L \in Nat : L = Limit[10]
      BY FieldLimits
    <3> QED
      BY <3>1, <3>2 DEF Payable
  <2> QED
    BY <2>1
<1>3. DOMAIN pay = 1..M /\ DOMAIN es = 1..m
  BY <1>1
<1>4. Total(pay) = SumFunction(f)
  BY <1>2, <1>3 DEF Total
<1>5. PICK g \in [1..m -> Nat] : g = [j \in 1..m |-> es[j].cents] /\ g = [j \in 1..m |-> f[c + j]]
  <2>1. ASSUME NEW j \in 1..m PROVE c + j \in 1..M /\ f[c + j] = es[j].cents /\ f[c + j] \in Nat
    <3>1. c + j \in 1..M
      BY <1>1
    <3>2. pay[c + j] = es[j]
      BY <1>1
    <3> QED
      BY <1>2, <3>1, <3>2
  <2>2. [j \in 1..m |-> es[j].cents] = [j \in 1..m |-> f[c + j]]
    BY <2>1
  <2>3. [j \in 1..m |-> f[c + j]] \in [1..m -> Nat]
    BY <2>1
  <2> QED
    BY <2>2, <2>3
<1>6. Total(es) = SumFunction(g)
  BY <1>3, <1>5 DEF Total
<1>7. Total(es) \in Nat
  <2>1. PICK D : D = 1..m
    OBVIOUS
  <2>2. IsFiniteSet(1..m)
    BY FS_Interval
  <2>3. IsFiniteSet(D) /\ g \in [D -> Nat]
    BY <2>1, <2>2
  <2> QED
    BY <1>6, <2>3, SumNatural
<1>8. Total(es) <= Total(pay)
  <2>1. SumFunction([j \in 1..m |-> f[c + j]]) <= SumFunction(f)
    BY <1>1, SumOfSlice
  <2> QED
    BY <1>4, <1>5, <1>6, <2>1
<1>9. 6 \in 0..12 /\ Len(es) < Limit[6] /\ Total(es) < Limit[12]
  <2>1. PICK x, y \in Nat : x = Limit[6] /\ y = Limit[12]
    BY FieldLimits
  <2>2. PICK u, v \in Nat : u = Total(pay) /\ v = Total(es) /\ v <= u /\ u < y /\ M < x
    BY <1>1, <1>7, <1>8, <2>1 DEF Countable
  <2> QED
    BY <1>1, <2>1, <2>2
<1>10. es \in Seq(Entry) /\ \A j \in DOMAIN es : es[j].cents \in 1..(Limit[10] - 1)
  <2>1. \A j \in 1..m : es[j] \in Entry /\ es[j].cents \in 1..(Limit[10] - 1)
    BY <1>1 DEF Payable
  <2>2. es \in Seq(Entry)
    BY <1>1, <2>1
  <2> QED
    BY <1>3, <2>1, <2>2
<1>11. PICK control : control = BatchControl(es, i)
  OBVIOUS
<1>12. /\ control.count = Number(Controls(es).count, 6) /\ control.hash = Number(Controls(es).hash, 10)
       /\ control.credit = Number(Controls(es).credit, 12)
  BY <1>11 DEF BatchControl
<1>13. PICK rs : rs = [j \in 1..Len(es) |-> EntryDetail(es[j], t[j])]
  OBVIOUS
<1>14. Confirms(control, rs)
  BY <1>7, <1>9, <1>10, <1>12, <1>13, Confirmed
<1> QED
  BY <1>11, <1>13, <1>14

\* The control of the file is confirmed by the lines of all.
LEMMA FileConfirmed ==
    ASSUME NEW batches, NEW pay \in Seq(Payable), pay = FlattenSeq(batches), Countable(pay), NEW b, NEW t
    PROVE  Confirms(FileControl(batches, b), [p \in 1..Len(pay) |-> EntryDetail(pay[p], t[p])])
<1>1. PICK es \in Seq(Payable) : es = pay
  OBVIOUS
<1>2. PICK M \in Nat : M = Len(es) /\ DOMAIN es = 1..M
  OBVIOUS
<1>3. es \in Seq(Entry) /\ \A j \in DOMAIN es : es[j].cents \in 1..(Limit[10] - 1)
  <2>1. \A j \in 1..M : es[j] \in Entry /\ es[j].cents \in 1..(Limit[10] - 1)
    BY <1>2 DEF Payable
  <2>2. es \in Seq(Entry)
    BY <1>2, <2>1
  <2> QED
    BY <1>2, <2>1, <2>2
<1>4. 8 \in 0..12 /\ Len(es) < Limit[8] /\ Total(es) \in Nat /\ Total(es) < Limit[12]
  <2>1. Len(es) < Limit[6] /\ Total(es) \in Nat /\ Total(es) < Limit[12]
    BY <1>1 DEF Countable
  <2>2. PICK x, y \in Nat : x = Limit[6] /\ y = Limit[8] /\ x <= y
    BY SixDigits, FieldLimits
  <2> QED
    BY <1>2, <2>1, <2>2
<1>5. PICK control : control = FileControl(batches, b)
  OBVIOUS
<1>6. /\ control.count = Number(Controls(es).count, 8) /\ control.hash = Number(Controls(es).hash, 10)
      /\ control.credit = Number(Controls(es).credit, 12)
  BY <1>1, <1>5 DEF FileControl
<1>7. PICK rs : rs = [j \in 1..Len(es) |-> EntryDetail(es[j], t[j])]
  OBVIOUS
<1>8. Confirms(control, rs)
  BY <1>3, <1>4, <1>6, <1>7, Confirmed
<1> QED
  BY <1>1, <1>5, <1>7, <1>8

\* Numbered through from h, fewer payments than a field counts have traces that differ.
LEMMA TracesDiffer ==
    ASSUME NEW h \in Int, NEW M \in Nat, M < Limit[6], NEW i \in 1..M, NEW j \in 1..M, i # j
    PROVE  Number(h + i - 1, 7) # Number(h + j - 1, 7)
<1>1. PICK x, K \in Nat : x = Limit[6] /\ K = Limit[7] /\ x <= K /\ K # 0
  BY FieldLimits, SixDigits
<1>2. PICK u, v \in Int : u = h + i - 1 /\ v = h + j - 1
  OBVIOUS
<1>3. u # v /\ u - v < K /\ v - u < K
  BY <1>1, <1>2
<1>4. K \in Nat \ {0}
  BY <1>1
<1>5. u % K # v % K
  <2>1. u < v => u % K # v % K
    BY <1>3, <1>4, ModsDiffer
  <2>2. v < u => v % K # u % K
    BY <1>3, <1>4, ModsDiffer
  <2> QED
    BY <1>3, <2>1, <2>2
<1> QED
  BY <1>1, <1>2, <1>5 DEF Number

\* The lines of some payments, numbered from h.
Numbers(rs, pay, h) == rs = [p \in 1..Len(pay) |-> EntryDetail(pay[p], h + p - 1)]

\* What of the theorem is about the lines: amounts and traces.
LEMMA LinesReadBack ==
    ASSUME NEW h \in Int, NEW pay \in Seq(Payable), Len(pay) < Limit[6], NEW rs,
           Numbers(rs, pay, h)
    PROVE  /\ [i \in DOMAIN rs |-> rs[i].amount] = [i \in DOMAIN pay |-> pay[i].cents]
           /\ \A i, j \in DOMAIN rs : i # j => rs[i].trace # rs[j].trace
<1>1. PICK M \in Nat : M = Len(pay) /\ DOMAIN pay = 1..M /\ DOMAIN rs = 1..M
  BY DEF Numbers
<1>2. \A i \in 1..M : rs[i].amount = Number(pay[i].cents, 10) /\ rs[i].trace = Number(h + i - 1, 7)
  BY <1>1 DEF EntryDetail, Numbers
<1>3. ASSUME NEW i \in 1..M PROVE rs[i].amount = pay[i].cents
  <2>1. PICK L \in Nat : L = Limit[10]
    BY FieldLimits
  <2>2. pay[i] \in Payable
    BY <1>1
  <2>3. pay[i].cents \in Nat /\ pay[i].cents < Limit[10] /\ 10 \in 0..12
    BY <2>1, <2>2 DEF Payable
  <2>4. Number(pay[i].cents, 10) = pay[i].cents
    BY <2>3, NumberIs
  <2> QED
    BY <1>2, <2>4
<1>4. ASSUME NEW i \in 1..M, NEW j \in 1..M, i # j PROVE rs[i].trace # rs[j].trace
  <2>1. M < Limit[6]
    BY <1>1
  <2>2. Number(h + i - 1, 7) # Number(h + j - 1, 7)
    BY <1>4, <2>1, TracesDiffer
  <2> QED
    BY <1>2, <2>2
<1> QED
  BY <1>1, <1>3, <1>4

\* Amounts are naturals, and so is their total.
LEMMA TotalNatural ==
    ASSUME NEW pay \in Seq(Payable)
    PROVE  Total(pay) \in Nat
<1>1. PICK M \in Nat : M = Len(pay) /\ DOMAIN pay = 1..M
  OBVIOUS
<1>2. PICK D : D = 1..M
  OBVIOUS
<1>3. ASSUME NEW p \in D PROVE pay[p].cents \in Nat
  <2>1. pay[p] \in Payable
    BY <1>1, <1>2
  <2>2. PICK L \in Nat : L = Limit[10]
    BY FieldLimits
  <2> QED
    BY <2>1, <2>2 DEF Payable
<1>4. PICK f \in [D -> Nat] : f = [p \in D |-> pay[p].cents]
  BY <1>3
<1>5. IsFiniteSet(1..M)
  BY FS_Interval
<1>6. SumFunction(f) \in Nat
  BY <1>2, <1>5, SumNatural
<1> QED
  BY <1>1, <1>2, <1>4, <1>6 DEF Total

\* The payments of a valid file, one batch after the other.
LEMMA PaidAre ==
    ASSUME NEW file \in File, Valid(file), NEW start, Starts(start, file.batches)
    PROVE  /\ FlattenSeq(file.batches) \in Seq(Payable)
           /\ Len(FlattenSeq(file.batches)) = start[Len(file.batches)]
           /\ Len(file.batches) <= start[Len(file.batches)]
           /\ \A i \in 1..Len(file.batches) :
                /\ file.batches[i] \in Seq(Payable)
                /\ \A j \in 1..Len(file.batches[i]) :
                      FlattenSeq(file.batches)[start[i - 1] + j] = file.batches[i][j]
<1>1. PICK bs \in Seq(Seq(Payable)) : bs = file.batches /\ \A i \in 1..Len(bs) : bs[i] # <<>>
  BY ValidBatches
<1>2. Starts(start, bs) /\ \A i \in 1..Len(bs) : bs[i] # <<>>
  BY <1>1
<1>3. /\ FlattenSeq(bs) \in Seq(Payable) /\ Len(FlattenSeq(bs)) = start[Len(bs)]
      /\ \A i \in 1..Len(bs) : \A j \in 1..Len(bs[i]) : FlattenSeq(bs)[start[i - 1] + j] = bs[i][j]
  BY <1>2, FlattenIs
<1>4. Len(bs) <= start[Len(bs)]
  BY <1>2, FewBatches
<1>5. \A i \in 1..Len(bs) : bs[i] \in Seq(Payable)
  OBVIOUS
<1> QED
  BY <1>1, <1>3, <1>4, <1>5

\* The control of each batch is borne out by the lines between it and the header.
LEMMA BatchReadsBack ==
    ASSUME NEW file \in File, Valid(file), NEW start, Starts(start, file.batches), NEW P,
           NEW records \in Seq(P), NEW n, NEW b, Laid(file, records, start, n, b),
           Countable(FlattenSeq(file.batches)), NEW i \in 1..Len(file.batches)
    PROVE  Confirms(OfType(records, "8")[i], EntriesOf(records, i))
<1>1. PICK pay \in Seq(Payable) : pay = FlattenSeq(file.batches)
  BY PaidAre
<1>2. PICK es \in Seq(Payable) : es = file.batches[i]
  BY PaidAre
<1>3. PICK t : t = Traces(file, i)
  OBVIOUS
<1>4. PICK N, M \in Nat : N = Len(file.batches) /\ M = Len(pay) /\ M = start[N] /\ N <= M
  <2>1. PICK N \in Nat : N = Len(file.batches)
    <3>1. file.batches \in Seq(Seq(Entry))
      BY DEF File
    <3> QED
      BY <3>1
  <2>2. PICK M \in Nat : M = Len(pay)
    OBVIOUS
  <2>3. M = start[N] /\ N <= start[N]
    BY <1>1, <2>1, <2>2, PaidAre
  <2> QED
    BY <2>1, <2>2, <2>3
<1>5. PICK x, y \in Nat : x = Limit[6] /\ y = Limit[7] /\ x <= y
  BY FieldLimits, SixDigits
<1>6. M < x
  BY <1>1, <1>4, <1>5 DEF Countable
<1>7. N < y
  <2>1. N \in Nat /\ M \in Nat /\ x \in Nat /\ y \in Nat /\ N <= M /\ x <= y
    BY <1>4, <1>5
  <2> QED
    BY ONLY <1>6, <2>1
<1>8. Len(file.batches) < Limit[7]
  BY <1>4, <1>5, <1>7
<1>9. Between(file, records, i)
  <2>1. /\ file \in File /\ Starts(start, file.batches) /\ records \in Seq(P)
        /\ Laid(file, records, start, n, b) /\ i \in 1..Len(file.batches)
    OBVIOUS
  <2> QED
    BY ONLY <1>8, <2>1, EntriesAre
<1>10. EntriesOf(records, i) = [j \in 1..Len(es) |-> EntryDetail(es[j], t[j])]
  BY <1>2, <1>3, <1>9 DEF Between
<1>11. Closings(file, records, b)
  BY ControlsAre
<1>12. OfType(records, "8")[i] = BatchControl(es, i)
  BY <1>2, <1>11 DEF Closings
<1>13. PICK c, m, d \in Nat : Within(file, start, i, c, m, d)
  <2>1. file \in File /\ Starts(start, file.batches) /\ i \in 1..Len(file.batches)
    OBVIOUS
  <2> QED
    BY ONLY <2>1, BatchIs
<1>14. c + Len(es) <= Len(pay)
  BY <1>2, <1>4, <1>13 DEF Within
<1>15. \A j \in 1..Len(es) : pay[c + j] = es[j]
  <2>1. \A j \in 1..Len(file.batches[i]) :
                      FlattenSeq(file.batches)[start[i - 1] + j] = file.batches[i][j]
    BY PaidAre
  <2> QED
    BY <1>1, <1>2, <1>13, <2>1 DEF Within
<1>16. Countable(pay)
  BY <1>1
<1>17. Confirms(BatchControl(es, i), [j \in 1..Len(es) |-> EntryDetail(es[j], t[j])])
  BY <1>14, <1>15, <1>16, BatchConfirmed
<1> QED
  BY <1>10, <1>12, <1>17

\* Read back, the lines of the payments have their amounts and traces of their own, and bear
\* out the control of the file.
LEMMA FileReadsBack ==
    ASSUME NEW file \in File, Valid(file), NEW start, Starts(start, file.batches), Numbered(file, start),
           NEW P, NEW records \in Seq(P), NEW n, NEW b, Laid(file, records, start, n, b),
           Countable(FlattenSeq(file.batches)), NEW pay \in Seq(Payable), NEW entries
    PROVE  pay = FlattenSeq(file.batches) /\ entries = OfType(records, "6") =>
             /\ [i \in DOMAIN entries |-> entries[i].amount] = [i \in DOMAIN pay |-> pay[i].cents]
             /\ \A i, j \in DOMAIN entries : i # j => entries[i].trace # entries[j].trace
             /\ Confirms(OfType(records, "9")[1], entries)
<1>1. OfType(records, "6") = [p \in 1..start[Len(file.batches)] |->
          EntryDetail(FlattenSeq(file.batches)[p], file.header.start + p - 1)]
  BY PaymentsAre
<1>2. Len(FlattenSeq(file.batches)) = start[Len(file.batches)]
  BY PaidAre
<1>3. PICK h \in Int : h = file.header.start
  BY DEF File, Heading
<1>4. Closings(file, records, b)
  <2>1. /\ file \in File /\ Starts(start, file.batches) /\ records \in Seq(P)
        /\ Laid(file, records, start, n, b)
    OBVIOUS
  <2> QED
    BY ONLY <2>1, ControlsAre
<1>5. SUFFICES ASSUME pay = FlattenSeq(file.batches), entries = OfType(records, "6")
               PROVE  /\ [i \in DOMAIN entries |-> entries[i].amount] = [i \in DOMAIN pay |-> pay[i].cents]
                      /\ \A i, j \in DOMAIN entries : i # j => entries[i].trace # entries[j].trace
                      /\ Confirms(OfType(records, "9")[1], entries)
  OBVIOUS
<1>6. Numbers(entries, pay, h)
  BY <1>1, <1>2, <1>3, <1>5 DEF Numbers
<1>7. Len(pay) < Limit[6] /\ Countable(pay)
  BY <1>5 DEF Countable
<1>8. /\ [i \in DOMAIN entries |-> entries[i].amount] = [i \in DOMAIN pay |-> pay[i].cents]
      /\ \A i, j \in DOMAIN entries : i # j => entries[i].trace # entries[j].trace
  <2>1. pay \in Seq(Payable) /\ h \in Int
    OBVIOUS
  <2> QED
    BY <1>6, <1>7, <2>1, LinesReadBack
<1>9. PICK t : t = [p \in 1..Len(pay) |-> h + p - 1]
  OBVIOUS
<1>10. Confirms(FileControl(file.batches, b), [p \in 1..Len(pay) |-> EntryDetail(pay[p], t[p])])
  <2>1. pay \in Seq(Payable) /\ pay = FlattenSeq(file.batches)
    BY <1>5
  <2> QED
    BY ONLY <1>7, <2>1, FileConfirmed
<1>11. entries = [p \in 1..Len(pay) |-> EntryDetail(pay[p], t[p])]
  BY <1>6, <1>9 DEF Numbers
<1> QED
  BY <1>4, <1>8, <1>10, <1>11 DEF Closings

\* Every file reads back, whatever its batches and wherever its traces start: amounts in
\* order, traces that differ, controls that the entries bear out (generate_nacha_file).
THEOREM FilesAreReadBack == \A file \in File : ReadsBack(file)
<1> SUFFICES ASSUME NEW file \in File PROVE ReadsBack(file)
  OBVIOUS
<1>1. PICK pay : pay = FlattenSeq(file.batches)
  OBVIOUS
<1>2. PICK C : C = /\ Valid(file) /\ SumFunction([i \in DOMAIN pay |-> pay[i].cents]) < Limit[12]
                   /\ Len(pay) < Limit[6]
  OBVIOUS
<1>3. CASE C
  <2>1. Valid(file) /\ Total(pay) < Limit[12] /\ Len(pay) < Limit[6]
    BY <1>2, <1>3 DEF Total
  <2>2. PICK start : Starts(start, file.batches) /\ Numbered(file, start)
    BY TracesAre
  <2>3. PICK P, records, n, b : /\ records \in Seq(P) /\ records = Records(file)
                                /\ Laid(file, records, start, n, b)
    BY <2>1, <2>2, RecordsAre
  <2>4. pay \in Seq(Payable)
    BY <1>1, <2>1, <2>2, PaidAre
  <2>5. Countable(FlattenSeq(file.batches))
    BY <1>1, <2>1, <2>4, TotalNatural DEF Countable
  <2>6. PICK entries : entries = OfType(records, "6")
    OBVIOUS
  <2>7. /\ [i \in DOMAIN entries |-> entries[i].amount] = [i \in DOMAIN pay |-> pay[i].cents]
        /\ \A i, j \in DOMAIN entries : i # j => entries[i].trace # entries[j].trace
        /\ Confirms(OfType(records, "9")[1], entries)
    <3>1. pay = FlattenSeq(file.batches) /\ entries = OfType(records, "6") =>
             /\ [i \in DOMAIN entries |-> entries[i].amount] = [i \in DOMAIN pay |-> pay[i].cents]
             /\ \A i, j \in DOMAIN entries : i # j => entries[i].trace # entries[j].trace
             /\ Confirms(OfType(records, "9")[1], entries)
      BY <2>1, <2>2, <2>3, <2>4, <2>5, FileReadsBack
    <3> QED
      BY <1>1, <2>6, <3>1
  <2>8. \A i \in DOMAIN file.batches : Confirms(OfType(records, "8")[i], EntriesOf(records, i))
    <3>1. DOMAIN file.batches = 1..Len(file.batches)
      BY DEF File
    <3>2. ASSUME NEW i \in 1..Len(file.batches)
          PROVE  Confirms(OfType(records, "8")[i], EntriesOf(records, i))
      BY <2>1, <2>2, <2>3, <2>5, BatchReadsBack
    <3> QED
      BY <3>1, <3>2
  <2> QED
    BY <1>1, <2>3, <2>6, <2>7, <2>8 DEF ReadsBack
<1>4. CASE ~C
  BY <1>1, <1>2, <1>4 DEF ReadsBack
<1> QED
  BY <1>3, <1>4

-----------------------------------------------------------------------------
(* Names: the order in which the vendors are read chooses between those of  *)
(* one spelling, and decides nothing else.                                  *)

\* The vendors that vendor_map keeps.
Kept(vendors) == {vendors[i] : i \in Table(vendors)}

\* match_vendor, of a set of vendors: the one of U, if it is one.
Sole(U) == IF \E v : U = {v} THEN Match(CHOOSE v : U = {v}) ELSE Ambiguous
BestOf(name, V) ==
    {v \in V : /\ Overlap(name, v) > 0 /\ AboveThreshold(name, v)
               /\ \A w \in V : Scores(name, v, w) >= 0}
ClosestOf(name, B) == {v \in B : \A w \in B : Common(name, v) >= Common(name, w)}
SpelledOf(u, V) == {v \in V : v.upper = u}
WordsOf(words, V) == {v \in V : v.words = words}
AliasedOf(name, V) == IF name.upper \in DOMAIN Alias THEN SpelledOf(Alias[name.upper], V) ELSE {}
Answer(name, V) ==
    IF SpelledOf(name.upper, V) # {} THEN Sole(SpelledOf(name.upper, V))
    ELSE IF AliasedOf(name, V) # {} THEN Sole(AliasedOf(name, V))
    ELSE IF WordsOf(name.words, V) # {} THEN Sole(WordsOf(name.words, V))
    ELSE IF name.ascii /\ BestOf(name, V) # {} THEN Sole(ClosestOf(name, BestOf(name, V)))
    ELSE Unmatched

LEMMA SoleIs == ASSUME NEW v PROVE Sole({v}) = Match(v)
<1>1. (CHOOSE w : {v} = {w}) = v
  OBVIOUS
<1> QED
  BY <1>1 DEF Sole

\* The table has each spelling, and has it once.
LEMMA TableIs ==
    ASSUME NEW Names, NEW vendors \in Seq(Names)
    PROVE  /\ Table(vendors) \subseteq DOMAIN vendors
           /\ \A i, j \in Table(vendors) : vendors[i].upper = vendors[j].upper => i = j
           /\ \A k \in DOMAIN vendors : \E i \in Table(vendors) : vendors[i].upper = vendors[k].upper
<1>1. DOMAIN vendors = 1..Len(vendors) /\ Len(vendors) \in Nat
  OBVIOUS
<1>2. ASSUME NEW i \in Table(vendors), NEW j \in Table(vendors), vendors[i].upper = vendors[j].upper
      PROVE  i = j
  <2>1. i \in DOMAIN vendors /\ j \in DOMAIN vendors /\ i <= j /\ j <= i
    BY <1>2 DEF Table
  <2> QED
    BY <1>1, <2>1
<1>3. ASSUME NEW k \in DOMAIN vendors PROVE \E i \in Table(vendors) : vendors[i].upper = vendors[k].upper
  <2> DEFINE n == Len(vendors)
             S == {m \in 0..n : n - m \in DOMAIN vendors /\ vendors[n - m].upper = vendors[k].upper}
  <2>1. S \in SUBSET Nat
    BY <1>1
  <2>2. n - k \in S
    <3>1. n - k \in 0..n /\ n - (n - k) = k
      BY <1>1
    <3> QED
      BY <3>1
  <2>3. PICK m \in S : \A l \in S : m <= l
    <3> HIDE DEF S
    <3> QED
      BY <2>1, <2>2, LeastNumber
  <2>4. ASSUME NEW j \in DOMAIN vendors, vendors[j].upper = vendors[n - m].upper PROVE j <= n - m
    <3>1. n - j \in S
      <4>1. n - j \in 0..n /\ n - (n - j) = j
        BY <1>1
      <4> QED
        BY <2>4, <4>1
    <3>2. m <= n - j /\ m \in 0..n
      BY <2>3, <3>1
    <3> QED
      BY <1>1, <3>2
  <2>5. n - m \in Table(vendors)
    BY <2>4 DEF Table
  <2> QED
    BY <2>5
<1>4. Table(vendors) \subseteq DOMAIN vendors
  BY DEF Table
<1> QED
  BY <1>2, <1>3, <1>4

\* Places of the table stand for the vendors there.
LEMMA OnlySole ==
    ASSUME NEW Names, NEW vendors \in Seq(Names),
           NEW U \in SUBSET Kept(vendors), NEW found,
           found = {i \in Table(vendors) : vendors[i] \in U}
    PROVE  (found # {} <=> U # {}) /\ Only(vendors, found) = Sole(U)
<1>1. DOMAIN vendors = 1..Len(vendors) /\ Len(vendors) \in Nat
  OBVIOUS
<1>2. IsFiniteSet(found)
  <2>1. Table(vendors) \subseteq DOMAIN vendors
    BY TableIs
  <2>2. found \in SUBSET (1..Len(vendors)) /\ IsFiniteSet(1..Len(vendors))
    BY <1>1, <2>1, FS_Interval
  <2> QED
    BY <2>2, FS_Subset
<1>3. \A v \in U : \E i \in found : vendors[i] = v
  BY DEF Kept
<1>4. ASSUME NEW i, found = {i} PROVE U = {vendors[i]} /\ Min(found) = i
  <2>1. Min({i}) = i
    <3>1. i \in Int
      BY <1>1, <1>4, TableIs
    <3> QED
      BY <3>1 DEF Min
  <2> QED
    BY <1>3, <1>4, <2>1
<1>5. ASSUME NEW v, U = {v} PROVE \E i : found = {i}
  <2>1. PICK i \in found : vendors[i] = v
    BY <1>3, <1>5
  <2>2. \A j \in found : j = i
    BY <1>5, <2>1, TableIs
  <2>3. found = {i}
    BY <2>1, <2>2
  <2> QED
    BY <2>3
<1>6. CASE Cardinality(found) = 1
  <2>1. PICK i : found = {i}
    BY <1>2, <1>6, FS_Singleton
  <2>2. Only(vendors, found) = Match(vendors[i])
    BY <1>4, <1>6, <2>1 DEF Only
  <2> QED
    BY <1>4, <2>1, <2>2, SoleIs
<1>7. CASE Cardinality(found) # 1
  <2>1. ~\E v : U = {v}
    BY <1>5, <1>7, FS_Singleton
  <2>2. Only(vendors, found) = Ambiguous /\ Sole(U) = Ambiguous
    BY <1>7, <2>1 DEF Only, Sole
  <2> QED
    BY <1>3, <2>2
<1> QED
  BY <1>6, <1>7

LEMMA MatchIs ==
    ASSUME NEW Names, NEW vendors \in Seq(Names), NEW name
    PROVE  MatchVendor(name, vendors) = Answer(name, Kept(vendors))
<1> DEFINE V == Kept(vendors)
<1>1. \A i \in Table(vendors) : vendors[i] \in V
  BY DEF Kept
<1>2. \A v \in V : \E i \in Table(vendors) : vendors[i] = v
  BY DEF Kept
<1> HIDE DEF V
<1>3. ASSUME NEW u
      PROVE  /\ Spelled(vendors, u) # {} <=> SpelledOf(u, V) # {}
             /\ Only(vendors, Spelled(vendors, u)) = Sole(SpelledOf(u, V))
  <2>1. Spelled(vendors, u) = {i \in Table(vendors) : vendors[i] \in SpelledOf(u, V)}
    BY <1>1 DEF Spelled, SpelledOf
  <2>2. SpelledOf(u, V) \in SUBSET V
    BY DEF SpelledOf
  <2> QED
    BY <2>1, <2>2, OnlySole DEF V
<1>4. /\ SameWords(vendors, name.words) # {} <=> WordsOf(name.words, V) # {}
      /\ Only(vendors, SameWords(vendors, name.words)) = Sole(WordsOf(name.words, V))
  <2>1. SameWords(vendors, name.words) = {i \in Table(vendors) : vendors[i] \in WordsOf(name.words, V)}
    BY <1>1 DEF SameWords, WordsOf
  <2>2. WordsOf(name.words, V) \in SUBSET V
    BY DEF WordsOf
  <2> QED
    BY <2>1, <2>2, OnlySole DEF V
<1>5. Best(name, vendors) = {i \in Table(vendors) : vendors[i] \in BestOf(name, V)}
  BY <1>1, <1>2 DEF Best, BestOf
<1>6. BestOf(name, V) \in SUBSET V
  BY DEF BestOf
<1>7. Best(name, vendors) # {} <=> BestOf(name, V) # {}
  BY <1>2, <1>5, <1>6
<1>8. Only(vendors, Closest(name, vendors, Best(name, vendors))) = Sole(ClosestOf(name, BestOf(name, V)))
  <2>1. \A v \in BestOf(name, V) : \E i \in Table(vendors) : vendors[i] = v
    BY <1>2, <1>6
  <2>2. Closest(name, vendors, Best(name, vendors))
          = {i \in Table(vendors) : vendors[i] \in ClosestOf(name, BestOf(name, V))}
    BY <1>5, <2>1 DEF Closest, ClosestOf
  <2>3. ClosestOf(name, BestOf(name, V)) \in SUBSET V
    BY <1>6 DEF ClosestOf
  <2> QED
    BY <2>2, <2>3, OnlySole DEF V
<1>9. CASE name.upper \in DOMAIN Alias
  <2>1. AliasedOf(name, V) = SpelledOf(Alias[name.upper], V)
    BY <1>9 DEF AliasedOf
  <2> QED
    BY <1>3, <1>4, <1>7, <1>8, <1>9, <2>1 DEF MatchVendor, Answer, V
<1>10. CASE name.upper \notin DOMAIN Alias
  <2>1. AliasedOf(name, V) = {}
    BY <1>10 DEF AliasedOf
  <2> QED
    BY <1>3, <1>4, <1>7, <1>8, <1>10, <2>1 DEF MatchVendor, Answer, V
<1> QED
  BY <1>9, <1>10

\* Two sets of vendors with the same spellings, each once.
SameSpellings(A, B) ==
    /\ \A v \in A : \E w \in B : Alike(v, w)
    /\ \A w \in B : \E v \in A : Alike(v, w)
OnceEach(A) == \A v, w \in A : Alike(v, w) => v = w
Agree(A, B, a, b) ==
    /\ a.ambiguous = b.ambiguous
    /\ a.vendor = b.vendor \/ (a.vendor \in A /\ b.vendor \in B /\ Alike(a.vendor, b.vendor))

LEMMA SolesAgree ==
    ASSUME NEW A, NEW B, OnceEach(A), OnceEach(B), NEW U \in SUBSET A, NEW W \in SUBSET B,
           SameSpellings(U, W)
    PROVE  (U # {} <=> W # {}) /\ Agree(A, B, Sole(U), Sole(W))
<1>1. U # {} <=> W # {}
  BY DEF SameSpellings
<1>2. CASE \E v : U = {v}
  <2>1. PICK v \in A : U = {v}
    BY <1>2
  <2>2. PICK w \in W : Alike(v, w)
    BY <2>1 DEF SameSpellings
  <2>3. \A x \in W : Alike(v, x)
    BY <2>1 DEF SameSpellings
  <2>4. W = {w}
    BY <2>2, <2>3 DEF OnceEach, Alike
  <2>5. Sole(U) = Match(v) /\ Sole(W) = Match(w)
    BY <2>1, <2>4, SoleIs
  <2> QED
    BY <1>1, <2>2, <2>5 DEF Agree, Match
<1>3. CASE ~\E v : U = {v}
  <2>1. ASSUME NEW w, W = {w} PROVE FALSE
    <3>1. PICK v \in U : Alike(v, w)
      BY <2>1 DEF SameSpellings
    <3>2. \A x \in U : Alike(x, w)
      BY <2>1 DEF SameSpellings
    <3>3. U = {v}
      BY <3>1, <3>2 DEF OnceEach, Alike
    <3> QED
      BY <1>3, <3>3
  <2>2. Sole(U) = Ambiguous /\ Sole(W) = Ambiguous
    BY <1>3, <2>1 DEF Sole
  <2> QED
    BY <1>1, <2>2 DEF Agree
<1> QED
  BY <1>2, <1>3

\* The score of a vendor is that of its words.
LEMMA ScoresOfWords ==
    ASSUME NEW name, NEW v, NEW w, v.words = w.words
    PROVE  /\ Overlap(name, v) = Overlap(name, w) /\ Longer(name, v) = Longer(name, w)
           /\ AboveThreshold(name, v) = AboveThreshold(name, w)
           /\ Common(name, v) = Common(name, w)
<1>1. Overlap(name, v) = Overlap(name, w) /\ Longer(name, v) = Longer(name, w)
  BY DEF Overlap, Longer
<1>2. Text(v) = Text(w)
  BY DEF Text
<1> QED
  BY <1>1, <1>2 DEF AboveThreshold, Common

\* The best of one set are spelled as the best of the other.
LEMMA BestAlike ==
    ASSUME NEW A, NEW B, SameSpellings(A, B), NEW name,
           \A v \in A, w \in B : Alike(v, w) => v.words = w.words
    PROVE  SameSpellings(BestOf(name, A), BestOf(name, B))
<1>1. ASSUME NEW v \in A, NEW w \in B, Alike(v, w) PROVE v \in BestOf(name, A) <=> w \in BestOf(name, B)
  <2>1. /\ Overlap(name, v) = Overlap(name, w) /\ AboveThreshold(name, v) = AboveThreshold(name, w)
        /\ Longer(name, v) = Longer(name, w)
    BY <1>1, ScoresOfWords
  <2>2. ASSUME NEW x \in A, NEW y \in B, Alike(x, y) PROVE Scores(name, v, x) = Scores(name, w, y)
    <3>1. Overlap(name, x) = Overlap(name, y) /\ Longer(name, x) = Longer(name, y)
      BY <2>2, ScoresOfWords
    <3> QED
      BY <2>1, <3>1 DEF Scores
  <2>3. (\A x \in A : Scores(name, v, x) >= 0) <=> (\A y \in B : Scores(name, w, y) >= 0)
    BY <2>2 DEF SameSpellings
  <2> QED
    BY <2>1, <2>3 DEF BestOf
<1>2. BestOf(name, A) \subseteq A /\ BestOf(name, B) \subseteq B
  BY DEF BestOf
<1> QED
  BY <1>1, <1>2 DEF SameSpellings

LEMMA ClosestAlike ==
    ASSUME NEW A, NEW B, SameSpellings(A, B), NEW name,
           \A v \in A, w \in B : Alike(v, w) => v.words = w.words
    PROVE  SameSpellings(ClosestOf(name, A), ClosestOf(name, B))
<1>1. \A x \in A, y \in B : Alike(x, y) => Common(name, x) = Common(name, y)
  BY ScoresOfWords
<1>2. ASSUME NEW v \in A, NEW w \in B, Alike(v, w)
      PROVE  v \in ClosestOf(name, A) <=> w \in ClosestOf(name, B)
  <2>1. (\A x \in A : Common(name, v) >= Common(name, x)) <=> (\A y \in B : Common(name, w) >= Common(name, y))
    BY <1>1, <1>2 DEF SameSpellings
  <2> QED
    BY <2>1 DEF ClosestOf
<1>3. ClosestOf(name, A) \subseteq A /\ ClosestOf(name, B) \subseteq B
  BY DEF ClosestOf
<1> QED
  BY <1>2, <1>3 DEF SameSpellings

\* Whichever vendors of each spelling are kept, the answers agree.
LEMMA AnswersAgree ==
    ASSUME NEW A, NEW B, OnceEach(A), OnceEach(B), SameSpellings(A, B), NEW name,
           \A v \in A, w \in B : Alike(v, w) => v.words = w.words
    PROVE  Agree(A, B, Answer(name, A), Answer(name, B))
<1>1. ASSUME NEW u
      PROVE  /\ SpelledOf(u, A) # {} <=> SpelledOf(u, B) # {}
             /\ Agree(A, B, Sole(SpelledOf(u, A)), Sole(SpelledOf(u, B)))
  <2>1. SameSpellings(SpelledOf(u, A), SpelledOf(u, B))
    BY DEF SameSpellings, SpelledOf, Alike
  <2>2. SpelledOf(u, A) \in SUBSET A /\ SpelledOf(u, B) \in SUBSET B
    BY DEF SpelledOf
  <2> QED
    BY <2>1, <2>2, SolesAgree
<1>2. /\ AliasedOf(name, A) # {} <=> AliasedOf(name, B) # {}
      /\ AliasedOf(name, A) # {} => Agree(A, B, Sole(AliasedOf(name, A)), Sole(AliasedOf(name, B)))
  BY <1>1 DEF AliasedOf
<1>3. /\ WordsOf(name.words, A) # {} <=> WordsOf(name.words, B) # {}
      /\ Agree(A, B, Sole(WordsOf(name.words, A)), Sole(WordsOf(name.words, B)))
  <2>1. SameSpellings(WordsOf(name.words, A), WordsOf(name.words, B))
    BY DEF SameSpellings, WordsOf
  <2>2. WordsOf(name.words, A) \in SUBSET A /\ WordsOf(name.words, B) \in SUBSET B
    BY DEF WordsOf
  <2> QED
    BY <2>1, <2>2, SolesAgree
<1> DEFINE C == BestOf(name, A)
           D == BestOf(name, B)
<1>4. C \in SUBSET A /\ D \in SUBSET B
  BY DEF BestOf
<1>5. SameSpellings(C, D)
  BY BestAlike
<1> HIDE DEF C, D
<1>6. C # {} <=> D # {}
  BY <1>5 DEF SameSpellings
<1>7. Agree(A, B, Sole(ClosestOf(name, C)), Sole(ClosestOf(name, D)))
  <2>1. SameSpellings(ClosestOf(name, C), ClosestOf(name, D))
    <3>1. \A v \in C, w \in D : Alike(v, w) => v.words = w.words
      BY <1>4
    <3> QED
      BY <1>5, <3>1, ClosestAlike
  <2>2. ClosestOf(name, C) \in SUBSET A /\ ClosestOf(name, D) \in SUBSET B
    BY <1>4 DEF ClosestOf
  <2> QED
    BY <2>1, <2>2, SolesAgree
<1>8. Agree(A, B, Unmatched, Unmatched)
  BY DEF Agree
<1> QED
  BY <1>1, <1>2, <1>3, <1>6, <1>7, <1>8 DEF Answer, C, D

\* Whatever the vendors and the name, match_vendor answers the same in whatever order the
\* query returns them but for vendors of one spelling, and takes no vendor for another when
\* it knows the name.  Names spelled alike have the same words.
THEOREM NamesAreDeterminate ==
    ASSUME NEW Names, NEW vendors \in Seq(Names), NEW name,
           \A v, w \in ToSet(vendors) : v.upper = w.upper => v.words = w.words,
           \A v \in ToSet(vendors) : v.upper = name.upper => v.words = name.words
    PROVE  MatchDeterminate(name, vendors)
<1> DEFINE V == ToSet(vendors)
           A == Kept(vendors)
<1>1. IsFiniteSet(V) /\ Cardinality(V) \in Nat
  <2>1. vendors \in Surjection(1..Len(vendors), V)
    BY DEF Surjection, ToSet
  <2>2. IsFiniteSet(1..Len(vendors))
    BY FS_Interval
  <2> QED
    BY <2>1, <2>2, FS_Surjection, FS_CardinalityType
<1>2. ASSUME NEW S, NEW order \in Seq(S), ToSet(order) = V
      PROVE  /\ Kept(order) \subseteq V /\ OnceEach(Kept(order))
             /\ \A v \in V : \E w \in Kept(order) : Alike(v, w)
             /\ MatchVendor(name, order) = Answer(name, Kept(order))
  <2>1. Kept(order) \subseteq V
    BY <1>2, TableIs DEF Kept, ToSet
  <2>2. OnceEach(Kept(order))
    BY <1>2, TableIs DEF Kept, OnceEach, Alike
  <2>3. ASSUME NEW v \in V PROVE \E w \in Kept(order) : Alike(v, w)
    <3>1. PICK k \in DOMAIN order : order[k] = v
      BY <1>2 DEF ToSet
    <3>2. PICK i \in Table(order) : order[i].upper = order[k].upper
      BY <1>2, TableIs
    <3> QED
      BY <3>1, <3>2 DEF Kept, Alike
  <2> QED
    BY <1>2, <2>1, <2>2, <2>3, MatchIs
<1>3. /\ A \subseteq V /\ OnceEach(A) /\ \A v \in V : \E w \in A : Alike(v, w)
      /\ MatchVendor(name, vendors) = Answer(name, A)
  BY <1>2
<1> HIDE DEF V, A
<1>4. ASSUME NEW order \in SetToSeqs(V)
      PROVE  SameAnswer(vendors, MatchVendor(name, order), MatchVendor(name, vendors))
  <2>1. PICK D : D = 1..Cardinality(V)
    OBVIOUS
  <2>2. order \in [D -> V] /\ \A i, j \in D : i # j => order[i] # order[j]
    BY <2>1 DEF SetToSeqs
  <2>3. order \in Injection(D, V) /\ Cardinality(D) = Cardinality(V)
    <3>1. order \in Injection(D, V)
      <4>1. DOMAIN order = D /\ order \in [D -> V]
        BY <2>2
      <4>2. IsInjective(order)
        BY <2>2, <4>1 DEF IsInjective
      <4> QED
        BY <4>1, <4>2 DEF Injection
    <3>2. PICK n \in Nat : n = Cardinality(V)
      BY <1>1
    <3>3. Cardinality(1..n) = IF 1 > n THEN 0 ELSE n - 1 + 1
      BY FS_Interval
    <3> QED
      BY <2>1, <3>1, <3>2, <3>3
  <2>4. order \in Surjection(D, V)
    BY <1>1, <2>3, FS_Injection
  <2>5. order \in Seq(V) /\ DOMAIN order = D
    BY <1>1, <2>1, <2>2
  <2>6. ToSet(order) = V
    BY <2>2, <2>4 DEF Surjection, ToSet
  <2>7. PICK B : B = Kept(order)
    OBVIOUS
  <2>8. /\ B \subseteq V /\ OnceEach(B) /\ \A v \in V : \E w \in B : Alike(v, w)
        /\ MatchVendor(name, order) = Answer(name, B)
    BY <1>2, <2>5, <2>6, <2>7
  <2>9. SameSpellings(B, A)
    <3>1. \A v \in B : \E w \in A : Alike(v, w)
      BY <1>3, <2>8
    <3>2. \A w \in A : \E v \in B : Alike(v, w)
      BY <1>3, <2>8 DEF Alike
    <3> QED
      BY <3>1, <3>2 DEF SameSpellings
  <2>10. \A v \in B, w \in A : Alike(v, w) => v.words = w.words
    BY <1>3, <2>8 DEF Alike, V
  <2>11. Agree(B, A, Answer(name, B), Answer(name, A))
    BY <1>3, <2>8, <2>9, <2>10, AnswersAgree
  <2> QED
    BY <1>3, <2>8, <2>11 DEF Agree, SameAnswer, V
<1>5. ASSUME NEW U, Sole(U).vendor # NoVendor PROVE U = {Sole(U).vendor}
  <2>1. PICK v : U = {v}
    BY <1>5 DEF Sole, Ambiguous
  <2>2. Sole(U) = Match(v)
    BY <2>1, SoleIs
  <2>3. Match(v).vendor = v
    BY DEF Match
  <2> QED
    BY <2>1, <2>2, <2>3
<1> DEFINE known == {v \in V : v.words = name.words}
<1>6. ASSUME Answer(name, A).vendor # NoVendor, name.upper \notin DOMAIN Alias
      PROVE  /\ known # {} => Answer(name, A).vendor \in known
             /\ ~name.ascii => Answer(name, A).vendor.upper = name.upper \/ Answer(name, A).vendor \in known
  <2>1. WordsOf(name.words, A) \subseteq known /\ SpelledOf(name.upper, A) \subseteq known
    BY <1>3 DEF WordsOf, SpelledOf, V
  <2>2. known # {} => WordsOf(name.words, A) # {}
    <3>1. ASSUME NEW v \in known PROVE \E w \in A : w.words = name.words
      <4>1. PICK w \in A : Alike(v, w)
        BY <1>3, <3>1
      <4> QED
        BY <1>3, <3>1, <4>1 DEF Alike, V
    <3> QED
      BY <3>1 DEF WordsOf
  <2>3. AliasedOf(name, A) = {}
    BY <1>6 DEF AliasedOf
  <2>4. CASE SpelledOf(name.upper, A) # {}
    <3>1. Answer(name, A) = Sole(SpelledOf(name.upper, A))
      BY <2>4 DEF Answer
    <3>2. Answer(name, A).vendor \in SpelledOf(name.upper, A)
      BY <1>5, <1>6, <3>1
    <3> QED
      BY <2>1, <3>2
  <2>5. CASE SpelledOf(name.upper, A) = {} /\ known # {}
    <3>1. Answer(name, A) = Sole(WordsOf(name.words, A))
      BY <2>2, <2>3, <2>5 DEF Answer
    <3>2. Answer(name, A).vendor \in WordsOf(name.words, A)
      BY <1>5, <1>6, <3>1
    <3> QED
      BY <2>1, <3>2
  <2>6. CASE SpelledOf(name.upper, A) = {} /\ known = {}
    <3>1. WordsOf(name.words, A) = {}
      BY <2>1, <2>6
    <3>2. name.ascii
      BY <1>6, <2>3, <2>6, <3>1 DEF Answer, Unmatched, Match
    <3> QED
      BY <2>6, <3>2
  <2> QED
    BY <2>4, <2>5, <2>6
<1> QED
  BY <1>3, <1>4, <1>6 DEF MatchDeterminate, V

-----------------------------------------------------------------------------
(* The report reader: blocks and the sums of their invoices.                *)

InvoiceRow == [number : InvoiceNumber \cup {"placeholder", None}, amount : Nat]
VendorBlock == [vendor : Vendor \cup {None}, amount : Nat, invoices : Seq(InvoiceRow)]

ReportType ==
    /\ block \in VendorBlock
    /\ {paid, reported, lines, excess} \subseteq [Vendor -> Int]
    /\ strays \in Nat

\* What the invoices of a block add up to.
Invoiced(invoices) == SumFunction([i \in DOMAIN invoices |-> invoices[i].amount])

LEMMA ValueType == \A r \in Row : Value(r) \in Nat
<1> SUFFICES ASSUME NEW r \in Row PROVE Value(r) \in Nat
  OBVIOUS
<1>1. AmountOf(r) \in Amount \cup {None}
  BY DEF AmountOf, Row
<1>2. CASE AmountOf(r) = None
  BY <1>2 DEF Value
<1>3. CASE AmountOf(r) # None
  <2>1. AmountOf(r) \in Int
    BY <1>1, <1>3, ReportAssumption
  <2> QED
    BY <1>3, <2>1 DEF Value, Abs
<1> QED
  BY <1>2, <1>3

\* The terms of such a sum.
LEMMA InvoiceTerms ==
    ASSUME NEW q \in Seq(InvoiceRow)
    PROVE  /\ Len(q) \in Nat /\ DOMAIN q = 1..Len(q) /\ IsFiniteSet(1..Len(q))
           /\ \A i \in 1..Len(q) : q[i] \in InvoiceRow /\ q[i].amount \in Int
           /\ [i \in DOMAIN q |-> q[i].amount] \in [1..Len(q) -> Int]
<1>1. Len(q) \in Nat /\ DOMAIN q = 1..Len(q)
  OBVIOUS
<1>2. IsFiniteSet(1..Len(q))
  BY <1>1, FS_Interval
<1>3. \A i \in 1..Len(q) : q[i] \in InvoiceRow
  BY <1>1
<1>4. \A i \in 1..Len(q) : q[i].amount \in Int
  BY <1>3 DEF InvoiceRow
<1> QED
  BY <1>1, <1>2, <1>3, <1>4

LEMMA NoInvoices == Invoiced(<<>>) = 0
<1>1. IsFiniteSet({}) /\ [i \in {} |-> 0] \in [{} -> Int]
  BY FS_EmptySet
<1>2. IsSum([i \in {} |-> 0], {}, [s \in SUBSET {} |-> 0])
  BY DEF IsSum
<1>3. SumFunction([i \in {} |-> 0]) = [s \in SUBSET {} |-> 0][{}]
  BY <1>1, <1>2, SumIs
<1>4. [i \in DOMAIN <<>> |-> <<>>[i].amount] = [i \in {} |-> 0]
  OBVIOUS
<1> QED
  BY <1>3, <1>4 DEF Invoiced

LEMMA OneMoreInvoice ==
    ASSUME NEW q \in Seq(InvoiceRow), NEW x \in InvoiceRow
    PROVE  Append(q, x) \in Seq(InvoiceRow) /\ Invoiced(Append(q, x)) = Invoiced(q) + x.amount
<1> DEFINE n == Len(q)
           D == 1..n
           a == n + 1
           f == [i \in D \cup {a} |-> Append(q, x)[i].amount]
<1>1. /\ n \in Nat /\ IsFiniteSet(D) /\ a \notin D /\ D \cup {a} = 1..a
      /\ Append(q, x) \in Seq(InvoiceRow) /\ DOMAIN Append(q, x) = 1..a
      /\ Append(q, x)[a] = x /\ \A i \in D : Append(q, x)[i] = q[i]
  BY InvoiceTerms
<1>2. f \in [D \cup {a} -> Int]
  BY <1>1, InvoiceTerms DEF InvoiceRow
<1>3. /\ [i \in D |-> f[i]] = [i \in DOMAIN q |-> q[i].amount] /\ f[a] = x.amount
      /\ f = [i \in DOMAIN Append(q, x) |-> Append(q, x)[i].amount]
  BY <1>1, InvoiceTerms
<1> HIDE DEF D, a, f
<1>4. SumFunction(f) = SumFunction([i \in D |-> f[i]]) + f[a]
  BY <1>1, <1>2, SumInsert
<1> QED
  BY <1>1, <1>3, <1>4 DEF Invoiced

LEMMA LastInvoiceGrows ==
    ASSUME NEW q \in Seq(InvoiceRow), NEW k \in 1..Len(q), NEW n \in Nat,
           NEW x \in InvoiceRow, x.amount = q[k].amount + n
    PROVE  /\ [q EXCEPT ![k] = x] \in Seq(InvoiceRow)
           /\ Invoiced([q EXCEPT ![k] = x]) = Invoiced(q) + n
<1> DEFINE p == [q EXCEPT ![k] = x]
           D == 1..Len(q)
           f == [i \in D |-> q[i].amount]
           h == [i \in D |-> p[i].amount]
<1>1. p \in Seq(InvoiceRow) /\ DOMAIN p = D /\ p[k] = x /\ \A i \in D \ {k} : p[i] = q[i]
  BY InvoiceTerms
<1>2. f \in [D -> Int] /\ h \in [D -> Int] /\ IsFiniteSet(D) /\ \A i \in D \ {k} : h[i] = f[i]
  BY <1>1, InvoiceTerms DEF InvoiceRow
<1>3. h[k] - f[k] = n
  <2>1. h[k] = q[k].amount + n /\ f[k] = q[k].amount /\ q[k].amount \in Int
    BY <1>1, InvoiceTerms
  <2> HIDE DEF h, f
  <2> QED
    BY <2>1
<1>4. f = [i \in DOMAIN q |-> q[i].amount] /\ h = [i \in DOMAIN p |-> p[i].amount]
  BY <1>1, InvoiceTerms
<1> HIDE DEF D, f, h, p
<1>5. k \in D
  BY DEF D
<1>6. SumFunction(h) = SumFunction(f) + (h[k] - f[k])
  BY <1>2, <1>5, SumChange
<1> QED
  BY <1>1, <1>3, <1>4, <1>6 DEF Invoiced, p

\* A block takes in a row: its amount grows by what the row says, its invoices by no more.
Takes(b, c, n) == /\ c \in VendorBlock /\ c.vendor = b.vendor /\ c.amount = b.amount + n
                  /\ Invoiced(c.invoices) <= c.amount

LEMMA InvoicedType == \A q \in Seq(InvoiceRow) : Invoiced(q) \in Int
  BY InvoiceTerms, SumType DEF Invoiced

LEMMA BlockTakes ==
    ASSUME NEW b \in VendorBlock, NEW n \in Nat, NEW q \in Seq(InvoiceRow),
           Invoiced(b.invoices) <= b.amount,
           Invoiced(q) \in {Invoiced(b.invoices), Invoiced(b.invoices) + n}
    PROVE  Takes(b, [b EXCEPT !.amount = @ + n, !.invoices = q], n)
<1> DEFINE m == b.amount + n
           c == [b EXCEPT !.amount = m, !.invoices = q]
<1>1. m \in Nat
  BY DEF VendorBlock
<1> HIDE DEF m
<1>2. c \in VendorBlock /\ c.vendor = b.vendor /\ c.amount = m /\ c.invoices = q
  BY <1>1 DEF VendorBlock
<1>3. b.amount \in Nat /\ Invoiced(b.invoices) \in Int
  BY InvoicedType DEF VendorBlock
<1> QED
  BY <1>2, <1>3 DEF Takes, m

LEMMA BilledTakes ==
    ASSUME NEW b \in VendorBlock, NEW r \in Row, Invoiced(b.invoices) <= b.amount
    PROVE  Takes(b, Billed(b, r), Value(r))
<1> DEFINE x == Invoice(r.number, Value(r))
           q == IF r.number \in InvoiceNumber THEN Append(b.invoices, x) ELSE b.invoices
<1>1. b.invoices \in Seq(InvoiceRow) /\ Value(r) \in Nat
  BY ValueType DEF VendorBlock
<1>2. x \in InvoiceRow /\ x.amount = Value(r)
  BY <1>1 DEF Invoice, InvoiceRow, Row
<1> HIDE DEF x
<1>3. q \in Seq(InvoiceRow) /\ Invoiced(q) \in {Invoiced(b.invoices), Invoiced(b.invoices) + Value(r)}
  BY <1>1, <1>2, OneMoreInvoice
<1>4. Billed(b, r) = [b EXCEPT !.amount = @ + Value(r), !.invoices = q]
  BY DEF Billed, x
<1> HIDE DEF q
<1> QED
  BY <1>1, <1>3, <1>4, BlockTakes

LEMMA ContinuedTakes ==
    ASSUME NEW b \in VendorBlock, NEW r \in Row, Invoiced(b.invoices) <= b.amount
    PROVE  Takes(b, Continued(b, r), Value(r))
<1> DEFINE q == Extended(b.invoices, r)
           x == Invoice(r.number, Value(r))
<1>1. b.invoices \in Seq(InvoiceRow) /\ Value(r) \in Nat /\ Len(b.invoices) \in Nat
  BY ValueType DEF VendorBlock
<1>2. x \in InvoiceRow /\ x.amount = Value(r)
  BY <1>1 DEF Invoice, InvoiceRow, Row
<1> HIDE DEF x
<1>3. q \in Seq(InvoiceRow) /\ Invoiced(q) \in {Invoiced(b.invoices), Invoiced(b.invoices) + Value(r)}
  <2>1. CASE Len(b.invoices) > 0
    <3> DEFINE p == b.invoices
               k == Len(p)
           y == Invoice(p[k].number, p[k].amount + Value(r))
    <3>1. q = [p EXCEPT ![k] = y]
      BY <2>1 DEF Extended
    <3>2. k \in 1..Len(p)
      BY <1>1, <2>1
    <3>3. p \in Seq(InvoiceRow) /\ y \in InvoiceRow /\ y.amount = p[k].amount + Value(r)
      <4>1. p[k] \in InvoiceRow /\ p \in Seq(InvoiceRow)
        BY <1>1, <3>2, InvoiceTerms
      <4>2. p[k].amount + Value(r) \in Nat /\ p[k].number \in InvoiceNumber \cup {"placeholder", None}
        BY <1>1, <4>1 DEF InvoiceRow
      <4> HIDE DEF p, k
      <4> QED
        BY <4>1, <4>2 DEF Invoice, InvoiceRow
    <3> HIDE DEF p, k, q, y
    <3>4. /\ [p EXCEPT ![k] = y] \in Seq(InvoiceRow)
          /\ Invoiced([p EXCEPT ![k] = y]) = Invoiced(p) + Value(r)
      BY <1>1, <3>2, <3>3, LastInvoiceGrows
    <3> QED
      BY <3>1, <3>4 DEF p
  <2>2. CASE Len(b.invoices) = 0
    <3>1. b.invoices = <<>>
      BY <1>1, <2>2
    <3>2. CASE r.number # None
      <4>1. q = <<x>>
        BY <2>2, <3>2 DEF Extended, x
      <4>2. <<x>> = Append(<<>>, x) /\ <<>> \in Seq(InvoiceRow)
        BY <1>2
      <4>3. Invoiced(<<x>>) = Invoiced(<<>>) + x.amount /\ <<x>> \in Seq(InvoiceRow)
        BY <1>2, <4>2, OneMoreInvoice
      <4> QED
        BY <1>2, <3>1, <4>1, <4>3
    <3>3. CASE r.number = None
      <4>1. q = b.invoices
        BY <2>2, <3>3 DEF Extended
      <4> QED
        BY <1>1, <4>1
    <3> QED
      BY <3>2, <3>3
  <2> QED
    BY <1>1, <2>1, <2>2
<1>4. Continued(b, r) = [b EXCEPT !.amount = @ + Value(r), !.invoices = q]
  BY DEF Continued
<1> HIDE DEF q
<1> QED
  BY <1>1, <1>3, <1>4, BlockTakes


-----------------------------------------------------------------------------
\* Nobody is owed more or less than the lines say.  A block without a vendor has
\* no money in it, as long as no line came before the first name.
Balanced ==
    /\ strays = 0 /\ block.vendor = None => block.amount = 0
    /\ strays = 0 => \A v \in Vendor :
          paid[v] + reported[v] + (IF block.vendor = v THEN block.amount ELSE 0) = lines[v] + excess[v]
    /\ Invoiced(block.invoices) <= block.amount

ReportInv == ReportType /\ Balanced

LEMMA ClosedBlock == Closed \in VendorBlock /\ Closed.vendor = None /\ Closed.amount = 0 /\ Invoiced(Closed.invoices) = 0
<1>1. <<>> \in Seq(InvoiceRow)
  OBVIOUS
<1> QED
  BY <1>1, NoInvoices DEF Closed, VendorBlock

\* Plus credits one vendor, and none if there is no vendor.
LEMMA PlusIs ==
    ASSUME NEW totals \in [Vendor -> Int], NEW v \in Vendor \cup {None}, NEW n \in Int
    PROVE  /\ Plus(totals, v, n) \in [Vendor -> Int]
           /\ \A w \in Vendor : Plus(totals, v, n)[w] = totals[w] + (IF v = w THEN n ELSE 0)
  BY ReportAssumption DEF Plus

\* A block that is processed is paid to its vendor, or reported of it.
LEMMA ProcessIs ==
    ASSUME ReportType, NEW v \in Vendor \cup {None}, NEW n \in Int, Process(v, n)
    PROVE  /\ {paid', reported'} \subseteq [Vendor -> Int]
           /\ \A w \in Vendor : paid'[w] + reported'[w]
                                    = paid[w] + reported[w] + (IF v = w THEN n ELSE 0)
<1>1. paid \in [Vendor -> Int] /\ reported \in [Vendor -> Int]
  BY DEF ReportType
<1>2. CASE v \in Known /\ n > 0
  <2>1. paid' = Plus(paid, v, n) /\ reported' = reported
    BY <1>2 DEF Process
  <2>2. paid' \in [Vendor -> Int] /\ \A w \in Vendor : paid'[w] = paid[w] + (IF v = w THEN n ELSE 0)
    BY <1>1, <2>1, PlusIs, ZenonT(40)
  <2> QED
    BY <1>1, <2>1, <2>2
<1>3. CASE ~(v \in Known /\ n > 0)
  <2>1. paid' = paid /\ reported' = Plus(reported, v, n)
    BY <1>3 DEF Process
  <2>2. reported' \in [Vendor -> Int] /\ \A w \in Vendor : reported'[w] = reported[w] + (IF v = w THEN n ELSE 0)
    BY <1>1, <2>1, PlusIs, ZenonT(40)
  <2> QED
    BY <1>1, <2>1, <2>2
<1> QED
  BY <1>2, <1>3

LEMMA TotalKeeps ==
    ASSUME ReportInv, NEW r \in Row, ReadTotal(r)
    PROVE  ReportInv'
<1> DEFINE final == Max({block.amount, TotalOf(r)})
           v == block.vendor
<1>1. block \in VendorBlock /\ block.amount \in Nat /\ v \in Vendor \cup {None}
  BY DEF ReportInv, ReportType, VendorBlock
<1>2. TotalOf(r) \in Int
  <2>1. r.amount \in Amount \cup {None} /\ r.side \in Amount \cup {None}
    BY DEF Row
  <2>2. CASE r.amount # None
    BY <2>1, <2>2, ReportAssumption DEF TotalOf
  <2>3. CASE r.amount = None /\ r.side # None
    BY <2>1, <2>3, ReportAssumption DEF TotalOf, Abs
  <2>4. CASE r.amount = None /\ r.side = None
    BY <2>4 DEF TotalOf
  <2> QED
    BY <2>2, <2>3, <2>4
<1>3. final \in Int
  <2>1. \E x \in {block.amount, TotalOf(r)} : \A y \in {block.amount, TotalOf(r)} : x >= y
    BY <1>1, <1>2
  <2> QED
    BY <1>1, <1>2, <2>1 DEF Max
<1> HIDE DEF final
<1>4. /\ Process(v, final) /\ excess' = Plus(excess, v, final - block.amount)
      /\ block' = Closed /\ UNCHANGED <<lines, strays>>
  BY DEF ReadTotal, final
<1>5. /\ {paid', reported'} \subseteq [Vendor -> Int]
      /\ \A w \in Vendor : paid'[w] + reported'[w] = paid[w] + reported[w] + (IF v = w THEN final ELSE 0)
  BY <1>1, <1>3, <1>4, ProcessIs DEF ReportInv
<1>6. /\ excess' \in [Vendor -> Int]
      /\ \A w \in Vendor : excess'[w] = excess[w] + (IF v = w THEN final - block.amount ELSE 0)
  <2>1. final - block.amount \in Int /\ excess \in [Vendor -> Int]
    BY <1>1, <1>3 DEF ReportInv, ReportType
  <2> QED
    BY <1>1, <1>4, <2>1, PlusIs, ZenonT(40)
<1>7. ReportType'
  BY <1>4, <1>5, <1>6, ClosedBlock DEF ReportInv, ReportType
<1>8. ASSUME strays = 0, NEW w \in Vendor
      PROVE  paid'[w] + reported'[w] = lines[w] + excess'[w]
  <2>1. paid[w] + reported[w] + (IF v = w THEN block.amount ELSE 0) = lines[w] + excess[w]
    BY <1>8 DEF ReportInv, Balanced
  <2>2. paid[w] \in Int /\ reported[w] \in Int /\ lines[w] \in Int /\ excess[w] \in Int
    BY DEF ReportInv, ReportType
  <2>3. paid'[w] + reported'[w] = paid[w] + reported[w] + (IF v = w THEN final ELSE 0)
    BY <1>5
  <2>4. excess'[w] = excess[w] + (IF v = w THEN final - block.amount ELSE 0)
    BY <1>6
  <2> QED
    BY <1>1, <1>3, <2>1, <2>2, <2>3, <2>4
<1>9. paid' \in [Vendor -> Int] /\ reported' \in [Vendor -> Int]
  BY <1>5
<1>10. ASSUME strays' = 0, NEW w \in Vendor
       PROVE  paid'[w] + reported'[w] + (IF block'.vendor = w THEN block'.amount ELSE 0)
                  = lines'[w] + excess'[w]
  BY <1>4, <1>8, <1>9, <1>10, ClosedBlock
<1>11. Balanced'
  BY <1>4, <1>10, ClosedBlock DEF Balanced
<1> QED
  BY <1>7, <1>11 DEF ReportInv

\* A name on a row opens a block of that vendor's, once what was due is settled.
LEMMA NamedBlock ==
    ASSUME ReportInv, NEW r \in Row,
           NEW named, named = IF r.name = None THEN Flushed(r) ELSE [Flushed(r) EXCEPT !.vendor = r.name],
           IF Flushes(r) THEN Process(block.vendor, block.amount) ELSE UNCHANGED <<paid, reported>>
    PROVE  /\ named \in VendorBlock /\ Invoiced(named.invoices) <= named.amount
           /\ {paid', reported'} \subseteq [Vendor -> Int]
           /\ strays = 0 /\ named.vendor = None => named.amount = 0
           /\ strays = 0 => \A v \in Vendor :
                 paid'[v] + reported'[v] + (IF named.vendor = v THEN named.amount ELSE 0) = lines[v] + excess[v]
<1>1. block \in VendorBlock /\ block.amount \in Nat /\ block.vendor \in Vendor \cup {None}
  BY DEF ReportInv, ReportType, VendorBlock
<1>2. Flushed(r) \in VendorBlock /\ r.name \in Vendor \cup {None}
  BY <1>1, ClosedBlock DEF Flushed, Row
<1>3. /\ named \in VendorBlock /\ named.amount = Flushed(r).amount /\ named.invoices = Flushed(r).invoices
      /\ named.vendor = IF r.name = None THEN Flushed(r).vendor ELSE r.name
  BY <1>2 DEF VendorBlock
<1>4. Invoiced(named.invoices) <= named.amount
  BY <1>3, ClosedBlock DEF Flushed, ReportInv, Balanced
<1>5. /\ {paid', reported'} \subseteq [Vendor -> Int]
      /\ \A w \in Vendor : paid'[w] + reported'[w] = paid[w] + reported[w]
             + (IF Flushes(r) /\ block.vendor = w THEN block.amount ELSE 0)
  <2>1. CASE Flushes(r)
    BY <1>1, <2>1, ProcessIs DEF ReportInv
  <2>2. CASE ~Flushes(r)
    BY <2>2 DEF ReportInv, ReportType
  <2> QED
    BY <2>1, <2>2
<1>6. CASE Flushes(r)
  <2>1. named.amount = 0
    BY <1>3, <1>6, ClosedBlock DEF Flushed
  <2>2. ASSUME strays = 0, NEW v \in Vendor
        PROVE  paid'[v] + reported'[v] + (IF named.vendor = v THEN named.amount ELSE 0) = lines[v] + excess[v]
    <3>1. paid[v] + reported[v] + (IF block.vendor = v THEN block.amount ELSE 0) = lines[v] + excess[v]
      BY <2>2 DEF ReportInv, Balanced
    <3>2. lines \in [Vendor -> Int] /\ excess \in [Vendor -> Int]
      BY DEF ReportInv, ReportType
    <3>3. paid'[v] + reported'[v] = lines[v] + excess[v]
      BY <1>5, <1>6, <3>1
    <3>4. lines[v] + excess[v] \in Int
      BY <3>2
    <3> QED
      BY <2>1, <3>3, <3>4
  <2> QED
    BY <1>3, <1>4, <1>5, <2>1, <2>2
<1>7. CASE ~Flushes(r)
  <2>1. named.amount = block.amount
    BY <1>3, <1>7 DEF Flushed
  <2>2. named.vendor = block.vendor \/ block.vendor = None \/ block.amount = 0
    BY <1>1, <1>3, <1>7 DEF Flushed, Flushes
  <2>3. strays = 0 /\ named.vendor # block.vendor => block.amount = 0
    BY <2>2 DEF ReportInv, Balanced
  <2>4. ASSUME strays = 0, NEW v \in Vendor
        PROVE  paid'[v] + reported'[v] + (IF named.vendor = v THEN named.amount ELSE 0) = lines[v] + excess[v]
    <3>1. paid[v] + reported[v] + (IF block.vendor = v THEN block.amount ELSE 0) = lines[v] + excess[v]
      BY <2>4 DEF ReportInv, Balanced
    <3>2. paid'[v] + reported'[v] = paid[v] + reported[v] + 0 /\ paid[v] \in Int /\ reported[v] \in Int
      BY <1>5, <1>7 DEF ReportInv, ReportType
    <3>3. (IF named.vendor = v THEN named.amount ELSE 0) = (IF block.vendor = v THEN block.amount ELSE 0)
      BY <2>1, <2>3, <2>4
    <3> QED
      BY <3>1, <3>2, <3>3
  <2>5. strays = 0 /\ named.vendor = None => named.amount = 0
    BY <2>1, <2>2 DEF ReportInv, Balanced
  <2> QED
    BY <1>3, <1>4, <1>5, <2>4, <2>5
<1> QED
  BY <1>6, <1>7

LEMMA RowKeeps ==
    ASSUME ReportInv, NEW r \in Row, ReadRow(r)
    PROVE  ReportInv'
<1> DEFINE named == IF r.name = None THEN Flushed(r) ELSE [Flushed(r) EXCEPT !.vendor = r.name]
           continues == r.type \in {"transfer", "other", ""} /\ named.vendor # None /\ Value(r) > 0
           counts == r.type = "bill" \/ continues
           stray == IF named.vendor = None /\ r.type \in {"bill", "other"} THEN Value(r) ELSE 0
<1>1. /\ named = IF r.name = None THEN Flushed(r) ELSE [Flushed(r) EXCEPT !.vendor = r.name]
      /\ IF Flushes(r) THEN Process(block.vendor, block.amount) ELSE UNCHANGED <<paid, reported>>
      /\ block' = CASE r.type = "bill" -> Billed(named, r)
                    [] continues -> Continued(named, r)
                    [] OTHER -> named
      /\ lines' = IF counts THEN Plus(lines, named.vendor, Value(r)) ELSE lines
      /\ strays' = strays + stray
      /\ excess' = excess
  BY DEF ReadRow
<1> HIDE DEF named
<1>2. /\ named \in VendorBlock /\ Invoiced(named.invoices) <= named.amount
      /\ {paid', reported'} \subseteq [Vendor -> Int]
      /\ strays = 0 /\ named.vendor = None => named.amount = 0
      /\ strays = 0 => \A v \in Vendor :
            paid'[v] + reported'[v] + (IF named.vendor = v THEN named.amount ELSE 0) = lines[v] + excess[v]
  BY <1>1, NamedBlock
<1>3. Value(r) \in Nat /\ named.vendor \in Vendor \cup {None} /\ named.amount \in Nat
  BY <1>2, ValueType DEF VendorBlock
<1>4. /\ lines \in [Vendor -> Int] /\ excess \in [Vendor -> Int] /\ strays \in Nat
  BY DEF ReportInv, ReportType
<1>5. PICK n \in Nat : /\ n = IF counts THEN Value(r) ELSE 0
                       /\ Takes(named, block', n)
  <2>1. CASE r.type = "bill"
    <3>1. block' = Billed(named, r)
      BY <1>1, <2>1
    <3> QED
      BY <1>2, <1>3, <2>1, <3>1, BilledTakes
  <2>2. CASE r.type # "bill" /\ continues
    <3>1. block' = Continued(named, r)
      BY <1>1, <2>2
    <3> QED
      BY <1>2, <1>3, <2>2, <3>1, ContinuedTakes
  <2>3. CASE ~counts
    <3>1. block' = named
      BY <1>1, <2>3
    <3>2. named.amount + 0 = named.amount
      BY <1>3
    <3> QED
      BY <1>2, <2>3, <3>1, <3>2 DEF Takes
  <2> QED
    BY <2>1, <2>2, <2>3
<1>6. /\ block' \in VendorBlock /\ block'.vendor = named.vendor /\ block'.amount = named.amount + n
      /\ Invoiced(block'.invoices) <= block'.amount
  BY <1>5 DEF Takes
<1>7. /\ lines' \in [Vendor -> Int]
      /\ \A v \in Vendor : lines'[v] = lines[v] + (IF named.vendor = v THEN n ELSE 0)
  <2>1. CASE counts
    <3>1. lines' = Plus(lines, named.vendor, n)
      BY <1>1, <1>5, <2>1
    <3>2. n \in Int
      OBVIOUS
    <3>3. /\ Plus(lines, named.vendor, n) \in [Vendor -> Int]
          /\ \A v \in Vendor : Plus(lines, named.vendor, n)[v] = lines[v] + (IF named.vendor = v THEN n ELSE 0)
      BY <1>3, <1>4, <3>2, PlusIs
    <3> QED
      BY <3>1, <3>3
  <2>2. CASE ~counts
    <3>1. lines' = lines
      BY <1>1, <2>2
    <3>2. n = 0
      BY <1>5, <2>2
    <3> QED
      BY <1>4, <3>1, <3>2
  <2> QED
    BY <2>1, <2>2
\* Money that goes to a block without a vendor is a stray.
<1>8. /\ strays' \in Nat
      /\ strays' = 0 => strays = 0 /\ (named.vendor = None => n = 0)
  <2>1. stray \in Nat /\ strays' = strays + stray
    BY <1>1, <1>3
  <2>2. stray = 0 /\ named.vendor = None => n = 0
    BY <1>5
  <2> HIDE DEF stray
  <2> QED
    BY <1>4, <2>1, <2>2
<1>9. ReportType'
  BY <1>1, <1>2, <1>4, <1>6, <1>7, <1>8 DEF ReportType
<1>10. strays' = 0 /\ block'.vendor = None => block'.amount = 0
  BY <1>2, <1>6, <1>8
<1>11. ASSUME strays' = 0, NEW v \in Vendor
       PROVE  paid'[v] + reported'[v] + (IF block'.vendor = v THEN block'.amount ELSE 0)
                  = lines'[v] + excess'[v]
  <2>1. paid'[v] + reported'[v] + (IF named.vendor = v THEN named.amount ELSE 0) = lines[v] + excess[v]
    BY <1>2, <1>8, <1>11
  <2>2. /\ lines'[v] = lines[v] + (IF named.vendor = v THEN n ELSE 0) /\ excess'[v] = excess[v]
        /\ block'.vendor = named.vendor /\ block'.amount = named.amount + n
    BY <1>1, <1>6, <1>7
  <2>3. paid'[v] \in Int /\ reported'[v] \in Int /\ lines[v] \in Int /\ excess[v] \in Int
    BY <1>2, <1>4
  <2> QED
    BY <1>3, <2>1, <2>2, <2>3
<1>12. Balanced'
  BY <1>6, <1>10, <1>11 DEF Balanced
<1> QED
  BY <1>9, <1>12 DEF ReportInv

LEMMA EndKeeps ==
    ASSUME ReportInv, End
    PROVE  ReportInv'
<1>1. block \in VendorBlock /\ block.amount \in Nat /\ block.vendor \in Vendor \cup {None}
  BY DEF ReportInv, ReportType, VendorBlock
<1>2. /\ IF block.vendor # None /\ block.amount > 0 THEN Process(block.vendor, block.amount)
         ELSE UNCHANGED <<paid, reported>>
      /\ block' = Closed /\ UNCHANGED <<lines, excess, strays>>
  BY DEF End
<1>3. /\ {paid', reported'} \subseteq [Vendor -> Int]
      /\ \A w \in Vendor : paid'[w] + reported'[w] = paid[w] + reported[w]
             + (IF block.vendor = w THEN block.amount ELSE 0)
  <2>1. CASE block.vendor # None /\ block.amount > 0
    BY <1>1, <1>2, <2>1, ProcessIs DEF ReportInv
  <2>2. CASE ~(block.vendor # None /\ block.amount > 0)
    <3>1. \A w \in Vendor : (IF block.vendor = w THEN block.amount ELSE 0) = 0
      BY <1>1, <2>2, ReportAssumption
    <3>2. paid' = paid /\ reported' = reported /\ {paid, reported} \subseteq [Vendor -> Int]
      BY <1>2, <2>2 DEF ReportInv, ReportType
    <3>3. \A w \in Vendor : paid[w] \in Int /\ reported[w] \in Int
      BY <3>2
    <3> QED
      BY <3>1, <3>2, <3>3
  <2> QED
    BY <2>1, <2>2
<1>4. ReportType'
  BY <1>2, <1>3, ClosedBlock DEF ReportInv, ReportType
<1>5. ASSUME strays' = 0, NEW w \in Vendor
      PROVE  paid'[w] + reported'[w] + (IF block'.vendor = w THEN block'.amount ELSE 0)
                 = lines'[w] + excess'[w]
  <2>1. paid[w] + reported[w] + (IF block.vendor = w THEN block.amount ELSE 0) = lines[w] + excess[w]
    BY <1>2, <1>5 DEF ReportInv, Balanced
  <2>2. paid' \in [Vendor -> Int] /\ reported' \in [Vendor -> Int]
    BY <1>3
  <2>3. paid'[w] + reported'[w] \in Int
    BY <2>2
  <2> QED
    BY <1>2, <1>3, <2>1, <2>3, ClosedBlock
<1>6. Balanced'
  BY <1>2, <1>5, ClosedBlock DEF Balanced
<1> QED
  BY <1>4, <1>6 DEF ReportInv

\* What a vendor is paid, or refused with a message, is what its own lines and
\* TOTAL rows say, for every report whose lines come after a name, and the
\* invoices of a block never claim more than it pays (_parse_qb_excel).
THEOREM ReportMoneyStays == ReportSpec => []MoneyStaysWithVendor
<1>1. ReportInit => ReportInv
  <2> SUFFICES ASSUME ReportInit PROVE ReportInv
    OBVIOUS
  <2>1. ReportType
    BY ClosedBlock DEF ReportInit, ReportType, Nothing
  <2>2. Balanced
    BY ClosedBlock DEF ReportInit, Balanced, Nothing
  <2> QED
    BY <2>1, <2>2 DEF ReportInv
<1>2. ReportInv /\ [ReportNext]_report => ReportInv'
  <2> SUFFICES ASSUME ReportInv, [ReportNext]_report PROVE ReportInv'
    OBVIOUS
  <2>1. CASE UNCHANGED report
    BY <2>1 DEF report, ReportInv, ReportType, Balanced
  <2> QED
    BY <2>1, TotalKeeps, RowKeeps, EndKeeps DEF ReportNext, Read
<1>3. ReportInv => MoneyStaysWithVendor
  BY DEF ReportInv, Balanced, MoneyStaysWithVendor, Invoiced
<1> QED
  BY <1>1, <1>2, <1>3, PTL DEF ReportSpec

\* The same of reports read beside the other documents, the specification that is run.
THEOREM MoneyStaysWithVendorHolds == DocumentsSpec => []MoneyStaysWithVendor
<1>1. DocumentsInit => ReportInit
  BY DEF DocumentsInit
<1>2. [DocumentsNext]_documents => [ReportNext]_report
  BY DEF DocumentsNext, GiveFile, GivePayment, GiveDay, GiveName, Give, ReadReport, documents
<1>3. DocumentsSpec => ReportSpec
  BY <1>1, <1>2, PTL DEF DocumentsSpec, ReportSpec
<1> QED
  BY <1>3, ReportMoneyStays, PTL
-----------------------------------------------------------------------------
(* The calendar: months, years, and the eleven holidays of a year.          *)

Leap(y) == IF IsLeap(y) THEN 1 ELSE 0
Elapsed == <<0, 31, 59, 90, 120, 151, 181, 212, 243, 273, 304, 334>>

LEMMA MonthAdds ==
    ASSUME NEW y \in Nat, NEW m \in 1..12
    PROVE  SumFunction([k \in 1..m |-> MonthDays(y, k)])
             = SumFunction([k \in 1..(m - 1) |-> MonthDays(y, k)]) + MonthDays(y, m)
<1>1. \A k \in 1..12 : MonthDays(y, k) \in Int
  <2>1. PICK b \in BOOLEAN : b = IsLeap(y)
    BY DEF IsLeap
  <2>2. \A k \in 1..12 : MonthDays(y, k) = IF k = 2 THEN (IF b THEN 29 ELSE 28)
                                           ELSE IF k \in {4, 6, 9, 11} THEN 30 ELSE 31
    BY <2>1 DEF MonthDays
  <2> QED
    BY <2>2
<1>2. PICK D : D = 1..(m - 1)
  OBVIOUS
<1>3. IsFiniteSet(D) /\ m \notin D /\ 1..m = D \cup {m}
  <2>1. IsFiniteSet(1..(m - 1))
    BY FS_Interval
  <2> QED
    BY <1>2, <2>1
<1>4. PICK f \in [D \cup {m} -> Int] : f = [k \in D \cup {m} |-> MonthDays(y, k)]
  <2>1. \A k \in D \cup {m} : k \in 1..12
    BY <1>2
  <2>2. \A k \in D \cup {m} : MonthDays(y, k) \in Int
    BY <1>1, <2>1
  <2> QED
    BY <2>2
<1>5. SumFunction(f) = SumFunction([i \in D |-> f[i]]) + f[m]
  BY <1>3, <1>4, SumInsert
<1>6. [i \in D |-> f[i]] = [i \in D |-> MonthDays(y, i)] /\ f[m] = MonthDays(y, m)
  BY <1>4
<1> QED
  BY <1>2, <1>3, <1>4, <1>5, <1>6

LEMMA NoMonths == ASSUME NEW y PROVE SumFunction([k \in 1..(1 - 1) |-> MonthDays(y, k)]) = 0
<1>1. PICK e \in [{} -> Int] : e = [k \in {} |-> MonthDays(y, k)]
  OBVIOUS
<1>2. PICK g : IsSum(e, {}, g)
  BY <1>1, FS_EmptySet, SumExists
<1>3. SumFunction(e) = g[{}] /\ g[{}] = 0
  BY <1>1, <1>2, FS_EmptySet, SumIs DEF IsSum
<1>4. 1..(1 - 1) = {}
  OBVIOUS
<1> QED
  BY <1>1, <1>3, <1>4

\* Where the months begin, counted from the first of January.
LEMMA DateIs ==
    ASSUME NEW y \in Nat, NEW m \in 1..12, NEW d \in Int
    PROVE  /\ Date(y, 1, 1) \in Int
           /\ Date(y, m, d) = Date(y, 1, 1) + Elapsed[m] + (IF m > 2 THEN Leap(y) ELSE 0) + d - 1
<1> DEFINE B(k) == SumFunction([i \in 1..(k - 1) |-> MonthDays(y, i)])
<1>1. B(1) = 0
  BY NoMonths
<1>2. ASSUME NEW k \in 1..12 PROVE B(k + 1) = B(k) + MonthDays(y, k)
  <2>1. (k + 1) - 1 = k
    OBVIOUS
  <2> QED
    BY <2>1, MonthAdds
<1>3. Leap(y) \in {0, 1} /\ MonthDays(y, 2) = 28 + Leap(y)
  BY DEF Leap, MonthDays
<1>4. /\ MonthDays(y, 1) = 31 /\ MonthDays(y, 3) = 31 /\ MonthDays(y, 4) = 30 /\ MonthDays(y, 5) = 31
      /\ MonthDays(y, 6) = 30 /\ MonthDays(y, 7) = 31 /\ MonthDays(y, 8) = 31 /\ MonthDays(y, 9) = 30
      /\ MonthDays(y, 10) = 31 /\ MonthDays(y, 11) = 30
  BY DEF MonthDays
<1> HIDE DEF B
<1>5. /\ B(2) = 31 /\ B(3) = 59 + Leap(y) /\ B(4) = 90 + Leap(y) /\ B(5) = 120 + Leap(y)
      /\ B(6) = 151 + Leap(y) /\ B(7) = 181 + Leap(y) /\ B(8) = 212 + Leap(y) /\ B(9) = 243 + Leap(y)
      /\ B(10) = 273 + Leap(y) /\ B(11) = 304 + Leap(y) /\ B(12) = 334 + Leap(y)
  <2>1. /\ B(1 + 1) = B(1) + MonthDays(y, 1) /\ B(2 + 1) = B(2) + MonthDays(y, 2)
        /\ B(3 + 1) = B(3) + MonthDays(y, 3) /\ B(4 + 1) = B(4) + MonthDays(y, 4)
        /\ B(5 + 1) = B(5) + MonthDays(y, 5) /\ B(6 + 1) = B(6) + MonthDays(y, 6)
        /\ B(7 + 1) = B(7) + MonthDays(y, 7) /\ B(8 + 1) = B(8) + MonthDays(y, 8)
        /\ B(9 + 1) = B(9) + MonthDays(y, 9) /\ B(10 + 1) = B(10) + MonthDays(y, 10)
        /\ B(11 + 1) = B(11) + MonthDays(y, 11)
    BY <1>2
  <2>2. B(2) = 31 /\ B(3) = 59 + Leap(y)
    BY <1>1, <1>3, <1>4, <2>1
  <2>3. B(4) = 90 + Leap(y) /\ B(5) = 120 + Leap(y) /\ B(6) = 151 + Leap(y)
    BY <1>3, <1>4, <2>1, <2>2
  <2>4. B(7) = 181 + Leap(y) /\ B(8) = 212 + Leap(y) /\ B(9) = 243 + Leap(y)
    BY <1>3, <1>4, <2>1, <2>3
  <2>5. B(10) = 273 + Leap(y) /\ B(11) = 304 + Leap(y) /\ B(12) = 334 + Leap(y)
    BY <1>3, <1>4, <2>1, <2>4
  <2> QED
    BY <2>2, <2>3, <2>4, <2>5
<1>6. B(m) = Elapsed[m] + (IF m > 2 THEN Leap(y) ELSE 0)
  BY <1>1, <1>3, <1>5 DEF Elapsed
<1>7. PICK before \in Int : before = 365 * (y - 1) + (y - 1) \div 4 - (y - 1) \div 100 + (y - 1) \div 400
  OBVIOUS
<1>8. Date(y, m, d) = before + B(m) + d /\ Date(y, 1, 1) = before + B(1) + 1
  BY <1>7 DEF Date, B
<1>9. Elapsed[m] \in Int
  BY DEF Elapsed
<1> QED
  BY <1>1, <1>3, <1>6, <1>7, <1>8, <1>9

\* A year ends before the next begins.
LEMMA YearsApart ==
    ASSUME NEW y \in Nat, NEW z \in Nat, y < z
    PROVE  Date(z, 1, 1) >= Date(y, 1, 1) + 365 + Leap(y)
<1> DEFINE F(b) == 365 * b + b \div 4 - b \div 100 + b \div 400
<1>1. Date(y, 1, 1) = F(y - 1) + 1 /\ Date(z, 1, 1) = F(z - 1) + 1
  <2>1. SumFunction([k \in 1..(1 - 1) |-> MonthDays(y, k)]) = 0
    BY NoMonths
  <2>2. SumFunction([k \in 1..(1 - 1) |-> MonthDays(z, k)]) = 0
    BY NoMonths
  <2> QED
    BY <2>1, <2>2 DEF Date
<1>2. F(y) = F(y - 1) + 365 + Leap(y)
  BY DEF Leap, IsLeap
<1>3. F(z - 1) >= F(y)
  <2>1. PICK x \in Nat : x = z - 1 /\ x >= y
    OBVIOUS
  <2>2. x \div 4 >= y \div 4 /\ x \div 400 >= y \div 400
    BY <2>1
  <2>3. x \div 100 <= y \div 100 + (x - y)
    BY <2>1
  <2> QED
    BY <2>1, <2>2, <2>3
<1>4. Leap(y) \in {0, 1}
  BY DEF Leap
<1> QED
  BY <1>1, <1>2, <1>3, <1>4

\* The eleven days: five of fixed dates, six within a week of one another from year to year.
LEMMA HolidaysAre ==
    ASSUME NEW y \in Nat, NEW J, J = Date(y, 1, 1), NEW L, L = Leap(y)
    PROVE  /\ Fixed(y) = {J, J + 169 + L, J + 184 + L, J + 314 + L, J + 358 + L}
           /\ \E a \in (J + 14)..(J + 20), b \in (J + 45)..(J + 51), c \in (J + 144 + L)..(J + 150 + L),
                 d \in (J + 243 + L)..(J + 249 + L), e \in (J + 280 + L)..(J + 286 + L),
                 f \in (J + 325 + L)..(J + 331 + L) :
                 /\ Floating(y) = {a, b, c, d, e, f}
                 /\ Weekday(a) = 0 /\ Weekday(b) = 0 /\ Weekday(c) = 0 /\ Weekday(d) = 0 /\ Weekday(e) = 0
                 /\ Weekday(f) = 3
<1>1. J \in Int /\ L \in {0, 1}
  BY DateIs DEF Leap
<1>2. ASSUME NEW d \in Int
      PROVE  /\ Date(y, 1, d) = J + d - 1 /\ Date(y, 2, d) = J + 31 + d - 1
             /\ Date(y, 5, d) = J + 120 + L + d - 1 /\ Date(y, 6, d) = J + 151 + L + d - 1
             /\ Date(y, 7, d) = J + 181 + L + d - 1 /\ Date(y, 9, d) = J + 243 + L + d - 1
             /\ Date(y, 10, d) = J + 273 + L + d - 1 /\ Date(y, 11, d) = J + 304 + L + d - 1
             /\ Date(y, 12, d) = J + 334 + L + d - 1
  <2>1. \A m \in 1..12 : Date(y, m, d) = J + Elapsed[m] + (IF m > 2 THEN L ELSE 0) + d - 1
    BY DateIs
  <2> QED
    BY <1>1, <2>1 DEF Elapsed
<1>3. Fixed(y) = {J, J + 169 + L, J + 184 + L, J + 314 + L, J + 358 + L}
  <2>1. Date(y, 6, 19) = J + 169 + L
    <3>1. Date(y, 6, 19) = J + 151 + L + 19 - 1
      BY <1>2
    <3> QED
      BY <1>1, <3>1
  <2>2. Date(y, 7, 4) = J + 184 + L
    <3>1. Date(y, 7, 4) = J + 181 + L + 4 - 1
      BY <1>2
    <3> QED
      BY <1>1, <3>1
  <2>3. Date(y, 11, 11) = J + 314 + L
    <3>1. Date(y, 11, 11) = J + 304 + L + 11 - 1
      BY <1>2
    <3> QED
      BY <1>1, <3>1
  <2>4. Date(y, 12, 25) = J + 358 + L
    <3>1. Date(y, 12, 25) = J + 334 + L + 25 - 1
      BY <1>2
    <3> QED
      BY <1>1, <3>1
  <2> QED
    BY <2>1, <2>2, <2>3, <2>4 DEF Fixed
<1>4. ASSUME NEW m, NEW first \in Int, first = Date(y, m, 1), NEW wd \in 0..6, NEW n \in Nat
      PROVE  \E x \in 0..6 : /\ NthWeekday(y, m, wd, n) = first + x + 7 * (n - 1)
                             /\ Weekday(first + x + 7 * (n - 1)) = wd
  <2>1. PICK x \in 0..6 : x = (wd - Weekday(first)) % 7
    BY DEF Weekday
  <2>2. NthWeekday(y, m, wd, n) = first + x + 7 * (n - 1)
    BY <1>4, <2>1 DEF NthWeekday
  <2>3. Weekday(first + x + 7 * (n - 1)) = wd
    BY <2>1 DEF Weekday
  <2> QED
    BY <2>1, <2>2, <2>3
<1>5. LastWeekday(y, 5, 0) \in (J + 144 + L)..(J + 150 + L) /\ Weekday(LastWeekday(y, 5, 0)) = 0
  <2>1. MonthDays(y, 5) = 31
    BY DEF MonthDays
  <2>2. LastWeekday(y, 5, 0) = (J + 150 + L) - ((Weekday(J + 150 + L) - 0) % 7)
    BY <1>1, <1>2, <2>1 DEF LastWeekday
  <2> QED
    BY <1>1, <2>2 DEF Weekday
<1>6. /\ NthWeekday(y, 1, 0, 3) \in (J + 14)..(J + 20) /\ Weekday(NthWeekday(y, 1, 0, 3)) = 0
      /\ NthWeekday(y, 2, 0, 3) \in (J + 45)..(J + 51) /\ Weekday(NthWeekday(y, 2, 0, 3)) = 0
      /\ NthWeekday(y, 9, 0, 1) \in (J + 243 + L)..(J + 249 + L) /\ Weekday(NthWeekday(y, 9, 0, 1)) = 0
      /\ NthWeekday(y, 10, 0, 2) \in (J + 280 + L)..(J + 286 + L) /\ Weekday(NthWeekday(y, 10, 0, 2)) = 0
      /\ NthWeekday(y, 11, 3, 4) \in (J + 325 + L)..(J + 331 + L) /\ Weekday(NthWeekday(y, 11, 3, 4)) = 3
  <2>1. /\ Date(y, 1, 1) = J /\ Date(y, 2, 1) = J + 31 /\ Date(y, 9, 1) = J + 243 + L
        /\ Date(y, 10, 1) = J + 273 + L /\ Date(y, 11, 1) = J + 304 + L
    BY <1>1, <1>2
  <2>2. NthWeekday(y, 1, 0, 3) \in (J + 14)..(J + 20) /\ Weekday(NthWeekday(y, 1, 0, 3)) = 0
    <3>1. PICK first \in Int : first = Date(y, 1, 1) /\ first = J
      BY <1>1, <2>1
    <3>2. \E x \in 0..6 : NthWeekday(y, 1, 0, 3) = first + x + 7 * (3 - 1) /\ Weekday(first + x + 7 * (3 - 1)) = 0
      BY <1>4, <3>1
    <3> QED
      BY <1>1, <3>1, <3>2
  <2>3. NthWeekday(y, 2, 0, 3) \in (J + 45)..(J + 51) /\ Weekday(NthWeekday(y, 2, 0, 3)) = 0
    <3>1. PICK first \in Int : first = Date(y, 2, 1) /\ first = J + 31
      BY <1>1, <2>1
    <3>2. \E x \in 0..6 : NthWeekday(y, 2, 0, 3) = first + x + 7 * (3 - 1) /\ Weekday(first + x + 7 * (3 - 1)) = 0
      BY <1>4, <3>1
    <3> QED
      BY <1>1, <3>1, <3>2
  <2>4. NthWeekday(y, 9, 0, 1) \in (J + 243 + L)..(J + 249 + L) /\ Weekday(NthWeekday(y, 9, 0, 1)) = 0
    <3>1. PICK first \in Int : first = Date(y, 9, 1) /\ first = J + 243 + L
      BY <1>1, <2>1
    <3>2. \E x \in 0..6 : NthWeekday(y, 9, 0, 1) = first + x + 7 * (1 - 1) /\ Weekday(first + x + 7 * (1 - 1)) = 0
      BY <1>4, <3>1
    <3> QED
      BY <1>1, <3>1, <3>2
  <2>5. NthWeekday(y, 10, 0, 2) \in (J + 280 + L)..(J + 286 + L) /\ Weekday(NthWeekday(y, 10, 0, 2)) = 0
    <3>1. PICK first \in Int : first = Date(y, 10, 1) /\ first = J + 273 + L
      BY <1>1, <2>1
    <3>2. \E x \in 0..6 : NthWeekday(y, 10, 0, 2) = first + x + 7 * (2 - 1) /\ Weekday(first + x + 7 * (2 - 1)) = 0
      BY <1>4, <3>1
    <3> QED
      BY <1>1, <3>1, <3>2
  <2>6. NthWeekday(y, 11, 3, 4) \in (J + 325 + L)..(J + 331 + L) /\ Weekday(NthWeekday(y, 11, 3, 4)) = 3
    <3>1. PICK first \in Int : first = Date(y, 11, 1) /\ first = J + 304 + L
      BY <1>1, <2>1
    <3>2. \E x \in 0..6 : NthWeekday(y, 11, 3, 4) = first + x + 7 * (4 - 1) /\ Weekday(first + x + 7 * (4 - 1)) = 3
      BY <1>4, <3>1
    <3> QED
      BY <1>1, <3>1, <3>2
  <2> QED
    BY <2>2, <2>3, <2>4, <2>5, <2>6
<1> QED
  BY <1>3, <1>5, <1>6 DEF Floating

\* Wherever they fall, the days closed are weekdays, at least ten days apart, and the first
\* and the last are at the same distance from the ends of the year.
LEMMA FarApart ==
    ASSUME NEW y \in Nat
    PROVE  LET J == Date(y, 1, 1)
               L == Leap(y)
               H == Observed(Fixed(y)) \cup Floating(y)
           IN  /\ J \in Int /\ L \in {0, 1}
               /\ \A h \in H : h \in J..(J + 359 + L) /\ Weekday(h) < 5
               /\ \A h, k \in H : h < k => k - h >= 10
<1>1. PICK J, L, H : J = Date(y, 1, 1) /\ L = Leap(y) /\ H = Observed(Fixed(y)) \cup Floating(y)
  OBVIOUS
<1>2. J \in Int /\ L \in {0, 1}
  BY <1>1, DateIs DEF Leap
<1>3. PICK p, q, r, s, t : /\ p = J /\ q = J + 169 + L /\ r = J + 184 + L
                           /\ s = J + 314 + L /\ t = J + 358 + L
  OBVIOUS
<1>4. Fixed(y) = {p, q, r, s, t}
  BY <1>3, <1>1, HolidaysAre
<1>5. PICK a \in (J + 14)..(J + 20), b \in (J + 45)..(J + 51), c \in (J + 144 + L)..(J + 150 + L),
           d \in (J + 243 + L)..(J + 249 + L), e \in (J + 280 + L)..(J + 286 + L),
           f \in (J + 325 + L)..(J + 331 + L) :
           /\ Floating(y) = {a, b, c, d, e, f}
           /\ Weekday(a) = 0 /\ Weekday(b) = 0 /\ Weekday(c) = 0 /\ Weekday(d) = 0 /\ Weekday(e) = 0
           /\ Weekday(f) = 3
  BY <1>1, HolidaysAre
<1>6. ASSUME NEW h \in H
      PROVE  \/ h \in {a, b, c, d, e, f}
             \/ \E x \in {p, q, r, s, t} : Weekday(x) \notin {5, 6} /\ h = x
             \/ \E x \in {p, q, r, s, t} : Weekday(x) = 6 /\ h = x + 1
  BY <1>4, <1>5, <1>1 DEF Observed
<1>7. \A n \in Int : Weekday(n) \in 0..6 /\ (Weekday(n) = 6 => Weekday(n + 1) = 0)
  BY DEF Weekday
<1>8. {p, q, r, s, t} \subseteq Int /\ {a, b, c, d, e, f} \subseteq Int
  BY <1>2, <1>3
<1>9. ASSUME NEW h \in H PROVE h \in J..(J + 359 + L) /\ Weekday(h) < 5
  <2>1. CASE h \in {a, b, c, d, e, f}
    BY <1>2, <1>5, <2>1
  <2>2. CASE \E x \in {p, q, r, s, t} : Weekday(x) \notin {5, 6} /\ h = x
    <3>1. PICK x \in {p, q, r, s, t} : Weekday(x) \notin {5, 6} /\ h = x
      BY <2>2
    <3>2. Weekday(x) \in 0..6 /\ x \in J..(J + 358 + L)
      BY <1>2, <1>3, <1>7, <1>8, <3>1
    <3> QED
      BY <1>2, <3>1, <3>2
  <2>3. CASE \E x \in {p, q, r, s, t} : Weekday(x) = 6 /\ h = x + 1
    <3>1. PICK x \in {p, q, r, s, t} : Weekday(x) = 6 /\ h = x + 1
      BY <2>3
    <3>2. Weekday(h) = 0 /\ x \in J..(J + 358 + L)
      BY <1>2, <1>3, <1>7, <1>8, <3>1
    <3> QED
      BY <1>2, <3>1, <3>2
  <2> QED
    BY <1>6, <2>1, <2>2, <2>3
<1>10. ASSUME NEW h \in H, NEW k \in H, h < k PROVE k - h >= 10
  <2>1. PICK w \in {p, q, r, s, t}, x \in {p, q, r, s, t} :
           /\ h \in {a, b, c, d, e, f} \/ (h = w /\ Weekday(w) # 6) \/ (h = w + 1 /\ Weekday(w) = 6)
           /\ k \in {a, b, c, d, e, f} \/ (k = x /\ Weekday(x) # 6) \/ (k = x + 1 /\ Weekday(x) = 6)
    BY <1>6
  <2>2. CASE h \in {a, b, c, d, e, f} /\ k \in {a, b, c, d, e, f}
    BY <1>2, <1>5, <1>10, <2>2
  <2>3. CASE h \in {a, b, c, d, e, f} /\ k \in {x, x + 1}
    BY <1>2, <1>3, <1>10, <2>3
  <2>4. CASE h \in {w, w + 1} /\ k \in {a, b, c, d, e, f}
    BY <1>2, <1>3, <1>10, <2>4
  <2>5. CASE h \in {w, w + 1} /\ k \in {x, x + 1} /\ w # x
    BY <1>2, <1>3, <1>10, <2>5
  <2>6. CASE w = x /\ h \in {w, w + 1} /\ k \in {x, x + 1} /\ ~(h \in {a, b, c, d, e, f}) /\ ~(k \in {a, b, c, d, e, f})
    BY <1>2, <1>3, <1>8, <1>10, <2>1, <2>6
  <2> QED
    BY <2>1, <2>2, <2>3, <2>4, <2>5, <2>6
<1> QED
  BY <1>2, <1>9, <1>10, <1>1

\* Which year a day is in, and so whether the bank settles on it.
LEMMA DayIs ==
    ASSUME NEW y \in Years, NEW n \in Days(y)
    PROVE  /\ Days(y) = Date(y, 1, 1)..(Date(y, 1, 1) + 364 + Leap(y))
           /\ IsBankingDay(n) <=> Weekday(n) < 5 /\ n \notin Observed(Fixed(y)) \cup Floating(y)
<1>1. ASSUME NEW z \in Years
      PROVE  z \in Nat /\ Date(z, 1, 1) \in Int /\ Leap(z) \in {0, 1}
             /\ Days(z) = Date(z, 1, 1)..(Date(z, 1, 1) + 364 + Leap(z))
  <2>1. z \in Nat /\ Date(z, 1, 1) \in Int /\ Leap(z) \in {0, 1}
    BY YearsAssumption, DateIs DEF Leap
  <2>2. Days(z) = Date(z, 1, 1)..(Date(z, 1, 1) + 364 + Leap(z))
    <3>1. CASE IsLeap(z)
      BY <2>1, <3>1 DEF Days, NewYear, Leap
    <3>2. CASE ~IsLeap(z)
      BY <2>1, <3>2 DEF Days, NewYear, Leap
    <3> QED
      BY <3>1, <3>2
  <2> QED
    BY <2>1, <2>2
<1>2. ASSUME NEW z \in Years, n \in Days(z) PROVE z = y
  <2>1. n \in Int
    BY <1>1
  <2>2. PICK a, b, d, e \in Int : /\ a = Date(y, 1, 1) /\ b = Date(z, 1, 1) /\ d = Leap(y) /\ e = Leap(z)
                                 /\ n \in a..(a + 364 + d) /\ n \in b..(b + 364 + e)
    <3>1. /\ Date(y, 1, 1) \in Int /\ Date(z, 1, 1) \in Int /\ Leap(y) \in Int /\ Leap(z) \in Int
      BY <1>1
    <3>2. n \in Date(y, 1, 1)..(Date(y, 1, 1) + 364 + Leap(y))
      BY <1>1
    <3>3. n \in Date(z, 1, 1)..(Date(z, 1, 1) + 364 + Leap(z))
      BY <1>1, <1>2
    <3> QED
      BY <3>1, <3>2, <3>3
  <2>3. ~(y < z)
    <3>1. y < z => Date(z, 1, 1) >= Date(y, 1, 1) + 365 + Leap(y)
      BY <1>1, YearsApart
    <3> QED
      BY <2>1, <2>2, <3>1
  <2>4. ~(z < y)
    <3>1. z < y => Date(y, 1, 1) >= Date(z, 1, 1) + 365 + Leap(z)
      BY <1>1, YearsApart
    <3> QED
      BY <2>1, <2>2, <3>1
  <2> QED
    BY <1>1, <2>3, <2>4
<1>3. YearOf(n) = y
  BY <1>2 DEF YearOf
<1> QED
  BY <1>1, <1>3 DEF IsBankingDay, Holidays

Five(p, q, r, s, t) == {p, q, r, s, t}

LEMMA CountFive ==
    ASSUME NEW p, NEW q, NEW r, NEW s, NEW t,
           p \notin {q, r, s, t}, q \notin {r, s, t}, r \notin {s, t}, s # t
    PROVE  IsFiniteSet(Five(p, q, r, s, t)) /\ Cardinality(Five(p, q, r, s, t)) = 5
<1>1. IsFiniteSet({t}) /\ Cardinality({t}) = 1
  BY FS_Singleton
<1>2. IsFiniteSet({t} \cup {s}) /\ Cardinality({t} \cup {s}) = 2
  BY <1>1, FS_AddElement
<1>3. IsFiniteSet(({t} \cup {s}) \cup {r}) /\ Cardinality(({t} \cup {s}) \cup {r}) = 3
  BY <1>2, FS_AddElement
<1>4. PICK three : three = ({t} \cup {s}) \cup {r}
  OBVIOUS
<1>5. IsFiniteSet(three \cup {q}) /\ Cardinality(three \cup {q}) = 4
  BY <1>3, <1>4, FS_AddElement
<1>6. PICK four : four = three \cup {q}
  OBVIOUS
<1>7. IsFiniteSet(four \cup {p}) /\ Cardinality(four \cup {p}) = 5
  BY <1>4, <1>5, <1>6, FS_AddElement
<1>8. four \cup {p} = Five(p, q, r, s, t)
  BY <1>4, <1>6 DEF Five
<1> QED
  BY <1>7, <1>8

\* A fixed day on a Saturday is no closed day; the others stay different days.
LEMMA HowManyClosed ==
    ASSUME NEW y \in Nat
    PROVE  LET H == Observed(Fixed(y)) \cup Floating(y)
               saturdays == {h \in Fixed(y) : Weekday(h) = 5}
           IN  IsFiniteSet(H) /\ Cardinality(H) = 11 - Cardinality(saturdays)
<1>1. PICK J \in Int, L \in {0, 1} : J = Date(y, 1, 1) /\ L = Leap(y)
  BY DateIs DEF Leap
<1>2. PICK p, q, r, s, t : /\ p = J /\ q = J + 169 + L /\ r = J + 184 + L
                           /\ s = J + 314 + L /\ t = J + 358 + L
  OBVIOUS
<1>3. PICK F : F = Fixed(y)
  OBVIOUS
<1>4. F = {p, q, r, s, t}
  BY <1>1, <1>2, <1>3, HolidaysAre
<1>5. IsFiniteSet(F) /\ Cardinality(F) = 5
  <2>1. p \notin {q, r, s, t} /\ q \notin {r, s, t} /\ r \notin {s, t} /\ s # t
    BY <1>1, <1>2
  <2>2. IsFiniteSet(Five(p, q, r, s, t)) /\ Cardinality(Five(p, q, r, s, t)) = 5
    BY <2>1, CountFive
  <2> QED
    BY <1>4, <2>2 DEF Five
<1>6. PICK a \in (J + 14)..(J + 20), b \in (J + 45)..(J + 51), c \in (J + 144 + L)..(J + 150 + L),
           d \in (J + 243 + L)..(J + 249 + L), e \in (J + 280 + L)..(J + 286 + L),
           f \in (J + 325 + L)..(J + 331 + L) : Floating(y) = {a, b, c, d, e, f}
  BY <1>1, HolidaysAre
<1>7. IsFiniteSet(Floating(y)) /\ Cardinality(Floating(y)) = 6
  <2>1. b \notin {c, d, e, f} /\ c \notin {d, e, f} /\ d \notin {e, f} /\ e # f
    BY <1>1
  <2>2. PICK five : five = Five(b, c, d, e, f)
    OBVIOUS
  <2>3. IsFiniteSet(five) /\ Cardinality(five) = 5
    BY <2>1, <2>2, CountFive
  <2>4. a \notin five
    BY <1>1, <2>2 DEF Five
  <2>5. IsFiniteSet(five \cup {a}) /\ Cardinality(five \cup {a}) = 6
    BY <2>3, <2>4, FS_AddElement
  <2>6. Floating(y) = five \cup {a}
    BY <1>6, <2>2 DEF Five
  <2> QED
    BY <2>5, <2>6
<1>8. PICK S : S = {h \in F : Weekday(h) = 5}
  OBVIOUS
<1>9. PICK kept : kept = F \ S
  OBVIOUS
<1>10. IsFiniteSet(kept) /\ Cardinality(kept) = 5 - Cardinality(S)
  <2>1. F \cap S = S
    BY <1>8
  <2> QED
    BY <1>5, <1>9, <2>1, FS_Difference
<1>11. PICK O : O = Observed(F)
  OBVIOUS
<1>12. IsFiniteSet(O) /\ Cardinality(O) = Cardinality(kept)
  <2>1. PICK g : g = [h \in kept |-> IF Weekday(h) = 6 THEN h + 1 ELSE h]
    OBVIOUS
  <2>2. ASSUME NEW h \in F, NEW k \in F, h # k PROVE h # k + 1 /\ h + 1 # k + 1
    BY <1>1, <1>2, <1>4, <2>2
  <2>3. \A h, k \in kept : g[h] = g[k] => h = k
    BY <1>9, <2>1, <2>2
  <2>4. \A h \in kept : g[h] \in O
    BY <1>8, <1>9, <1>11, <2>1 DEF Observed
  <2>5. \A x \in O : \E h \in kept : g[h] = x
    BY <1>8, <1>9, <1>11, <2>1 DEF Observed
  <2>6. g \in [kept -> O] /\ DOMAIN g = kept
    BY <2>1, <2>4
  <2>7. g \in Bijection(kept, O)
    <3>1. IsInjective(g)
      BY <2>3, <2>6 DEF IsInjective
    <3> QED
      BY <2>5, <2>6, <3>1 DEF Bijection, Injection, Surjection
  <2>8. ExistsBijection(kept, O)
    BY <2>7 DEF ExistsBijection
  <2> QED
    BY <1>10, <2>8, FS_Bijection
<1>13. O \cap Floating(y) = {}
  <2>1. \A x \in O : \E h \in F : x = h \/ x = h + 1
    BY <1>11 DEF Observed
  <2>2. \A h \in F : h \notin {a, b, c, d, e, f} /\ h + 1 \notin {a, b, c, d, e, f}
    BY <1>1, <1>2, <1>4
  <2> QED
    BY <1>6, <2>1, <2>2
<1>14. IsFiniteSet(S) /\ Cardinality(S) \in Nat
  BY <1>5, <1>8, FS_Subset, FS_CardinalityType
<1>15. IsFiniteSet(O \cup Floating(y)) /\ Cardinality(O \cup Floating(y)) = 11 - Cardinality(S)
  <2>1. Cardinality(O \cap Floating(y)) = 0
    BY <1>13, FS_EmptySet
  <2>2. /\ IsFiniteSet(O \cup Floating(y))
        /\ Cardinality(O \cup Floating(y)) = Cardinality(O) + Cardinality(Floating(y)) - Cardinality(O \cap Floating(y))
    BY <1>7, <1>12, FS_Union
  <2> QED
    BY <1>7, <1>10, <1>12, <1>14, <2>1, <2>2
<1> QED
  BY <1>3, <1>8, <1>11, <1>15

\* The bank is never closed for four days, at the turn of a year neither.
LEMMA OpenWithinFour ==
    ASSUME NEW n \in Int, \A k \in 0..3 : \E y \in Years : n + k \in Days(y)
    PROVE  \E k \in 0..3 : IsBankingDay(n + k)
<1> DEFINE H(y) == Observed(Fixed(y)) \cup Floating(y)
<1>1. PICK i \in 0..3, j \in 0..3 : i < j /\ Weekday(n + i) < 5 /\ Weekday(n + j) < 5
  <2>1. PICK w \in 0..6 : Weekday(n) = w
    BY DEF Weekday
  <2>2. /\ Weekday(n + 0) = w /\ Weekday(n + 1) = (w + 1) % 7
        /\ Weekday(n + 2) = (w + 2) % 7 /\ Weekday(n + 3) = (w + 3) % 7
    BY <2>1 DEF Weekday
  <2>3. w \in 0..3 => Weekday(n + 0) < 5 /\ Weekday(n + 1) < 5
    BY <2>2
  <2>4. w = 4 => Weekday(n + 0) < 5 /\ Weekday(n + 3) < 5
    BY <2>2
  <2>5. w \in {5, 6} => Weekday(n + 2) < 5 /\ Weekday(n + 3) < 5
    BY <2>2
  <2> QED
    BY <2>3, <2>4, <2>5
<1>2. PICK y \in Years, z \in Years : n + i \in Days(y) /\ n + j \in Days(z)
  OBVIOUS
<1>3. y \in Nat /\ z \in Nat
  BY YearsAssumption
<1>4. PICK J, L, G : J = Date(y, 1, 1) /\ L = Leap(y) /\ G = H(y)
  OBVIOUS
<1>5. PICK K, M, I : K = Date(z, 1, 1) /\ M = Leap(z) /\ I = H(z)
  OBVIOUS
<1>6. /\ J \in Int /\ L \in {0, 1}
      /\ \A h \in G : h \in J..(J + 359 + L) /\ Weekday(h) < 5
      /\ \A h, k \in G : h < k => k - h >= 10
  BY <1>3, <1>4, FarApart
<1>7. /\ K \in Int /\ M \in {0, 1}
      /\ \A h \in I : h \in K..(K + 359 + M) /\ Weekday(h) < 5
  BY <1>3, <1>5, FarApart
<1>8. ~(n + i \in G /\ n + j \in I)
  <2>1. CASE y = z
    <3>1. n + i < n + j /\ ~((n + j) - (n + i) >= 10)
      BY <1>1
    <3> QED
      BY <1>4, <1>5, <1>6, <2>1, <3>1
  <2>2. CASE y < z
    <3>1. K >= J + 365 + L
      BY <1>3, <1>4, <1>5, <2>2, YearsApart
    <3>2. n + i \in G /\ n + j \in I => n + i <= J + 359 + L /\ n + j >= K
      BY <1>6, <1>7
    <3> QED
      BY <1>1, <1>6, <1>7, <3>1, <3>2
  <2>3. CASE z < y
    <3>1. J >= K + 365 + M
      BY <1>3, <1>4, <1>5, <2>3, YearsApart
    <3>2. n + i \in G /\ n + j \in I => n + j <= K + 359 + M /\ n + i >= J
      BY <1>6, <1>7
    <3> QED
      BY <1>1, <1>6, <1>7, <3>1, <3>2
  <2> QED
    BY <1>3, <2>1, <2>2, <2>3
<1>9. IsBankingDay(n + i) <=> Weekday(n + i) < 5 /\ n + i \notin G
  BY <1>2, <1>4, DayIs
<1>10. IsBankingDay(n + j) <=> Weekday(n + j) < 5 /\ n + j \notin I
  BY <1>2, <1>5, DayIs
<1> QED
  BY <1>1, <1>8, <1>9, <1>10

\* Every year, of any calendar: no holiday is lost to a weekend that the Reserve Banks
\* observe, none falls on another, and the bank is never closed for four days
\* (federal_reserve_holidays).
THEOREM HolidaysAreObserved == \A y \in Years : HolidaysObserved(y)
<1> SUFFICES ASSUME NEW y \in Years PROVE HolidaysObserved(y)
  OBVIOUS
<1>1. y \in Nat
  BY YearsAssumption
<1>2. PICK J, L, H : J = Date(y, 1, 1) /\ L = Leap(y) /\ H = Observed(Fixed(y)) \cup Floating(y)
  OBVIOUS
<1>3. /\ J \in Int /\ L \in {0, 1}
      /\ \A h \in H : h \in J..(J + 359 + L) /\ Weekday(h) < 5
      /\ \A h, k \in H : h < k => k - h >= 10
  BY <1>1, <1>2, FarApart
<1>4. PICK D : D = Days(y)
  OBVIOUS
<1>5. D = J..(J + 364 + L)
  <2>1. Days(y) # {}
    <3>1. CASE IsLeap(y)
      BY <1>1, <1>2, <1>3, <3>1 DEF Days, NewYear
    <3>2. CASE ~IsLeap(y)
      BY <1>1, <1>2, <1>3, <3>2 DEF Days, NewYear
    <3> QED
      BY <3>1, <3>2
  <2> QED
    BY <1>2, <1>4, <2>1, DayIs
<1>6. \A n \in D : IsBankingDay(n) <=> Weekday(n) < 5 /\ n \notin H
  BY <1>2, <1>4, DayIs
<1>7. PICK S : S = {h \in Fixed(y) : Weekday(h) = 5}
  OBVIOUS
<1>8. Cardinality({n \in D : Weekday(n) < 5 /\ ~IsBankingDay(n)}) = 11 - Cardinality(S)
  <2>1. {n \in D : Weekday(n) < 5 /\ ~IsBankingDay(n)} = H
    <3>1. \A h \in H : h \in D
      BY <1>3, <1>5
    <3> QED
      BY <1>3, <1>6, <3>1
  <2>2. Cardinality(H) = 11 - Cardinality(S)
    BY <1>1, <1>2, <1>7, HowManyClosed
  <2> QED
    BY <2>1, <2>2
<1>9. ASSUME NEW n \in D, n + 3 \in D PROVE \E k \in 0..3 : IsBankingDay(n + k)
  <2>1. n \in Int /\ \A k \in 0..3 : n + k \in Days(y)
    BY <1>3, <1>4, <1>5, <1>9
  <2> QED
    BY <2>1, OpenWithinFour
<1>10. ASSUME NEW h \in Fixed(y), Weekday(h) = 6 PROVE h + 1 \in D /\ ~IsBankingDay(h + 1)
  <2>1. h + 1 \in H
    BY <1>2, <1>10 DEF Observed
  <2> QED
    BY <1>3, <1>5, <1>6, <2>1
<1> QED
  BY <1>4, <1>7, <1>8, <1>9, <1>10 DEF HolidaysObserved

(* The banking day some days ahead.                                         *)

Open(n, k) == {j \in (n + 1)..k : IsBankingDay(j)}

LEMMA OpenCounts ==
    ASSUME NEW n \in Int, NEW k \in Int
    PROVE  /\ IsFiniteSet(Open(n, k)) /\ Cardinality(Open(n, k)) \in Nat
           /\ k <= n => Cardinality(Open(n, k)) = 0
           /\ n < k => Cardinality(Open(n, k))
                         = Cardinality(Open(n + 1, k)) + (IF IsBankingDay(n + 1) THEN 1 ELSE 0)
           /\ n < k /\ IsBankingDay(k) => Cardinality(Open(n, k)) > 0
<1>1. ASSUME NEW x \in Int PROVE IsFiniteSet(Open(x, k)) /\ Cardinality(Open(x, k)) \in Nat
  <2>1. IsFiniteSet((x + 1)..k)
    BY FS_Interval
  <2>2. Open(x, k) \in SUBSET ((x + 1)..k)
    BY DEF Open
  <2> QED
    BY <2>1, <2>2, FS_Subset, FS_CardinalityType
<1>2. ASSUME k <= n PROVE Cardinality(Open(n, k)) = 0
  <2>1. Open(n, k) = {}
    BY <1>2 DEF Open
  <2> QED
    BY <2>1, FS_EmptySet
<1>3. ASSUME n < k
      PROVE  Cardinality(Open(n, k)) = Cardinality(Open(n + 1, k)) + (IF IsBankingDay(n + 1) THEN 1 ELSE 0)
  <2>1. IsFiniteSet(Open(n + 1, k)) /\ Cardinality(Open(n + 1, k)) \in Nat
    BY <1>1
  <2>2. (n + 1)..k = {n + 1} \cup ((n + 1) + 1)..k /\ n + 1 \notin ((n + 1) + 1)..k
    BY <1>3
  <2>3. CASE IsBankingDay(n + 1)
    <3>1. Open(n, k) = Open(n + 1, k) \cup {n + 1} /\ n + 1 \notin Open(n + 1, k)
      BY <2>2, <2>3 DEF Open
    <3> QED
      BY <2>1, <2>3, <3>1, FS_AddElement
  <2>4. CASE ~IsBankingDay(n + 1)
    <3>1. Open(n, k) = Open(n + 1, k)
      BY <2>2, <2>4 DEF Open
    <3> QED
      BY <2>1, <2>4, <3>1
  <2> QED
    BY <2>3, <2>4
<1>4. ASSUME n < k, IsBankingDay(k) PROVE Cardinality(Open(n, k)) > 0
  <2>1. k \in Open(n, k)
    BY <1>4 DEF Open
  <2> QED
    BY <1>1, <2>1, FS_EmptySet
<1> QED
  BY <1>1, <1>2, <1>3, <1>4

\* One day at a time, until as many banking days have passed: there is such a function.
Less(n, left) == IF IsBankingDay(n + 1) THEN left - 1 ELSE left
Walks(f) == f = [at \in Nat \X Nat |->
                    IF at[2] = 0 THEN at[1] ELSE f[<<at[1] + 1, Less(at[1], at[2])>>]]

LEMMA WalkExists == \E f : Walks(f)
<1> DEFINE S(n, left) == {k \in Nat : /\ k >= n /\ Cardinality(Open(n, k)) = left
                                      /\ k = n \/ IsBankingDay(k)}
           G == [at \in Nat \X Nat |->
                    IF at[2] = 0 THEN at[1] ELSE CHOOSE k : k \in S(at[1], at[2])]
<1>1. ASSUME NEW n \in Nat, NEW left \in Nat, left # 0 PROVE S(n, left) = S(n + 1, Less(n, left))
  <2>1. ASSUME NEW k \in Nat
        PROVE  k \in S(n, left) <=> k \in S(n + 1, Less(n, left))
    <3>1. n \in Int /\ n + 1 \in Int /\ k \in Int
      OBVIOUS
    <3>2. PICK a, b : a = Cardinality(Open(n, k)) /\ b = Cardinality(Open(n + 1, k))
      OBVIOUS
    <3>3. /\ k <= n => a = 0
          /\ n < k => a = b + (IF IsBankingDay(n + 1) THEN 1 ELSE 0)
      BY <3>1, <3>2, OpenCounts
    <3>4. b \in Nat /\ (k <= n + 1 => b = 0) /\ (n + 1 < k /\ IsBankingDay(k) => b > 0)
      BY <3>1, <3>2, OpenCounts
    <3>5. k \in S(n, left) <=> k >= n /\ a = left /\ (k = n \/ IsBankingDay(k))
      BY <3>2
    <3>6. k \in S(n + 1, Less(n, left))
            <=> k >= n + 1 /\ b = Less(n, left) /\ (k = n + 1 \/ IsBankingDay(k))
      BY <3>2
    <3> HIDE DEF S
    <3>7. CASE k <= n
      BY <1>1, <3>3, <3>5, <3>6, <3>7
    <3>8. CASE k = n + 1
      BY <1>1, <3>3, <3>4, <3>5, <3>6, <3>8 DEF Less
    <3>9. CASE k > n + 1
      BY <1>1, <3>3, <3>4, <3>5, <3>6, <3>9 DEF Less
    <3> QED
      BY <3>1, <3>7, <3>8, <3>9
  <2> QED
    BY <2>1
<1>2. ASSUME NEW n \in Nat PROVE S(n + 1, 0) = {n + 1}
  <2>1. n + 1 \in Int /\ n + 1 \in Nat
    OBVIOUS
  <2>2. ASSUME NEW k \in Nat, k > n + 1, IsBankingDay(k) PROVE Cardinality(Open(n + 1, k)) # 0
    <3>1. k \in Int /\ n + 1 < k
      BY <2>2
    <3>2. Cardinality(Open(n + 1, k)) > 0
      BY <2>1, <2>2, <3>1, OpenCounts
    <3> QED
      BY <3>2
  <2>3. Cardinality(Open(n + 1, n + 1)) = 0
    BY <2>1, OpenCounts
  <2> QED
    BY <2>1, <2>2, <2>3
<1> HIDE DEF S
<1>3. ASSUME NEW n \in Nat, NEW left \in Nat
      PROVE  G[<<n, left>>] = IF left = 0 THEN n ELSE G[<<n + 1, Less(n, left)>>]
  <2>1. ASSUME NEW i \in Nat, NEW j \in Nat
        PROVE  G[<<i, j>>] = IF j = 0 THEN i ELSE CHOOSE k : k \in S(i, j)
    <3>1. <<i, j>> \in Nat \X Nat /\ <<i, j>>[1] = i /\ <<i, j>>[2] = j
      OBVIOUS
    <3>2. \A at \in Nat \X Nat : G[at] = IF at[2] = 0 THEN at[1]
                                         ELSE CHOOSE k : k \in S(at[1], at[2])
      BY Zenon
    <3> HIDE DEF G
    <3> QED
      BY <3>1, <3>2
  <2> HIDE DEF G
  <2>2. CASE left = 0
    BY <2>1, <2>2
  <2>3. CASE left # 0
    <3>1. Less(n, left) \in Nat /\ n + 1 \in Nat
      BY <2>3 DEF Less
    <3>2. G[<<n, left>>] = CHOOSE k : k \in S(n, left)
      BY <2>1, <2>3
    <3>3. S(n, left) = S(n + 1, Less(n, left))
      BY <1>1, <2>3
    <3>4. CASE Less(n, left) = 0
      <4>1. S(n, left) = {n + 1}
        BY <1>2, <3>3, <3>4
      <4>2. G[<<n, left>>] = n + 1
        BY <3>2, <4>1
      <4>3. G[<<n + 1, Less(n, left)>>] = n + 1
        BY <2>1, <3>1, <3>4
      <4> QED
        BY <2>3, <4>2, <4>3
    <3>5. CASE Less(n, left) # 0
      <4>1. G[<<n + 1, Less(n, left)>>] = CHOOSE k : k \in S(n + 1, Less(n, left))
        BY <2>1, <3>1, <3>5
      <4> QED
        BY <2>3, <3>2, <3>3, <4>1
    <3> QED
      BY <3>4, <3>5
  <2> QED
    BY <2>2, <2>3
<1>4. G = [at \in Nat \X Nat |-> G[at]]
  OBVIOUS
<1> HIDE DEF G
<1>5. \A at \in Nat \X Nat : G[at] = IF at[2] = 0 THEN at[1] ELSE G[<<at[1] + 1, Less(at[1], at[2])>>]
  <2>1. ASSUME NEW at \in Nat \X Nat
        PROVE  G[at] = IF at[2] = 0 THEN at[1] ELSE G[<<at[1] + 1, Less(at[1], at[2])>>]
    <3>1. PICK n \in Nat, left \in Nat : at = <<n, left>>
      OBVIOUS
    <3>2. at[1] = n /\ at[2] = left
      BY <3>1
    <3> QED
      BY <1>3, <3>1, <3>2
  <2> QED
    BY <2>1
<1>6. Walks(G)
  BY <1>4, <1>5 DEF Walks
<1> QED
  BY <1>6

LEMMA AfterStep ==
    ASSUME NEW n \in Nat, NEW left \in Nat
    PROVE  After[<<n, left>>] = IF left = 0 THEN n ELSE After[<<n + 1, Less(n, left)>>]
<1>1. After = CHOOSE f : Walks(f)
  BY Zenon DEF After, Walks, Less
<1>2. Walks(After)
  BY <1>1, WalkExists
<1>3. <<n, left>> \in Nat \X Nat /\ <<n, left>>[1] = n /\ <<n, left>>[2] = left
  OBVIOUS
<1> QED
  BY <1>2, <1>3 DEF Walks

\* The walk ends on a banking day with as many of them behind it as were asked for.
LEMMA AfterIs ==
    ASSUME NEW n \in Nat, NEW k \in Nat, n < k, IsBankingDay(k)
    PROVE  After[<<n, Cardinality(Open(n, k))>>] = k
<1> DEFINE N == k - n
           Good == {i \in 0..N : After[<<k - i, Cardinality(Open(k - i, k))>>] = k}
<1>1. N \in Nat /\ (\A i \in 0..N : k - i \in Nat) /\ k \in Int
  OBVIOUS
<1>2. 0 \in Good
  <2>1. Cardinality(Open(k, k)) = 0 /\ k - 0 = k
    BY <1>1, OpenCounts
  <2>2. After[<<k, 0>>] = k
    BY AfterStep
  <2> QED
    BY <1>1, <2>1, <2>2
<1>3. ASSUME NEW i \in 0..N, i \in Good, i + 1 \in 0..N PROVE i + 1 \in Good
  <2>1. PICK m \in Nat : m = k - (i + 1) /\ m + 1 = k - i /\ m < k
    BY <1>1, <1>3
  <2>2. m \in Int /\ m + 1 \in Int
    OBVIOUS
  <2>3. PICK left \in Nat : left = Cardinality(Open(m, k)) /\ left # 0
    <3>1. Cardinality(Open(m, k)) > 0 /\ Cardinality(Open(m, k)) \in Nat
      BY <1>1, <2>1, <2>2, OpenCounts
    <3> QED
      BY <3>1
  <2>4. left = Cardinality(Open(m + 1, k)) + (IF IsBankingDay(m + 1) THEN 1 ELSE 0)
    BY <1>1, <2>1, <2>2, <2>3, OpenCounts
  <2>5. Cardinality(Open(m + 1, k)) \in Nat
    BY <1>1, <2>2, OpenCounts
  <2>6. Less(m, left) = Cardinality(Open(m + 1, k))
    BY <2>4, <2>5 DEF Less
  <2>7. After[<<m, left>>] = After[<<m + 1, Cardinality(Open(m + 1, k))>>]
    BY <2>3, <2>6, AfterStep
  <2>8. After[<<m + 1, Cardinality(Open(m + 1, k))>>] = k
    BY <1>3, <2>1
  <2> QED
    BY <1>3, <2>1, <2>3, <2>7, <2>8
<1>4. \A i \in 0..N : i \in Good
  <2> HIDE DEF Good, N
  <2> QED
    BY <1>1, <1>2, <1>3, Upwards
<1>5. N \in Good /\ k - N = n
  BY <1>1, <1>4
<1> QED
  BY <1>5

\* The next banking day is at most four days away.
LEMMA NextOpen ==
    ASSUME NEW n \in Nat, \A i \in 1..4 : \E z \in Years : n + i \in Days(z)
    PROVE  \E k \in (n + 1)..(n + 4) : Open(n, k) = {k}
<1> DEFINE S == {k \in (n + 1)..(n + 4) : IsBankingDay(k)}
<1>1. PICK i \in 0..3 : IsBankingDay(n + 1 + i)
  <2>1. n + 1 \in Int
    OBVIOUS
  <2>2. ASSUME NEW i \in 0..3 PROVE \E z \in Years : n + 1 + i \in Days(z)
    <3>1. i + 1 \in 1..4 /\ n + 1 + i = n + (i + 1)
      OBVIOUS
    <3> QED
      BY <3>1
  <2> QED
    BY <2>1, <2>2, OpenWithinFour
<1>2. n + 1 + i \in S /\ S \in SUBSET Nat
  BY <1>1
<1>3. PICK k \in S : \A j \in S : k <= j
  <2> HIDE DEF S
  <2> QED
    BY <1>2, LeastNumber
<1>4. Open(n, k) = {k}
  <2>1. ASSUME NEW j \in (n + 1)..k, IsBankingDay(j) PROVE j = k
    <3>1. j \in S
      BY <2>1
    <3> QED
      BY <1>3, <3>1
  <2> QED
    BY <1>3, <2>1 DEF Open
<1> QED
  BY <1>3, <1>4

\* The next three, and what the walk finds.
LEMMA NextThree ==
    ASSUME NEW n \in Nat, \A i \in 1..12 : \E z \in Years : n + i \in Days(z)
    PROVE  /\ \A lead \in 1..3 :
                 /\ IsBankingDay(After[<<n, lead>>])
                 /\ Cardinality(Open(n, After[<<n, lead>>])) = lead
           /\ After[<<n, 1>>] \in (n + 1)..(n + 4)
           /\ Open(n, After[<<n, 1>>]) = {After[<<n, 1>>]}
<1>1. PICK a \in (n + 1)..(n + 4) : Open(n, a) = {a}
  <2>1. \A i \in 1..4 : i \in 1..12
    OBVIOUS
  <2> QED
    BY <2>1, NextOpen
<1>2. PICK b \in (a + 1)..(a + 4) : Open(a, b) = {b}
  <2>1. ASSUME NEW i \in 1..4 PROVE \E z \in Years : a + i \in Days(z)
    <3>1. PICK j \in 1..12 : n + j = a + i
      <4>1. a + i - n \in 1..12 /\ n + (a + i - n) = a + i
        OBVIOUS
      <4> QED
        BY <4>1
    <3> QED
      BY <3>1
  <2>2. a \in Nat
    OBVIOUS
  <2> QED
    BY <2>1, <2>2, NextOpen
<1>3. PICK c \in (b + 1)..(b + 4) : Open(b, c) = {c}
  <2>1. ASSUME NEW i \in 1..4 PROVE \E z \in Years : b + i \in Days(z)
    <3>1. PICK j \in 1..12 : n + j = b + i
      <4>1. b + i - n \in 1..12 /\ n + (b + i - n) = b + i
        OBVIOUS
      <4> QED
        BY <4>1
    <3> QED
      BY <3>1
  <2>2. b \in Nat
    OBVIOUS
  <2> QED
    BY <2>1, <2>2, NextOpen
<1>4. a \in Nat /\ b \in Nat /\ c \in Nat /\ n < a /\ a < b /\ b < c
  OBVIOUS
<1>5. IsBankingDay(a) /\ IsBankingDay(b) /\ IsBankingDay(c)
  <2>1. a \in Open(n, a) /\ b \in Open(a, b) /\ c \in Open(b, c)
    BY <1>1, <1>2, <1>3
  <2> QED
    BY <2>1 DEF Open
<1>6. PICK A : A = {a} /\ IsFiniteSet(A) /\ Cardinality(A) = 1
  BY FS_Singleton
<1>7. PICK B : B = A \cup {b}
  OBVIOUS
<1>8. Open(n, b) = B
  <2>1. (n + 1)..b = (n + 1)..a \cup (a + 1)..b
    BY <1>4
  <2>2. Open(n, b) = Open(n, a) \cup Open(a, b)
    BY <2>1 DEF Open
  <2> QED
    BY <1>1, <1>2, <1>6, <1>7, <2>2
<1>9. Open(n, c) = B \cup {c}
  <2>1. (n + 1)..c = (n + 1)..b \cup (b + 1)..c
    BY <1>4
  <2>2. Open(n, c) = Open(n, b) \cup Open(b, c)
    BY <2>1 DEF Open
  <2> QED
    BY <1>3, <1>8, <2>2
<1>10. IsFiniteSet(B) /\ Cardinality(B) = 2
  <2>1. b \notin A
    BY <1>4, <1>6
  <2>2. IsFiniteSet(A \cup {b}) /\ Cardinality(A \cup {b}) = Cardinality(A) + 1
    BY <1>6, <2>1, FS_AddElement
  <2> QED
    BY <1>6, <1>7, <2>2
<1>11. Cardinality(B \cup {c}) = 3
  <2>1. c \notin B
    BY <1>4, <1>6, <1>7
  <2>2. Cardinality(B \cup {c}) = Cardinality(B) + 1
    BY <1>10, <2>1, FS_AddElement
  <2> QED
    BY <1>10, <2>2
<1>12. After[<<n, 1>>] = a
  BY <1>1, <1>4, <1>5, <1>6, AfterIs
<1>13. After[<<n, 2>>] = b
  <2>1. n < b
    BY <1>4
  <2> QED
    BY <1>4, <1>5, <1>8, <1>10, <2>1, AfterIs
<1>14. After[<<n, 3>>] = c
  <2>1. n < c
    BY <1>4
  <2> QED
    BY <1>4, <1>5, <1>9, <1>11, <2>1, AfterIs
<1>15. ASSUME NEW lead \in 1..3
       PROVE  IsBankingDay(After[<<n, lead>>]) /\ Cardinality(Open(n, After[<<n, lead>>])) = lead
  <2>1. lead = 1 \/ lead = 2 \/ lead = 3
    OBVIOUS
  <2> QED
    BY <1>1, <1>5, <1>6, <1>8, <1>9, <1>10, <1>11, <1>12, <1>13, <1>14, <2>1
<1> QED
  BY <1>1, <1>12, <1>15

\* A day of a month is a day of its year.
LEMMA DateInYear ==
    ASSUME NEW y \in Nat, NEW m \in 1..12, NEW d \in 1..MonthDays(y, m)
    PROVE  Date(y, m, d) \in Date(y, 1, 1)..(Date(y, 1, 1) + 364 + Leap(y))
<1>1. Leap(y) \in {0, 1} /\ MonthDays(y, 2) = 28 + Leap(y)
  BY DEF Leap, MonthDays
<1>2. /\ MonthDays(y, 1) = 31 /\ MonthDays(y, 3) = 31 /\ MonthDays(y, 4) = 30 /\ MonthDays(y, 5) = 31
      /\ MonthDays(y, 6) = 30 /\ MonthDays(y, 7) = 31 /\ MonthDays(y, 8) = 31 /\ MonthDays(y, 9) = 30
      /\ MonthDays(y, 10) = 31 /\ MonthDays(y, 11) = 30 /\ MonthDays(y, 12) = 31
  BY DEF MonthDays
<1>3. PICK M : M = MonthDays(y, m)
  OBVIOUS
<1>4. /\ m = 1 => M = 31 /\ Elapsed[m] = 0
      /\ m = 2 => M = 28 + Leap(y) /\ Elapsed[m] = 31
      /\ m = 3 => M = 31 /\ Elapsed[m] = 59
      /\ m = 4 => M = 30 /\ Elapsed[m] = 90
      /\ m = 5 => M = 31 /\ Elapsed[m] = 120
      /\ m = 6 => M = 30 /\ Elapsed[m] = 151
      /\ m = 7 => M = 31 /\ Elapsed[m] = 181
      /\ m = 8 => M = 31 /\ Elapsed[m] = 212
      /\ m = 9 => M = 30 /\ Elapsed[m] = 243
      /\ m = 10 => M = 31 /\ Elapsed[m] = 273
      /\ m = 11 => M = 30 /\ Elapsed[m] = 304
      /\ m = 12 => M = 31 /\ Elapsed[m] = 334
  BY <1>1, <1>2, <1>3 DEF Elapsed
<1>5. M \in 28..31 /\ M \in Int /\ Elapsed[m] \in 0..334 /\ m \in Int
      /\ Elapsed[m] + (IF m > 2 THEN Leap(y) ELSE 0) + M <= 365 + Leap(y)
  BY <1>1, <1>4
<1>6. d \in Int /\ 1 <= d /\ d <= M
  BY <1>3, <1>5
<1>7. /\ Date(y, 1, 1) \in Int
      /\ Date(y, m, d) = Date(y, 1, 1) + Elapsed[m] + (IF m > 2 THEN Leap(y) ELSE 0) + d - 1
  BY <1>6, DateIs
<1>8. PICK J \in Int, L \in {0, 1} : J = Date(y, 1, 1) /\ L = Leap(y)
  BY <1>1, <1>7
<1>9. PICK E \in Int : E = Elapsed[m] /\ E >= 0
  BY <1>5
<1>10. PICK X \in Int : X = (IF m > 2 THEN L ELSE 0) /\ X >= 0
  BY <1>5, <1>8
<1>11. 0 <= E + X /\ E + X + M <= 365 + L /\ Date(y, m, d) = J + E + X + d - 1
  BY <1>5, <1>7, <1>8, <1>9, <1>10
<1>12. J + E + X + d - 1 \in J..(J + 364 + L)
  BY <1>5, <1>6, <1>11
<1> QED
  BY <1>8, <1>11, <1>12

\* In any run of years that two digits can name, and on any day of them but the last year's.
LEMMA CalendarsAgree ==
    ASSUME NEW y \in Years, y + 1 \in Years, y \in 1969..2068,
           NEW m \in 1..12, NEW d \in 1..MonthDays(y, m)
    PROVE  CalendarAgrees(y, m, d)
<1>1. PICK T : T = Date(y, m, d)
  OBVIOUS
<1>2. y \in Nat /\ y + 1 \in Nat /\ y < y + 1
  OBVIOUS
<1>3. PICK J \in Int, K \in Int, L \in {0, 1}, M \in {0, 1} :
         J = Date(y, 1, 1) /\ K = Date(y + 1, 1, 1) /\ L = Leap(y) /\ M = Leap(y + 1)
  <2>1. Date(y, 1, 1) \in Int /\ Date(y + 1, 1, 1) \in Int
    BY <1>2, DateIs
  <2>2. Leap(y) \in {0, 1} /\ Leap(y + 1) \in {0, 1}
    BY DEF Leap
  <2> QED
    BY <2>1, <2>2
<1>4. T \in J..(J + 364 + L) /\ J >= 1
  <2>1. Date(y, 1, 1) >= 1
    <3>1. SumFunction([k \in 1..(1 - 1) |-> MonthDays(y, k)]) = 0
      BY NoMonths
    <3> QED
      BY <3>1 DEF Date
  <2>2. T \in Date(y, 1, 1)..(Date(y, 1, 1) + 364 + Leap(y))
    BY <1>1, <1>2, DateInYear
  <2> QED
    BY <1>3, <2>1, <2>2
<1>5. K = J + 365 + L
  <2>1. SumFunction([k \in 1..(1 - 1) |-> MonthDays(y, k)]) = 0
    BY NoMonths
  <2>2. SumFunction([k \in 1..(1 - 1) |-> MonthDays(y + 1, k)]) = 0
    BY NoMonths
  <2>3. PICK b \in Nat : b = y - 1 /\ (y + 1) - 1 = b + 1
    BY <1>2
  <2>4. /\ J = 365 * b + b \div 4 - b \div 100 + b \div 400 + 1
        /\ K = 365 * (b + 1) + (b + 1) \div 4 - (b + 1) \div 100 + (b + 1) \div 400 + 1
    BY <1>3, <2>1, <2>2, <2>3 DEF Date
  <2>5. L = IF (b + 1) % 4 = 0 /\ ((b + 1) % 100 # 0 \/ (b + 1) % 400 = 0) THEN 1 ELSE 0
    BY <1>3, <2>3 DEF Leap, IsLeap
  <2> QED
    BY <2>3, <2>4, <2>5
<1>6. Days(y) = J..(J + 364 + L) /\ Days(y + 1) = K..(K + 364 + M)
  <2>1. Days(y) = Date(y, 1, 1)..(Date(y, 1, 1) + 364 + Leap(y))
    BY <1>2, <1>3 DEF Days, NewYear, Leap
  <2>2. Days(y + 1) = Date(y + 1, 1, 1)..(Date(y + 1, 1, 1) + 364 + Leap(y + 1))
    BY <1>2, <1>3 DEF Days, NewYear, Leap
  <2> QED
    BY <1>3, <2>1, <2>2
<1>7. T \in Nat
  BY <1>4
<1>8. ASSUME NEW i \in 1..12 PROVE \E z \in Years : T + i \in Days(z)
  <2>1. T + i \in J..(J + 364 + L) \/ T + i \in K..(K + 364 + M)
    BY <1>3, <1>4, <1>5
  <2> QED
    BY <1>6, <2>1
<1>9. PICK k : k = After[<<T, 1>>]
  OBVIOUS
<1>10. /\ k \in (T + 1)..(T + 4) /\ Open(T, k) = {k}
       /\ \A lead \in 1..3 : IsBankingDay(After[<<T, lead>>])
                             /\ Cardinality(Open(T, After[<<T, lead>>])) = lead
  <2>1. /\ After[<<T, 1>>] \in (T + 1)..(T + 4)
        /\ Open(T, After[<<T, 1>>]) = {After[<<T, 1>>]}
        /\ \A lead \in 1..3 : IsBankingDay(After[<<T, lead>>])
                              /\ Cardinality(Open(T, After[<<T, lead>>])) = lead
    BY <1>7, <1>8, NextThree, SMTT(30)
  <2> QED
    BY <1>9, <2>1
<1>11. /\ \A lead \in 1..3 : NextBankingDay(T, lead) = After[<<T, lead>>]
       /\ DefaultDate(T) = k
  BY <1>9 DEF NextBankingDay, DefaultDate
<1>12. PICK c : c = Calendar(T)
  OBVIOUS
<1>13. /\ c.default = k /\ c.min = T /\ c.max = T + MaxDaysAhead
       /\ \A n : n \in c.closed <=> n \in T..(T + MaxDaysAhead) /\ ~IsBankingDay(n)
  <2>1. c.default = k /\ c.min = T /\ c.max = T + MaxDaysAhead
    BY <1>11, <1>12 DEF Calendar
  <2>2. \A n : n \in c.closed <=> n \in T..(T + MaxDaysAhead) /\ ~IsBankingDay(n)
    BY <1>12 DEF Calendar
  <2> QED
    BY <2>1, <2>2
<1> DEFINE chosen == (c.min..c.max) \ c.closed
<1>14. chosen = {n \in T..(T + 60) : IsBankingDay(n)}
  BY <1>13 DEF MaxDaysAhead
<1> HIDE DEF chosen
<1>15. \A n : Accepted(n, T) <=> n \in chosen
  BY <1>14 DEF Accepted, MaxDaysAhead
<1>16. k \in chosen \ {T} /\ \A j \in chosen \ {T} : k <= j
  <2>1. k \in chosen \ {T}
    <3>1. k \in Open(T, k)
      BY <1>10
    <3> QED
      BY <1>7, <1>10, <1>14, <3>1 DEF Open
  <2>2. ASSUME NEW j \in chosen \ {T}, j < k PROVE FALSE
    <3>1. j \in Open(T, k)
      BY <1>7, <1>10, <1>14, <2>2 DEF Open
    <3> QED
      BY <1>10, <1>14, <2>2, <3>1
  <2> QED
    BY <1>7, <1>10, <1>14, <2>1, <2>2
<1>17. k = Min(chosen \ {T})
  <2>1. \A j \in chosen \ {T} : (\A i \in chosen \ {T} : j <= i) => j = k
    BY <1>7, <1>10, <1>14, <1>16
  <2> QED
    BY <1>16, <2>1 DEF Min
<1>18. EffectiveDate(NoDate, T) = k
  BY <1>11, <1>15, <1>16 DEF EffectiveDate
<1>19. ASSUME NEW digits \in {2, 4}
       PROVE  EffectiveDate([yearDigits |-> digits, year |-> IF digits = 2 THEN y % 100 ELSE y,
                             month |-> m, day |-> d], T) = IF T \in chosen THEN T ELSE NoDate
  <2>1. y % 100 \in Nat
    BY <1>2
  <2>2. (IF digits = 2 THEN y % 100 ELSE y) \in Nat
    BY <1>2, <2>1
  <2>3. PICK x \in Nat : x = IF digits = 2 THEN y % 100 ELSE y
    BY <2>2
  <2> DEFINE r == [yearDigits |-> digits, year |-> IF digits = 2 THEN y % 100 ELSE y,
                   month |-> m, day |-> d]
  <2>4. d \in 1..31
    <3>1. MonthDays(y, m) \in 28..31
      BY DEF MonthDays
    <3> QED
      BY <3>1
  <2>5. r # NoDate
    <3>1. r \in [yearDigits : {2, 4}, year : Nat, month : 1..12, day : 1..31]
      BY <2>4, <2>3
    <3> QED
      BY <3>1, NoDateAssumption
  <2>6. r.month = m /\ r.day = d /\ r.yearDigits = digits
        /\ r.year = IF digits = 2 THEN y % 100 ELSE y
    OBVIOUS
  <2> HIDE DEF r
  <2>7. FullYear(r) = y
    <3>1. CASE digits = 4
      BY <2>6, <3>1 DEF FullYear
    <3>2. CASE digits = 2 /\ y % 100 >= 69
      <4>1. y = 1900 + (y % 100)
        <5>1. y \in 2000..2068 => y % 100 = y - 2000
          OBVIOUS
        <5>2. y \in 1969..1999 => y % 100 = y - 1900
          OBVIOUS
        <5>3. y \in 2000..2068 \/ y \in 1969..1999
          OBVIOUS
        <5>4. ~(y \in 2000..2068)
          BY <3>2, <5>1
        <5>5. y \in 1969..1999
          BY <5>3, <5>4
        <5>6. y % 100 = y - 1900
          BY <5>2, <5>5
        <5> QED
          BY <5>6
      <4> QED
        BY <2>6, <3>2, <4>1 DEF FullYear
    <3>3. CASE digits = 2 /\ ~(y % 100 >= 69)
      <4>1. y = 2000 + (y % 100)
        <5>1. y \in 2000..2068 => y % 100 = y - 2000
          OBVIOUS
        <5>2. y \in 1969..1999 => y % 100 = y - 1900
          OBVIOUS
        <5>3. y \in 2000..2068 \/ y \in 1969..1999
          OBVIOUS
        <5>4. ~(y \in 1969..1999)
          BY <3>3, <5>2
        <5>5. y \in 2000..2068
          BY <5>3, <5>4
        <5>6. y % 100 = y - 2000
          BY <5>1, <5>5
        <5> QED
          BY <5>6
      <4> QED
        BY <2>6, <3>3, <4>1 DEF FullYear
    <3> QED
      BY <3>1, <3>2, <3>3
  <2>8. IsDate(y, m, d)
    BY DEF IsDate
  <2>9. EffectiveDate(r, T) = IF Accepted(T, T) THEN T ELSE NoDate
    BY <1>1, <2>5, <2>6, <2>7, <2>8 DEF EffectiveDate
  <2> QED
    BY <1>15, <2>9 DEF r
<1>20. ASSUME NEW lead \in 1..3
       PROVE  /\ IsBankingDay(NextBankingDay(T, lead))
              /\ Cardinality({j \in (T + 1)..NextBankingDay(T, lead) : IsBankingDay(j)}) = lead
  BY <1>10, <1>11 DEF Open
<1> QED
  BY <1>1, <1>12, <1>13, <1>15, <1>17, <1>18, <1>19, <1>20 DEF CalendarAgrees, chosen

-----------------------------------------------------------------------------
(* One document at a time: what is given is one of the inputs.              *)

GivenOK ==
    /\ given.kind = "file" => given.file \in File
    /\ given.kind = "payment" => given.payment \in StoredPayment /\ given.vendor \in StoredVendor
    /\ given.kind = "day" => /\ given.year \in Years /\ given.year # Max(Years)
                             /\ given.month \in 1..12
                             /\ given.day \in 1..MonthDays(given.year, given.month)
    /\ given.kind = "name" =>
          given.name \in Incoming /\ \E S \in SUBSET Directory : given.vendors = SetToSeq(S)

LEMMA GivenInvariant == DocumentsSpec => []GivenOK
<1>1. DocumentsInit => GivenOK
  BY DEF DocumentsInit, GivenOK
<1>2. ASSUME GivenOK, [DocumentsNext]_documents PROVE GivenOK'
  <2>1. CASE GiveFile
    <3>1. PICK file \in Files : given' = [kind |-> "file", file |-> file]
      BY <2>1 DEF GiveFile, Give
    <3>2. file \in File
      BY DocumentsAssumption DEF DocumentsAssumption
    <3> QED
      BY <3>1, <3>2 DEF GivenOK
  <2>2. CASE GivePayment
    <3>1. PICK s \in Stored : given' = [kind |-> "payment", payment |-> s.payment, vendor |-> s.vendor]
      BY <2>2 DEF GivePayment, Give
    <3>2. s.payment \in StoredPayment /\ s.vendor \in StoredVendor
      BY DocumentsAssumption DEF DocumentsAssumption
    <3> QED
      BY <3>1, <3>2 DEF GivenOK
  <2>3. CASE GiveDay
    <3>1. PICK y, m, d : /\ y \in Years /\ y # Max(Years) /\ m \in 1..12 /\ d \in 1..MonthDays(y, m)
                         /\ given' = [kind |-> "day", year |-> y, month |-> m, day |-> d]
      BY <2>3 DEF GiveDay, Give
    <3> QED
      BY <3>1 DEF GivenOK
  <2>4. CASE GiveName
    <3>1. PICK name \in Incoming, S \in SUBSET Directory :
             given' = [kind |-> "name", name |-> name, vendors |-> SetToSeq(S)]
      BY <2>4 DEF GiveName, Give
    <3> QED
      BY <3>1 DEF GivenOK
  <2>5. CASE given' = given
    BY <1>2, <2>5 DEF GivenOK
  <2> QED
    BY <1>2, <2>1, <2>2, <2>3, <2>4, <2>5 DEF DocumentsNext, ReadReport, documents
<1> QED
  BY <1>1, <1>2, PTL DEF DocumentsSpec

\* Any set of files, of any number and size of batches, with any headers: those that pass
\* validation are written in whole blocks (generate_nacha_file).
THEOREM FilesWellBlockedHolds == DocumentsSpec => []FilesWellBlocked
<1>1. GivenOK => FilesWellBlocked
  BY FilesAreWellBlocked DEF GivenOK, FilesWellBlocked
<1> QED
  BY <1>1, GivenInvariant, PTL

\* Any set of files: in those that pass validation and whose totals fit their fields, each
\* amount is the one to be paid, no two entries share a trace, each control is borne out by
\* the entries it closes (generate_nacha_file).
THEOREM FilesReadBackHolds == DocumentsSpec => []FilesReadBack
<1>1. GivenOK => FilesReadBack
  BY FilesAreReadBack DEF GivenOK, FilesReadBack
<1> QED
  BY <1>1, GivenInvariant, PTL

\* Whatever the database holds of a payment and of a vendor's name, validation does not
\* refuse it for that (combine_batches_and_generate_nacha, validate_nacha_input).
THEOREM StoredPassHolds == DocumentsSpec => []StoredPass
<1>1. GivenOK => StoredPass
  BY StoredPaymentsAlwaysPass DEF GivenOK, StoredPass
<1> QED
  BY <1>1, GivenInvariant, PTL

\* In every year the calendar is asked for, no holiday is lost or counted twice
\* (federal_reserve_holidays).
THEOREM HolidaysKeptHolds == DocumentsSpec => []HolidaysKept
<1>1. GivenOK => HolidaysKept
  BY HolidaysAreObserved DEF GivenOK, HolidaysKept
<1> QED
  BY <1>1, GivenInvariant, PTL

\* Days given are checked in years whose successor is known.
LEMMA GivenDaysAgree ==
    ASSUME \A y \in Years : y # Max(Years) => y \in 1969..2068 /\ y + 1 \in Years
    PROVE  GivenOK => DatesAgree
<1>1. ASSUME NEW y \in Years, y # Max(Years), NEW m \in 1..12, NEW d \in 1..MonthDays(y, m)
      PROVE  CalendarAgrees(y, m, d)
  <2>1. y \in 1969..2068 /\ y + 1 \in Years
    BY <1>1
  <2> QED
    BY <2>1, CalendarsAgree
<1>2. ASSUME GivenOK, given.kind = "day" PROVE CalendarAgrees(given.year, given.month, given.day)
  <2>1. /\ given.year \in Years /\ given.year # Max(Years)
        /\ given.month \in 1..12 /\ given.day \in 1..MonthDays(given.year, given.month)
    BY <1>2 DEF GivenOK
  <2> QED
    BY <1>1, <2>1
<1> QED
  BY <1>2 DEF DatesAgree

\* The browser's calendar, the default date and the dates accepted agree on every day of any
\* run of years but its last, as long as two digits name each of the years to Python
\* (next_banking_day, generate_nacha_file, validate_effective_date, the calendar endpoint).
THEOREM DatesAgreeHolds ==
    ASSUME NEW earliest \in 1969..2068, NEW latest \in 1969..2068, Years = earliest..latest
    PROVE  DocumentsSpec => []DatesAgree
<1>1. ASSUME NEW y \in Years, y # Max(Years) PROVE y \in 1969..2068 /\ y + 1 \in Years
  <2>1. CASE y = latest
    <3>1. y \in Years /\ \A z \in Years : y >= z
      BY <2>1
    <3>2. \A x \in Years : (\A z \in Years : x >= z) => x = y
      BY <3>1
    <3>3. y = Max(Years)
      BY <3>1, <3>2 DEF Max
    <3> QED
      BY <1>1, <3>3
  <2>2. CASE y # latest
    <3>1. earliest \in Int /\ latest \in Int /\ y \in Int
      OBVIOUS
    <3>2. earliest <= y /\ y <= latest /\ earliest >= 1969 /\ latest <= 2068
      OBVIOUS
    <3>3. y + 1 \in earliest..latest /\ y \in 1969..2068
      BY <2>2, <3>1, <3>2
    <3> QED
      BY <3>3
  <2> QED
    BY <2>1, <2>2
<1>2. GivenOK => DatesAgree
  BY <1>1, GivenDaysAgree
<1> QED
  BY <1>2, GivenInvariant, PTL

\* A set as a sequence.
LEMMA SetAsSequence ==
    ASSUME NEW S, IsFiniteSet(S)
    PROVE  /\ SetToSeq(S) \in Seq(S) /\ ToSet(SetToSeq(S)) = S
           /\ \A i, j \in DOMAIN SetToSeq(S) : SetToSeq(S)[i] = SetToSeq(S)[j] => i = j
<1>1. PICK n \in Nat : n = Cardinality(S)
  BY FS_CardinalityType
<1>2. PICK b : b \in Bijection(1..n, S)
  BY <1>1, FS_CardinalityType DEF ExistsBijection
<1>3. b \in [1..n -> S] /\ IsInjective(b)
  BY <1>2 DEF Bijection, Injection
<1>4. PICK f : f = SetToSeq(S)
  OBVIOUS
<1>5. f \in [1..n -> S] /\ IsInjective(f)
  BY <1>1, <1>3, <1>4 DEF SetToSeq
<1>6. f \in Surjection(1..n, S)
  <2>1. f \in Injection(1..n, S)
    BY <1>5 DEF Injection
  <2>2. Cardinality(1..n) = n
    BY FS_Interval
  <2> QED
    BY <1>1, <2>1, <2>2, FS_Injection
<1>7. f \in Seq(S) /\ DOMAIN f = 1..n
  BY <1>5
<1>8. ToSet(f) = S
  BY <1>5, <1>6 DEF Surjection, ToSet
<1> QED
  BY <1>4, <1>5, <1>7, <1>8 DEF IsInjective

\* Any names and any directory of vendors, with as many of one spelling as it may have: the
\* order in which the vendors are read decides nothing but which of those is matched, and a
\* name that is known is taken for no other (match_vendor, vendor_map).
THEOREM NamesDeterminateHolds == DocumentsSpec => []NamesDeterminate
<1>1. ASSUME GivenOK, given.kind = "name" PROVE MatchDeterminate(given.name, given.vendors)
  <2>1. PICK name \in Incoming, S \in SUBSET Directory : name = given.name /\ given.vendors = SetToSeq(S)
    BY <1>1 DEF GivenOK
  <2>2. IsFiniteSet(S)
    BY DocumentsAssumption, FS_Subset DEF DocumentsAssumption
  <2>3. PICK vendors \in Seq(S) : vendors = SetToSeq(S) /\ ToSet(vendors) = S
    BY <2>2, SetAsSequence
  <2>4. /\ \A v, w \in ToSet(vendors) : v.upper = w.upper => v.words = w.words
        /\ \A v \in ToSet(vendors) : v.upper = name.upper => v.words = name.words
    BY <2>3, DocumentsAssumption DEF DocumentsAssumption
  <2>5. MatchDeterminate(name, vendors)
    BY <2>4, NamesAreDeterminate
  <2> QED
    BY <2>1, <2>3, <2>5
<1>2. GivenOK => NamesDeterminate
  BY <1>1 DEF NamesDeterminate
<1> QED
  BY <1>2, GivenInvariant, PTL

=============================================================================
