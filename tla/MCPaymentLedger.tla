--------------------------- MODULE MCPaymentLedger ---------------------------
(***************************************************************************)
(* Small instances of PaymentLedger for TLC.  Every run gives the pools    *)
(* and the endpoints in use in its .cfg; the users' inputs are here.       *)
(***************************************************************************)
EXTENDS PaymentLedger, TLC

CONSTANTS v1, v2, inv1, inv2

MCAmount == {1, 2}

PayA == [vendor |-> v1, amount |-> 1, inv |-> inv1, bank |-> FALSE]
PayB == [vendor |-> v1, amount |-> 2, inv |-> inv1, bank |-> FALSE]
New  == [vendor |-> v2, amount |-> 1, inv |-> inv1, bank |-> TRUE]

\* One payment; two; a repeated one; a vendor not yet in the directory, twice.
OneRow   == {<<PayA>>}
TwoRows  == {<<PayA, PayB>>}
Mixed    == {<<PayA>>, <<PayB, PayB>>, <<New, PayA>>}
NewTwice == {<<New, New>>}
RaceSheets == {<<PayB>>, <<PayA, New>>}
Singles  == {<<PayA>>, <<PayB>>}

ToOne == {[amount |-> 1, inv |-> None]}
ToOneOrInvoice == ToOne \cup {[amount |-> None, inv |-> inv2]}
NoEdits == {}

NoStart == {0}
AnyStart == {0, 1}

Interchangeable == Permutations(Batch) \cup Permutations(File) \cup Permutations(Request)
=============================================================================
