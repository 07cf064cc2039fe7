-------------------------- MODULE DisbursementProofs --------------------------
(***************************************************************************)
(* What Disbursement promises, for any payments, files and amounts: what   *)
(* an implementation of it (the ledger, served one request at a time)      *)
(* inherits.                                                               *)
(***************************************************************************)
EXTENDS Disbursement, TLAPS

\* A payment the bank was told of is sent or cleared, and never a draft again.
ToldAreSent == \A i \in bank : stage[i[1]] \in {"sent", "cleared"}

Inv == TypeOK /\ ToldAreSent /\ InstructedOnce /\ BankAgrees

LEMMA InitInv == Init => Inv
BY DEF Init, Inv, TypeOK, ToldAreSent, InstructedOnce, BankAgrees

LEMMA NextInv == Inv /\ [Next]_vars => Inv'
<1> SUFFICES ASSUME Inv, [Next]_vars PROVE Inv'
  OBVIOUS
<1> USE DEF Inv, TypeOK, ToldAreSent, InstructedOnce, BankAgrees
<1>1. ASSUME NEW S \in SUBSET Payment, Draft(S) PROVE Inv'
  BY <1>1 DEF Draft
<1>2. ASSUME NEW p \in Payment, NEW a \in Amount, Revise(p, a) PROVE Inv'
  BY <1>2 DEF Revise
<1>3. ASSUME NEW S \in SUBSET Payment, NEW f \in File, Send(S, f) PROVE Inv'
  <2> DEFINE new == {<<p, amount[p], f>> : p \in S}
  <2>1. bank' = bank \cup new
    BY <1>3 DEF Send
  <2>2. \A i \in new : i \in Payment \X (Amount \cup {None}) \X File /\ i[1] \in S /\ i[2] = amount[i[1]]
    OBVIOUS
  <2>3. \A i, j \in new : i[1] = j[1] => i = j
    OBVIOUS
  <2>4. \A i \in bank : i[1] \in Payment \ S
    BY <1>3 DEF Send
  <2> HIDE DEF new
  <2>5. TypeOK'
    BY <1>3, <2>1, <2>2 DEF Send
  <2>6. ToldAreSent' /\ BankAgrees'
    BY <1>3, <2>1, <2>2, <2>4 DEF Send
  <2>7. InstructedOnce'
    BY <2>1, <2>2, <2>3, <2>4
  <2> QED
    BY <2>5, <2>6, <2>7
<1>4. CASE Clear
  BY <1>4 DEF Clear
<1>5. CASE UNCHANGED vars
  BY <1>5 DEF vars
<1> QED
  BY <1>1, <1>2, <1>3, <1>4, <1>5 DEF Next

\* No payment is instructed to the bank twice.
THEOREM InstructedOnceHolds == Spec => []InstructedOnce
<1>1. Inv => InstructedOnce
  BY DEF Inv
<1> QED
  BY <1>1, InitInv, NextInv, PTL DEF Spec

\* While a sent payment is in the ledger, the ledger shows the amount the bank
\* was told.
THEOREM BankAgreesHolds == Spec => []BankAgrees
<1>1. Inv => BankAgrees
  BY DEF Inv
<1> QED
  BY <1>1, InitInv, NextInv, PTL DEF Spec
=============================================================================
