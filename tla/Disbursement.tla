---------------------------- MODULE Disbursement ----------------------------
(***************************************************************************)
(* What the ledger promises to the people who use it, with no batches,     *)
(* requests or traces: a payment is drafted, may be revised while it is a  *)
(* draft, and is sent to the bank at most once, with the amount it had     *)
(* then.  After that the ledger keeps that amount until the history is     *)
(* cleared.  The bank forgets nothing.                                     *)
(***************************************************************************)
CONSTANTS Payment, File, Amount, None

VARIABLES
    stage,   \* Payment -> "none" | "draft" | "sent" | "cleared"
    amount,  \* what the ledger shows
    bank     \* the instructions <<payment, amount, file>> the bank was given

vars == <<stage, amount, bank>>

Init == /\ stage = [p \in Payment |-> "none"]
        /\ amount = [p \in Payment |-> None]
        /\ bank = {}

Draft(S) ==
    /\ \A p \in S : stage[p] = "none"
    /\ stage' = [p \in Payment |-> IF p \in S THEN "draft" ELSE stage[p]]
    /\ \E new \in [S -> Amount] :
          amount' = [p \in Payment |-> IF p \in S THEN new[p] ELSE amount[p]]
    /\ UNCHANGED bank

Revise(p, a) ==
    /\ stage[p] = "draft"
    /\ amount' = [amount EXCEPT ![p] = a]
    /\ UNCHANGED <<stage, bank>>

Send(S, f) ==
    /\ \A p \in S : stage[p] = "draft"
    /\ \A i \in bank : i[3] # f
    /\ stage' = [p \in Payment |-> IF p \in S THEN "sent" ELSE stage[p]]
    /\ bank' = bank \cup {<<p, amount[p], f>> : p \in S}
    /\ UNCHANGED amount

Clear ==
    /\ stage' = [p \in Payment |-> IF stage[p] = "none" THEN "none" ELSE "cleared"]
    /\ amount' = [p \in Payment |-> None]
    /\ UNCHANGED bank

Next == \/ \E S \in SUBSET Payment : Draft(S)
        \/ \E p \in Payment, a \in Amount : Revise(p, a)
        \/ \E S \in SUBSET Payment, f \in File : Send(S, f)
        \/ Clear

Spec == Init /\ [][Next]_vars

TypeOK ==
    /\ stage \in [Payment -> {"none", "draft", "sent", "cleared"}]
    /\ amount \in [Payment -> Amount \cup {None}]
    /\ bank \subseteq Payment \X (Amount \cup {None}) \X File

\* No payment is instructed twice: the promise the guard on processed batches
\* is there for.
InstructedOnce == \A i, j \in bank : i[1] = j[1] => i = j

\* While a sent payment is in the ledger it shows what the bank was told
\* (payments in a generated file are immutable).
BankAgrees == \A i \in bank : stage[i[1]] = "sent" => amount[i[1]] = i[2]
=============================================================================
