---------------------------- MODULE MCBankDetails ----------------------------
(***************************************************************************)
(* Small instances of BankDetails for TLC.                                 *)
(***************************************************************************)
EXTENDS BankDetails, TLC

CONSTANTS rt1, acc1, rt2, acc2

MCFirstBank == [routing |-> rt1, account |-> acc1]

\* A new routing number, a new account number, and both.
NewRouting == [routing |-> rt2, account |-> acc1]
NewAccount == [routing |-> rt1, account |-> acc2]
NewBank    == [routing |-> rt2, account |-> acc2]

Separate  == {NewRouting, NewAccount}
BackOrNew == {MCFirstBank, NewBank}
AllNew    == {NewRouting, NewAccount, NewBank}

NoAccount == {}

Interchangeable == Permutations(Session) \cup Permutations(Change)
=============================================================================
