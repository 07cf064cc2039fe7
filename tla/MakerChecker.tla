---------------------------- MODULE MakerChecker ----------------------------
(***************************************************************************)
(* What the change-request workflow promises, with no requests in flight:  *)
(* a vendor's bank details change only as a whole, when an administrator   *)
(* approves a pending request for them or enters them, and a request is    *)
(* decided once.                                                           *)
(***************************************************************************)
CONSTANTS Vendor, Change, Bank, None

VARIABLES
    details,  \* Vendor -> bank details, None where there is no such vendor
    ask       \* Change -> [status, vendor, bank]

vars == <<details, ask>>

NoAsk == [status |-> "absent", vendor |-> None, bank |-> None]

Init == /\ details \in [Vendor -> Bank \cup {None}]
        /\ ask = [c \in Change |-> NoAsk]

Request(c, v, b) ==
    /\ ask[c].status = "absent"
    /\ details[v] # None
    /\ ask' = [ask EXCEPT ![c] = [status |-> "pending", vendor |-> v, bank |-> b]]
    /\ UNCHANGED details

Approve(c) ==
    /\ ask[c].status = "pending" /\ ask[c].vendor # None
    /\ ask' = [ask EXCEPT ![c].status = "approved"]
    /\ details' = [details EXCEPT ![ask[c].vendor] = ask[c].bank]

Reject(c) ==
    /\ ask[c].status = "pending" /\ ask[c].vendor # None
    /\ ask' = [ask EXCEPT ![c].status = "rejected"]
    /\ UNCHANGED details

Enter(v, b) ==
    /\ details' = [details EXCEPT ![v] = b]
    /\ UNCHANGED ask

Remove(vs) ==
    /\ details' = [v \in Vendor |-> IF v \in vs THEN None ELSE details[v]]
    /\ ask' = [c \in Change |->
          IF ask[c].vendor \in vs THEN [ask[c] EXCEPT !.vendor = None] ELSE ask[c]]

Next == \/ \E c \in Change, v \in Vendor, b \in Bank : Request(c, v, b)
        \/ \E c \in Change : Approve(c) \/ Reject(c)
        \/ \E v \in Vendor, b \in Bank : Enter(v, b)
        \/ \E vs \in SUBSET Vendor : Remove(vs)

Spec == Init /\ [][Next]_vars
=============================================================================
