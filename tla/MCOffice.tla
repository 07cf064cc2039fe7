------------------------------ MODULE MCOffice ------------------------------
(***************************************************************************)
(* Four parts of the office that share no state, each explored from its    *)
(* own initial states: advice by mail, accounts, the login throttle, keys. *)
(***************************************************************************)
EXTENDS RemittanceDispatch, Accounts, LoginThrottle, KeyRotation, TLC

VARIABLE part

MCVendorOf == [a \in Advice |-> CHOOSE v \in Vendor : TRUE]
MCFileOf == [a \in Advice |-> CHOOSE f \in File : TRUE]
MCTable == Column
MCTableOf == [c \in Column |-> c]

\* A behaviour is of one part; the others rest in one of their initial states.
Rest ==
    /\ part # "mail" => mailbox = [v \in Vendor |-> Unset]
    /\ part # "accounts" => users = [p \in Person |-> IF p = CHOOSE q \in Person : TRUE
                                     THEN Account("admin", CHOOSE w \in Password : TRUE) ELSE Absent]
    /\ part # "keys" => store = [c \in Column |-> [value |-> CHOOSE v \in Value : TRUE, under |-> Clear]]

Init ==
    /\ part \in {"mail", "accounts", "throttle", "keys"}
    /\ DispatchInit /\ AccountsInit /\ ThrottleInit /\ RotationInit
    /\ Rest

Next ==
    /\ UNCHANGED part
    /\ \/ part = "mail" /\ DispatchNext /\ UNCHANGED <<accountsVars, throttleVars, rotationVars>>
       \/ part = "accounts" /\ AccountsNext /\ UNCHANGED <<dispatchVars, throttleVars, rotationVars>>
       \/ part = "throttle" /\ ThrottleNext /\ UNCHANGED <<dispatchVars, accountsVars, rotationVars>>
       \/ part = "keys" /\ RotationNext /\ UNCHANGED <<dispatchVars, accountsVars, throttleVars>>

Spec == Init /\ [][Next]_<<part, dispatchVars, accountsVars, throttleVars, rotationVars>>

\* The CHOOSEs above are of sets left out here, or of sets nothing tells apart.
Symmetric == UNION {Permutations(S) : S \in {Sender, Session, Worker}}
=============================================================================
