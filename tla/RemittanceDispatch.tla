-------------------------- MODULE RemittanceDispatch --------------------------
(***************************************************************************)
(* Sending remittance advice (api/v1/remittances.py,                       *)
(* services/email_service.py): the rows of vendor_remittances from the     *)
(* moment a NACHA file leaves them pending.  No message leaves the program *)
(* (README.md:188): to send an advice is to mark its row and to count, and *)
(* what a request marks stands once it commits.                            *)
(*                                                                         *)
(* The status FAILED is set nowhere: nothing in the code that stands for   *)
(* the delivery raises.  Subjects, bodies and templates are left out.      *)
(***************************************************************************)
EXTENDS Naturals

CONSTANTS
    Sender,
    Advice,    \* pool of rows; each is of one vendor and of one file
    Vendor, File,
    VendorOf, FileOf,
    Address,
    Sends,     \* how often an advice is sent at most (a bound)
    Unset

ASSUME DispatchAssumption ==
    /\ VendorOf \in [Advice -> Vendor] /\ FileOf \in [Advice -> File]
    /\ Unset \notin Vendor \cup File \cup Address \cup Advice
    /\ Sends \in Nat

VARIABLES
    advice,   \* the table vendor_remittances
    mailbox,  \* vendors: the address advice goes to by default, Unset if there is none
    request,  \* what each session is doing and has loaded
    sent,     \* history: how many requests sent each advice and committed
    shared    \* history: advice sent while another request had it loaded to send

dispatchVars == <<advice, mailbox, request, sent, shared>>

NoAdvice == [status |-> "absent", to |-> Unset, count |-> 0]
Deleted  == [NoAdvice EXCEPT !.status = "deleted"]
Idle     == [at |-> "idle", rows |-> [a \in {} |-> NoAdvice], to |-> Unset, default |-> FALSE, box |-> Unset]

DispatchInit ==
    /\ advice = [a \in Advice |-> NoAdvice]
    /\ mailbox \in [Vendor -> Address \cup {Unset}]
    /\ request = [s \in Sender |-> Idle]
    /\ sent = [a \in Advice |-> 0]
    /\ shared = {}

Live == {a \in Advice : advice[a].status \in {"pending", "sent"}}
Loaded(s) == DOMAIN request[s].rows
Sending(s) == IF request[s].at = "send" THEN Loaded(s) ELSE {}

\* Generation leaves one row for each payment of a file whose vendor has an address.
FileMade(f) ==
    LET new == {a \in Advice : FileOf[a] = f /\ mailbox[VendorOf[a]] # Unset}
    IN  /\ new # {}
        /\ \A a \in Advice : FileOf[a] = f => advice[a].status = "absent"
        /\ advice' = [a \in Advice |->
                        IF a \in new THEN [status |-> "pending", to |-> mailbox[VendorOf[a]], count |-> 0]
                        ELSE advice[a]]
        /\ UNCHANGED <<mailbox, request, sent, shared>>

Load(s, at, rows) == /\ request[s].at = "idle"
                     /\ rows # {}
                     /\ request' = [request EXCEPT ![s] = [Idle EXCEPT !.at = at,
                                        !.rows = [a \in rows |-> advice[a]]]]
                     /\ UNCHANGED <<advice, mailbox, sent, shared>>

\* dispatch_pending_remittances, of one file or of all.
Pending(f) == {a \in Live : advice[a].status = "pending" /\ (f = Unset \/ FileOf[a] = f)}
DispatchRead(s, f) == Load(s, "send", Pending(f))

\* bulk_resend_remittances: whatever was selected, sent or not.
ResendRead(s, rows) == rows \subseteq Live /\ Load(s, "send", rows)

Done(s) == request' = [request EXCEPT ![s] = Idle]

\* send_single_remittance: the count is the one loaded, plus one.
\* Mutant: it is counted only when the row was pending.
CountedFirst(row) == IF row.status = "pending" THEN row.count + 1 ELSE row.count
CountedOn(row) == row.count + 1

\* A row deleted meanwhile fails the UPDATE, and with it the request.
SendCommit(s) ==
    /\ request[s].at = "send"
    /\ \A a \in Loaded(s) : sent[a] < Sends
    /\ IF Loaded(s) \subseteq Live
       THEN /\ advice' = [a \in Advice |->
                            IF a \in Loaded(s)
                            THEN [advice[a] EXCEPT !.status = "sent", !.count = CountedOn(request[s].rows[a])]
                            ELSE advice[a]]
            /\ sent' = [a \in Advice |-> sent[a] + (IF a \in Loaded(s) THEN 1 ELSE 0)]
            /\ shared' = shared \cup {a \in Loaded(s) : \E t \in Sender \ {s} : a \in Sending(t)}
       ELSE UNCHANGED <<advice, sent, shared>>
    /\ Done(s)
    /\ UNCHANGED mailbox

\* update_remittance_email, for the advice alone or for its vendor as well.
EmailRead(s, a, to, default) ==
    /\ request[s].at = "idle" /\ a \in Live
    /\ request' = [request EXCEPT ![s] = [at |-> "email", rows |-> [b \in {a} |-> advice[b]],
                                          to |-> to, default |-> default, box |-> mailbox[VendorOf[a]]]]
    /\ UNCHANGED <<advice, mailbox, sent, shared>>

\* Only what differs from what was loaded is written.
EmailCommit(s) ==
    LET r == request[s]
        a == CHOOSE b \in Loaded(s) : TRUE
    IN  /\ r.at = "email"
        /\ Done(s)
        /\ IF r.rows[a].to # r.to /\ a \notin Live
           THEN UNCHANGED <<advice, mailbox>>
           ELSE /\ advice' = IF r.rows[a].to = r.to THEN advice ELSE [advice EXCEPT ![a].to = r.to]
                /\ mailbox' = IF r.default /\ r.box # r.to
                              THEN [mailbox EXCEPT ![VendorOf[a]] = r.to] ELSE mailbox
        /\ UNCHANGED <<sent, shared>>

\* delete_single_remittance and bulk_delete_remittances; a row that is gone by
\* then is deleted twice without an error.
DeleteRead(s, rows) == rows \subseteq Live /\ Load(s, "delete", rows)
DeleteCommit(s) ==
    /\ request[s].at = "delete"
    /\ advice' = [a \in Advice |-> IF a \in Loaded(s) THEN Deleted ELSE advice[a]]
    /\ Done(s)
    /\ UNCHANGED <<mailbox, sent, shared>>

\* A crash or a lost connection.
Abort(s) == /\ request[s].at # "idle"
            /\ Done(s)
            /\ UNCHANGED <<advice, mailbox, sent, shared>>

DispatchNext ==
    \/ \E f \in File : FileMade(f)
    \/ \E s \in Sender :
        \/ \E f \in File \cup {Unset} : DispatchRead(s, f)
        \/ \E rows \in SUBSET Advice : ResendRead(s, rows) \/ DeleteRead(s, rows)
        \/ \E a \in Advice, to \in Address, default \in BOOLEAN : EmailRead(s, a, to, default)
        \/ SendCommit(s) \/ EmailCommit(s) \/ DeleteCommit(s) \/ Abort(s)

DispatchSpec == DispatchInit /\ [][DispatchNext]_dispatchVars

(***************************************************************************)
(* What the advice page shows of an advice is how often it was sent        *)
(* (send_single_remittance and its callers): it is pending when it never   *)
(* was, sent when it was, and its count is the number of requests that     *)
(* sent it, unless two of them had it loaded at one time: then the count   *)
(* may fall short, and never exceeds it.                                   *)
(***************************************************************************)
CountsSends ==
    \A a \in Live :
        /\ advice[a].count \in 0..sent[a]
        /\ (advice[a].status = "sent") <=> (sent[a] > 0)
        /\ (advice[a].count > 0) <=> (sent[a] > 0)
        /\ a \notin shared => advice[a].count = sent[a]
=============================================================================
