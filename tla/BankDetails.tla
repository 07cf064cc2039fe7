----------------------------- MODULE BankDetails -----------------------------
(***************************************************************************)
(* Where a vendor's money goes: the routing and account number of a vendor *)
(* and the four ways to change them (api/v1/vendors.py): a change request  *)
(* an administrator approves or rejects, the vendor form, the two steps of *)
(* a bulk import, and deletion.                                            *)
(*                                                                         *)
(* Requests interleave as in PaymentLedger: reads into loc[s], then one    *)
(* commit that writes the COLUMNS whose value differs from the one this    *)
(* session loaded.  A bulk import holds its preview in the browser between *)
(* two requests, so a session in "preview" may wait for ever.  The account *)
(* type is a third column like the other two and is left out.              *)
(***************************************************************************)
EXTENDS FiniteSets

CONSTANTS
    Session,       \* handlers (or browsers holding a preview) at a time
    Vendor,        \* pool of vendor rows
    KnownVendors,  \* the vendors there at the start
    Change,        \* pool of vendor_change_requests rows
    Routing, Account,
    LongAccount,   \* the account numbers of more than 17 characters
    FirstBank,     \* the bank details of every known vendor at the start
    Details,       \* the bank details users enter (a bound on the environment)
    Operations,    \* the endpoints in use (another)
    None

Bank == [routing : Routing, account : Account]

ASSUME BankAssumption ==
    /\ KnownVendors \subseteq Vendor /\ LongAccount \subseteq Account
    /\ FirstBank \in Bank /\ Details \subseteq Bank
    /\ None \notin Vendor \cup Change \cup Bank

VARIABLES
    status,   \* vendors: "absent" | "live" | "deleted"
    bank,     \* routing_number and account_number of each vendor row
    change,   \* vendor_change_requests rows
    granted,  \* history: the details an administrator gave each vendor, as pairs
    latest,   \* history: the last of them
    applied,  \* history: the requests whose approval was committed
    pc, loc

history == <<granted, latest, applied>>
db      == <<status, bank, change>>
vars    == <<status, bank, change, granted, latest, applied, pc, loc>>

NoChange == [status |-> "absent", vendor |-> None, bank |-> None]
Blank == [change |-> None, vendor |-> None, seen |-> None, new |-> None,
          cols |-> {}, verdict |-> None]

Init ==
    /\ status = [v \in Vendor |-> IF v \in KnownVendors THEN "live" ELSE "absent"]
    /\ bank = [v \in Vendor |-> IF v \in KnownVendors THEN FirstBank ELSE None]
    /\ change = [c \in Change |-> NoChange]
    /\ granted = [v \in Vendor |-> IF v \in KnownVendors THEN {FirstBank} ELSE {}]
    /\ latest = bank
    /\ applied = {}
    /\ pc = [s \in Session |-> "idle"]
    /\ loc = [s \in Session |-> Blank]

Starting(s, op) == pc[s] = "idle" /\ op \in Operations
Goto(s, label)  == pc' = [pc EXCEPT ![s] = label]
Finish(s) == /\ pc' = [pc EXCEPT ![s] = "idle"]
             /\ loc' = [loc EXCEPT ![s] = Blank]
Fail(s) == Finish(s) /\ UNCHANGED <<db, history>>

Live(v) == v \in Vendor /\ status[v] = "live"

Column(changed, new, current) == IF changed THEN new ELSE current

\* Mutant: the routing number is not written.
MergedAccountOnly(row, new, old) ==
    [row EXCEPT !.account = Column(new.account # old.account, new.account, @)]
\* The row once a session that loaded old and set new has flushed it.
Merged(row, new, old) ==
    [row EXCEPT !.routing = Column(new.routing # old.routing, new.routing, @),
                !.account = Column(new.account # old.account, new.account, @)]

\* The commit of a session that set vendor v, loaded as old, to new; it fails
\* if there is something to write and the row is gone.
Lost(v, new, old) == new # old /\ ~Live(v)
Flush(v, new, old) ==
    bank' = IF new = old THEN bank ELSE [bank EXCEPT ![v] = Merged(@, new, old)]

Grant(v, b) == /\ granted' = [granted EXCEPT ![v] = @ \cup {b}]
               /\ latest' = [latest EXCEPT ![v] = b]

-----------------------------------------------------------------------------
(* A change request (create_, approve_ and reject_vendor_change_request).   *)

SubmitRead(s, v, b) ==
    /\ Starting(s, "request")
    /\ Live(v)
    /\ loc' = [loc EXCEPT ![s] = [Blank EXCEPT !.vendor = v, !.new = b]]
    /\ Goto(s, "submit")
    /\ UNCHANGED <<db, history>>

\* The vendor is a foreign key of the new row.
SubmitCommit(s) ==
    /\ pc[s] = "submit"
    /\ Live(loc[s].vendor)
    /\ \E c \in Change :
          /\ change[c].status = "absent"
          /\ change' = [change EXCEPT ![c] =
                [status |-> "pending", vendor |-> loc[s].vendor, bank |-> loc[s].new]]
    /\ Finish(s)
    /\ UNCHANGED <<status, bank, history>>

SubmitForeignKeyError(s) == pc[s] = "submit" /\ ~Live(loc[s].vendor) /\ Fail(s)

\* Mutant: a request that has been decided may be decided again.
ReviewableTwice(c) == change[c].status # "absent"
Reviewable(c) == change[c].status = "pending"

ReviewRead(s, c, verdict) ==
    /\ Starting(s, "review")
    /\ Reviewable(c)
    /\ loc' = [loc EXCEPT ![s] = [Blank EXCEPT !.change = c, !.vendor = change[c].vendor,
                                               !.new = change[c].bank, !.verdict = verdict]]
    /\ Goto(s, "review")
    /\ UNCHANGED <<db, history>>

\* The vendor of the request; scalar_one raises if there is none.
ReviewVendor(s) ==
    /\ pc[s] = "review"
    /\ IF Live(loc[s].vendor)
       THEN /\ loc' = [loc EXCEPT ![s].seen = bank[loc[s].vendor]]
            /\ Goto(s, "decide")
            /\ UNCHANGED <<db, history>>
       ELSE Fail(s)

\* What a review sets the vendor's details to: approval alone changes them.
\* Mutant: rejection does too.
ReviewedAnyhow(l) == l.new
Reviewed(l) == IF l.verdict = "approved" THEN l.new ELSE l.seen

ReviewCommit(s) ==
    LET l == loc[s]
        v == l.vendor
        c == l.change
    IN  /\ pc[s] = "decide"
        /\ IF Lost(v, Reviewed(l), l.seen)
           THEN Fail(s)
           ELSE /\ Flush(v, Reviewed(l), l.seen)
                /\ change' = [change EXCEPT ![c].status = l.verdict]
                /\ IF l.verdict = "approved"
                   THEN Grant(v, l.new) /\ applied' = applied \cup {c}
                   ELSE UNCHANGED history
                /\ Finish(s)
                /\ UNCHANGED status

-----------------------------------------------------------------------------
(* The vendor form (create_vendor): an administrator enters a vendor's      *)
(* details, for a name in the directory or for a new one.                   *)

\* Details identical to those stored are refused with 409.
EnterRead(s, v, b) ==
    /\ Starting(s, "enter")
    /\ Live(v) /\ bank[v] # b
    /\ loc' = [loc EXCEPT ![s] = [Blank EXCEPT !.vendor = v, !.seen = bank[v], !.new = b]]
    /\ Goto(s, "enter")
    /\ UNCHANGED <<db, history>>

EnterCommit(s) ==
    LET l == loc[s]
    IN  /\ pc[s] = "enter"
        /\ IF Lost(l.vendor, l.new, l.seen)
           THEN Fail(s)
           ELSE /\ Flush(l.vendor, l.new, l.seen)
                /\ Grant(l.vendor, l.new)
                /\ Finish(s)
                /\ UNCHANGED <<status, change, applied>>

\* A name not found, and details no vendor has: a new row.
CreateRead(s, b) ==
    /\ Starting(s, "enter")
    /\ \A v \in Vendor : Live(v) => bank[v] # b
    /\ loc' = [loc EXCEPT ![s] = [Blank EXCEPT !.new = b]]
    /\ Goto(s, "create")
    /\ UNCHANGED <<db, history>>

\* Mutant: the details are not stored.
StoredNever(b) == None
StoredAs(b) == b

CreateCommit(s) ==
    /\ pc[s] = "create"
    /\ \E v \in Vendor :
          /\ status[v] = "absent"
          /\ status' = [status EXCEPT ![v] = "live"]
          /\ bank' = [bank EXCEPT ![v] = StoredAs(loc[s].new)]
          /\ Grant(v, loc[s].new)
    /\ Finish(s)
    /\ UNCHANGED <<change, applied>>

-----------------------------------------------------------------------------
(* A bulk import (bulk_preview_vendors, bulk_confirm_vendors), one updated  *)
(* vendor to a file.  The preview names the columns that differ; the        *)
(* confirmation writes those, from a payload the browser held meanwhile.    *)

Differing(b, row) == {x \in {"routing", "account"} : b[x] # row[x]}

BulkPreview(s, v, b) ==
    /\ Starting(s, "bulk")
    /\ Live(v) /\ bank[v] # b
    /\ loc' = [loc EXCEPT ![s] = [Blank EXCEPT !.vendor = v, !.new = b,
                                               !.cols = Differing(b, bank[v])]]
    /\ Goto(s, "preview")
    /\ UNCHANGED <<db, history>>

\* A vendor that is no longer there is passed over.
ConfirmRead(s) ==
    /\ pc[s] = "preview"
    /\ IF Live(loc[s].vendor)
       THEN /\ loc' = [loc EXCEPT ![s].seen = bank[loc[s].vendor]]
            /\ Goto(s, "confirm")
            /\ UNCHANGED <<db, history>>
       ELSE Fail(s)

\* An account number over 17 characters is refused: "bank details left
\* unchanged".  The routing number has been set by then.
Refused(l) == "account" \in l.cols /\ l.new.account \in LongAccount
Confirmed(l) ==
    [routing |-> Column("routing" \in l.cols, l.new.routing, l.seen.routing),
     account |-> Column("account" \in l.cols /\ ~Refused(l), l.new.account, l.seen.account)]

ConfirmCommit(s) ==
    LET l == loc[s]
    IN  /\ pc[s] = "confirm"
        /\ IF Lost(l.vendor, Confirmed(l), l.seen)
           THEN Fail(s)
           ELSE /\ Flush(l.vendor, Confirmed(l), l.seen)
                /\ Grant(l.vendor, l.new)
                /\ Finish(s)
                /\ UNCHANGED <<status, change, applied>>

-----------------------------------------------------------------------------
\* delete_single_vendor and bulk_delete_vendors; ON DELETE SET NULL.
\* Mutant: the requests keep pointing at the vendor.
OrphanedNever(row, vs) == row
Orphaned(row, vs) == IF row.vendor \in vs THEN [row EXCEPT !.vendor = None] ELSE row

DeleteVendors(s, vs) ==
    /\ Starting(s, "delete")
    /\ \A v \in vs : Live(v)
    /\ status' = [v \in Vendor |-> IF v \in vs THEN "deleted" ELSE status[v]]
    /\ change' = [c \in Change |-> Orphaned(change[c], vs)]
    /\ UNCHANGED <<bank, history, pc, loc>>

\* A request fails, or the preview is closed.
Abort(s) == pc[s] # "idle" /\ Fail(s)

Start(s) ==
    \/ \E v \in Vendor, b \in Details : SubmitRead(s, v, b) \/ EnterRead(s, v, b) \/ BulkPreview(s, v, b)
    \/ \E b \in Details : CreateRead(s, b)
    \/ \E c \in Change, verdict \in {"approved", "rejected"} : ReviewRead(s, c, verdict)
    \/ \E vs \in SUBSET Vendor \ {{}} : DeleteVendors(s, vs)

Step(s) ==
    \/ SubmitCommit(s) \/ SubmitForeignKeyError(s)
    \/ ReviewVendor(s) \/ ReviewCommit(s)
    \/ EnterCommit(s) \/ CreateCommit(s)
    \/ ConfirmRead(s) \/ ConfirmCommit(s)

Next == \E s \in Session : Start(s) \/ Step(s) \/ Abort(s)

Spec == Init /\ [][Next]_vars

-----------------------------------------------------------------------------
ChangeRow == [status : {"absent", "pending", "approved", "rejected"},
              vendor : Vendor \cup {None}, bank : Bank \cup {None}]

TypeOK ==
    /\ status \in [Vendor -> {"absent", "live", "deleted"}]
    /\ bank \in [Vendor -> Bank \cup {None}]
    /\ \A v \in Vendor : Live(v) => bank[v] \in Bank
    /\ change \in [Change -> ChangeRow]
    /\ \A c \in Change : change[c].status # "absent" => change[c].bank \in Bank
    /\ granted \in [Vendor -> SUBSET Bank]
    /\ latest \in [Vendor -> Bank \cup {None}]
    /\ applied \subseteq Change

\* A vendor is paid at the details it was given last.
LatestWins == \A v \in Vendor : Live(v) => bank[v] = latest[v]

\* A vendor is paid at details someone approved or entered as a pair: the
\* routing number of one and the account number of another is nobody's account.
NeverMixed == \A v \in Vendor : Live(v) => bank[v] \in granted[v]

\* However the requests modelled here interleave, each column holds a value the
\* vendor had at the start or an administrator gave it: a request that is pending
\* or rejected changes nothing.  (Vendors filed by an upload, or by the seed
\* endpoint or its script, come with bank details nobody was asked about, and the
\* script writes routing numbers; they are not among the endpoints here.)
ColumnsGranted ==
    \A v \in Vendor : Live(v) =>
        \E g, h \in granted[v] : bank[v].routing = g.routing /\ bank[v].account = h.account

\* A request shows APPROVED exactly when its details were written.
DecisionStands ==
    \A c \in Change : c \in applied <=> change[c].status = "approved"

\* No request refers to a vendor that is gone, one submitted while the vendor
\* was being deleted included.
RequestsReferToVendors == \A c \in Change : change[c].vendor # None => Live(change[c].vendor)

\* One request at a time, the workflow is the one MakerChecker describes.
Workflow == INSTANCE MakerChecker WITH
    details <- [v \in Vendor |-> IF Live(v) THEN bank[v] ELSE None],
    ask     <- change
FollowsWorkflow == Workflow!Spec

\* "Account number exceeds 17 characters - bank details left unchanged."
RefusedLeavesUnchanged ==
    [][\A s \in Session :
          pc[s] = "confirm" /\ pc'[s] = "idle" /\ Refused(loc[s]) => bank' = bank]_vars
=============================================================================
