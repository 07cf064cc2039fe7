---------------------------- MODULE PaymentLedger ----------------------------
(***************************************************************************)
(* The money path of the service: a payment enters through an upload or a  *)
(* manual batch, may be edited while pending, and leaves in a NACHA file.  *)
(* (api/v1/payments.py, services/duplicate_detector.py,                    *)
(* services/nacha_service.py, and clear-all of api/v1/remittances.py.)     *)
(*                                                                         *)
(* Each HTTP request is a coroutine with a database session of its own.    *)
(* It gives up control at every await, PostgreSQL runs at READ COMMITTED,  *)
(* and no query locks what it reads, so a handler is modelled as the       *)
(* reads it makes (into loc[r]) followed by ONE commit step that flushes   *)
(* its writes.  With one element in Request the requests are served one    *)
(* after the other; with more, they interleave.                            *)
(*                                                                         *)
(* A definition commented "Mutant" is no part of the model: it is what the *)
(* definition after it would be if the code had a certain mistake, and the *)
(* properties are tried against it.                                        *)
(***************************************************************************)
EXTENDS Integers, Sequences, FiniteSets, FiniteSetsExt

CONSTANTS
    Request,       \* request slots: how many handlers may be in flight
    Batch, File,   \* pools of row identifiers (uuid4: never reused)
    Vendor,        \* vendor rows that exist or may come to exist
    KnownVendors,  \* the vendors in the directory at the start
    HasEmail,      \* the vendors with a non-blank email
    MaxPayment,    \* bound: payment identifiers are 1..MaxPayment
    MaxTrace,      \* the largest trace number the 7-digit field holds
    Amount, Invoice,
    Sheets,        \* the row sequences users submit
    Edits,         \* the payloads users submit to PUT /payments/{id}
    Starts,        \* the trace_sequence_start values users submit; 0 = none
    Operations,    \* the endpoints in use (a bound on the environment)
    None

Payment == 1..MaxPayment

Row == [vendor : Vendor, amount : Amount, inv : Invoice, bank : BOOLEAN]

ASSUME ConstantsAssumption ==
    /\ KnownVendors \subseteq Vendor /\ HasEmail \subseteq Vendor
    /\ MaxPayment \in Nat /\ MaxTrace \in Nat \ {0}
    /\ Sheets \subseteq Seq(Row)
    /\ Edits \subseteq [amount : Amount \cup {None}, inv : Invoice \cup {None}]
    /\ Starts \subseteq Nat /\ Amount \subseteq Int
    /\ None \notin Vendor \cup Batch \cup File \cup Amount \cup Invoice \cup Nat
    /\ None \notin [total : Int, valid : Nat]

VARIABLES
    vendor,   \* vendors: Vendor -> "absent" | "live" | "deleted"
    batch,    \* upload_batches.status, or "absent" | "deleted"
    tally,    \* upload_batches.total_amount and valid_rows_count
    payment,  \* payments rows
    issued,   \* the last payment identifier handed out
    nfile,    \* nacha_files rows with the entries of raw_content
    remit,    \* vendor_remittances rows
    seq,      \* nacha_trace_sequence: the last value nextval returned
    pc,       \* where each request is
    loc       \* what each request has read

db   == <<vendor, batch, tally, payment, issued, nfile, remit>>
vars == <<vendor, batch, tally, payment, issued, nfile, remit, seq, pc, loc>>

\* Mutant: the invoice number is left out.
FingerprintWithoutInvoice(v, a, i) == <<v, a>>
Fingerprint(v, a, i) == <<v, a, i>>

NoPayment == [status |-> "absent", batch |-> None, vendor |-> None,
              amount |-> None, inv |-> None, fp |-> None, override |-> FALSE,
              vetted |-> FALSE, file |-> None, trace |-> None]

NoFile == [status |-> "absent", entries |-> {}, batches |-> {}, explicit |-> FALSE]

Blank == [base |-> 0, sheet |-> <<>>, kept |-> {}, marked |-> {}, matched |-> {},
          pay |-> None, row |-> NoPayment, seen |-> NoPayment,
          sum |-> None, bseen |-> None,
          bids |-> {}, snap |-> <<>>, start |-> 0, first |-> 0,
          doomR |-> {}, doomP |-> {}, doomF |-> {}]

Init ==
    /\ vendor = [v \in Vendor |-> IF v \in KnownVendors THEN "live" ELSE "absent"]
    /\ batch = [b \in Batch |-> "absent"]
    /\ tally = [b \in Batch |-> [total |-> 0, valid |-> 0]]
    /\ payment = [p \in Payment |-> NoPayment]
    /\ issued = 0
    /\ nfile = [f \in File |-> NoFile]
    /\ remit = {}
    /\ seq = 0
    /\ pc = [r \in Request |-> "idle"]
    /\ loc = [r \in Request |-> Blank]

Goto(r, label) == pc' = [pc EXCEPT ![r] = label]

\* The response is sent and the session closed; whatever was read is forgotten.
Finish(r) == /\ pc' = [pc EXCEPT ![r] = "idle"]
             /\ loc' = [loc EXCEPT ![r] = Blank]

\* A request that fails leaves the database as it was.
Fail(r) == Finish(r) /\ UNCHANGED <<db, seq>>

Starting(r, op) == pc[r] = "idle" /\ op \in Operations

Stored == {p \in Payment : payment[p].status \in {"pending", "processing"}}
\* Mutant: the guard on PROCESSED is missing.
OpenEvenIfProcessed(b) == batch[b] \in {"parsed", "partially_failed", "failed", "processed"}
Open(b) == batch[b] \in {"parsed", "partially_failed", "failed"}
Exists(b) == Open(b) \/ batch[b] = "processed"
InBatch(b) == {p \in Stored : payment[p].batch = b}

\* Payments that an uncommitted clear-all has deleted: an UPDATE of one waits.
\* Mutant: the lock outlives the transaction.
LockedForEver(ps) == \E p \in ps : payment[p].status = "deleted"
Locked(ps) == \E q \in Request : loc[q].doomP \cap ps # {}

\* Bound: a request that takes an identifier from a pool starts only when the
\* pool holds one for it and for each request at one of those labels.
RoomFor(pool, labels) == Cardinality({q \in Request : pc[q] \in labels}) < Cardinality(pool)

-----------------------------------------------------------------------------
(* Upload and manual batch (upload_payment_spreadsheet,                     *)
(* create_manual_payment_batch, detect_payment_duplicates).                 *)

\* Mutant: payments already sent are not looked at.
PendingFingerprints == {payment[p].fp : p \in {q \in Stored : payment[q].status = "pending"}}
StoredFingerprints == {payment[p].fp : p \in Stored}

\* The rows of a manual batch whose vendor is in the directory, and those of a
\* spreadsheet: there an unknown vendor that comes with bank details will do.
Matched(sheet) == {i \in DOMAIN sheet : vendor[sheet[i].vendor] = "live"}
Parsed(sheet)  == Matched(sheet) \cup {i \in DOMAIN sheet : sheet[i].bank}

\* Resolve the vendors and look the fingerprints up.  The row of an unknown
\* vendor is kept WITHOUT a duplicate check (its vendor_id is None).
UploadRead(r, sheet, manual, override) ==
    LET fp(i)     == Fingerprint(sheet[i].vendor, sheet[i].amount, sheet[i].inv)
        matched   == Matched(sheet)
        parsed    == IF manual THEN matched ELSE Parsed(sheet)
        duplicate == {i \in matched : \/ fp(i) \in StoredFingerprints
                                      \/ \E j \in matched : j < i /\ fp(j) = fp(i)}
    IN  /\ Starting(r, "upload")
        /\ manual => sheet # <<>>
        /\ issued + Len(sheet) <= MaxPayment
        /\ RoomFor({b \in Batch : batch[b] = "absent"}, {"up_commit"})
        \* a new row under a deleted vendor's name is another element of Vendor
        /\ \A i \in DOMAIN sheet : vendor[sheet[i].vendor] # "deleted"
        /\ loc' = [loc EXCEPT ![r] = [Blank EXCEPT
                      !.base = issued, !.sheet = sheet, !.matched = matched,
                      !.kept = IF override THEN parsed ELSE parsed \ duplicate,
                      !.marked = IF override THEN duplicate ELSE {}]]
        /\ issued' = issued + Len(sheet)
        /\ Goto(r, "up_commit")
        /\ UNCHANGED <<vendor, batch, tally, payment, nfile, remit, seq>>

\* The payment stored for row i of the sheet request r submitted.
NewPayment(r, b, i) ==
    LET row == loc[r].sheet[i]
    IN  [status |-> "pending", batch |-> b, vendor |-> row.vendor,
         amount |-> row.amount, inv |-> row.inv,
         fp |-> Fingerprint(row.vendor, row.amount, row.inv),
         override |-> i \in loc[r].marked, vetted |-> i \in loc[r].matched,
         file |-> None, trace |-> None]

BatchStatusOf(kept, rows) ==
    IF kept = DOMAIN rows THEN "parsed"
    ELSE IF kept = {} THEN "failed" ELSE "partially_failed"

\* upload_batches.total_amount and valid_rows_count of a new batch.
\* Mutant: the rows that were left out count too.
TallyOfAll(rows, kept) ==
    [total |-> SumFunction([i \in DOMAIN rows |-> rows[i].amount]), valid |-> Cardinality(kept)]
TallyOf(rows, kept) ==
    [total |-> SumFunction([i \in kept |-> rows[i].amount]), valid |-> Cardinality(kept)]

UploadCommit(r) ==
    LET kept == loc[r].kept
        rows == loc[r].sheet
        base == loc[r].base
    IN  /\ pc[r] = "up_commit"
        \* payments.vendor_id is a foreign key: a vendor deleted since fails the insert
        /\ \A i \in kept : vendor[rows[i].vendor] # "deleted"
        /\ \E b \in Batch :
              /\ batch[b] = "absent"
              /\ batch' = [batch EXCEPT ![b] = BatchStatusOf(kept, rows)]
              /\ tally' = [tally EXCEPT ![b] = TallyOf(rows, kept)]
              /\ payment' = [p \in Payment |->
                    IF p - base \in kept THEN NewPayment(r, b, p - base) ELSE payment[p]]
        /\ vendor' = [v \in Vendor |->
              IF \E i \in kept : rows[i].vendor = v THEN "live" ELSE vendor[v]]
        /\ Finish(r)
        /\ UNCHANGED <<issued, nfile, remit, seq>>

UploadForeignKeyError(r) ==
    /\ pc[r] = "up_commit"
    /\ \E i \in loc[r].kept : vendor[loc[r].sheet[i].vendor] = "deleted"
    /\ Fail(r)

-----------------------------------------------------------------------------
(* Editing a pending payment (update_payment_item): four awaits.            *)

Default(new, old) == IF new = None THEN old ELSE new

\* Mutant: what is in a file may be edited.
EditableEvenIfSent(p) == p \in Stored
Editable(p) == p \in Stored /\ payment[p].file = None /\ payment[p].status = "pending"

\* Read the payment, refuse it unless it is pending and in no file, and set
\* the attributes.  The fingerprint follows the new values; nothing looks it up.
EditRead(r, p, edit) ==
    LET old == payment[p]
        amount == Default(edit.amount, old.amount)
        inv    == Default(edit.inv, old.inv)
        fp     == IF old.vendor = None THEN old.fp ELSE Fingerprint(old.vendor, amount, inv)
        new    == [old EXCEPT !.amount = amount, !.inv = inv, !.fp = fp,
                              !.vetted = @ /\ fp = old.fp]
    IN  /\ Starting(r, "edit")
        /\ Editable(p)
        /\ loc' = [loc EXCEPT ![r] = [Blank EXCEPT !.pay = p, !.seen = old, !.row = new]]
        /\ Goto(r, "ed_siblings")
        /\ UNCHANGED <<db, seq>>

\* The payment being edited counts with its new amount, its siblings with what
\* is committed now.
\* Mutant: the stored amount is added up.
CountedAsStored(l, q) == payment[q].amount
Counted(l, q) == IF q = l.pay THEN l.row.amount ELSE payment[q].amount

\* Re-read the payments of the batch.
EditSiblings(r) ==
    LET siblings == InBatch(loc[r].seen.batch)
    IN  /\ pc[r] = "ed_siblings"
        /\ loc' = [loc EXCEPT ![r].sum =
              [total |-> SumFunction([q \in siblings |-> Counted(loc[r], q)]), valid |-> Cardinality(siblings)]]
        /\ Goto(r, "ed_batch")
        /\ UNCHANGED <<db, seq>>

EditBatch(r) ==
    LET b == loc[r].seen.batch
    IN  /\ pc[r] = "ed_batch"
        /\ loc' = [loc EXCEPT ![r].bseen =
              IF b \in Batch /\ Exists(b) THEN tally[b] ELSE None]
        /\ Goto(r, "ed_commit")
        /\ UNCHANGED <<db, seq>>

\* The flush writes the columns whose value differs from the one this session
\* loaded, and no others; an UPDATE that finds no row rolls the request back.
Column(changed, new, current) == IF changed THEN new ELSE current

\* Mutant: the fingerprint is not recomputed.
UpdatedButFingerprint(row, new, old) ==
    [row EXCEPT !.amount = Column(new.amount # old.amount, new.amount, @),
                !.inv    = Column(new.inv # old.inv, new.inv, @)]
Updated(row, new, old) ==
    [row EXCEPT !.amount = Column(new.amount # old.amount, new.amount, @),
                !.inv    = Column(new.inv # old.inv, new.inv, @),
                !.fp     = Column(new.fp # old.fp, new.fp, @),
                !.vetted = Column(new.fp # old.fp, FALSE, @)]

EditCommit(r) ==
    LET p == loc[r].pay
        b == loc[r].seen.batch
        old == loc[r].seen
        new == loc[r].row
        sum == loc[r].sum
        bseen == loc[r].bseen
        paymentDirty == new # old
        batchDirty   == bseen # None /\ sum # bseen
    IN  /\ pc[r] = "ed_commit"
        /\ paymentDirty => ~Locked({p})
        /\ IF (paymentDirty /\ p \notin Stored) \/ (batchDirty /\ ~Exists(b))
           THEN Fail(r)
           ELSE /\ payment' = IF ~paymentDirty THEN payment ELSE
                     [payment EXCEPT ![p] = Updated(@, new, old)]
                /\ tally' = IF ~batchDirty THEN tally ELSE
                     [tally EXCEPT ![b].total = Column(sum.total # bseen.total, sum.total, @),
                                   ![b].valid = Column(sum.valid # bseen.valid, sum.valid, @)]
                /\ Finish(r)
                /\ UNCHANGED <<vendor, batch, issued, nfile, remit, seq>>

-----------------------------------------------------------------------------
(* Generating a file (combine_batches_and_generate_nacha): read batches and *)
(* payments, read vendors, take trace numbers, build the text, commit.      *)

GenRead(r, bids, start) ==
    /\ Starting(r, "generate")
    /\ \A b \in bids : Open(b) /\ InBatch(b) # {}
    /\ RoomFor({f \in File : nfile[f].status = "absent"}, {"gen_vendors", "gen_alloc", "gen_commit"})
    /\ start = 0 => seq <= MaxTrace   \* bound: the sequence is not drawn on for ever
    /\ loc' = [loc EXCEPT ![r] = [Blank EXCEPT
          !.bids = bids, !.start = start,
          !.snap = [p \in UNION {InBatch(b) : b \in bids} |->
                       [batch  |-> payment[p].batch,  vendor |-> payment[p].vendor,
                        amount |-> payment[p].amount, inv    |-> payment[p].inv]]]]
    /\ Goto(r, "gen_vendors")
    /\ UNCHANGED <<db, seq>>

\* Every payment needs a vendor that exists when the vendors are read.
GenVendors(r) ==
    /\ pc[r] = "gen_vendors"
    /\ IF \A p \in DOMAIN loc[r].snap :
             LET v == loc[r].snap[p].vendor IN v \in Vendor /\ vendor[v] = "live"
       THEN Goto(r, "gen_alloc") /\ UNCHANGED <<loc, db, seq>>
       ELSE Fail(r)

\* allocate_trace_sequence: one nextval per entry.  The numbers are gone even
\* if the request fails, here or later.
\* Mutant: the highest number in a stored file instead of the sequence.
LastTraceStored ==
    LET stored == {f \in File : nfile[f].status = "generated"}
    IN  Max({0} \cup {e.trace : e \in UNION {nfile[f].entries : f \in stored}})
LastTrace == seq

GenAllocate(r) ==
    LET last == LastTrace + Cardinality(DOMAIN loc[r].snap)
    IN  /\ pc[r] = "gen_alloc"
        /\ loc[r].start = 0
        /\ seq' = last
        /\ IF last > MaxTrace
           THEN Finish(r)
           ELSE /\ loc' = [loc EXCEPT ![r].first = LastTrace + 1]
                /\ Goto(r, "gen_commit")
        /\ UNCHANGED db

\* Another request's nextval fell among these: not contiguous, refused.
GenAllocateGap(r) ==
    /\ pc[r] = "gen_alloc"
    /\ loc[r].start = 0
    /\ \E q \in Request \ {r} : pc[q] = "gen_alloc"
    /\ Cardinality(DOMAIN loc[r].snap) > 1
    /\ seq' = seq + Cardinality(DOMAIN loc[r].snap)
    /\ Finish(r)
    /\ UNCHANGED db

\* An explicit trace_sequence_start bypasses the sequence.
GenExplicit(r) ==
    /\ pc[r] = "gen_alloc"
    /\ loc[r].start > 0
    /\ loc' = [loc EXCEPT ![r].first = loc[r].start]
    /\ Goto(r, "gen_commit")
    /\ UNCHANGED <<db, seq>>

\* The orders the entries may be written in: batch after batch, and within a
\* batch by created_at, which is the same for all payments of one transaction.
\* Mutant: all the entries of a batch get the same number.
OrdersRepeated(snap) ==
    {pos \in [DOMAIN snap -> 0..(Cardinality(DOMAIN snap) - 1)] :
        \A p, q \in DOMAIN snap : snap[p].batch = snap[q].batch => pos[p] = pos[q]}
Orders(snap) ==
    {pos \in [DOMAIN snap -> 0..(Cardinality(DOMAIN snap) - 1)] :
        /\ \A p, q \in DOMAIN snap : pos[p] = pos[q] => p = q
        /\ \A p, q, m \in DOMAIN snap :
              snap[p].batch = snap[q].batch /\ pos[p] < pos[m] /\ pos[m] < pos[q]
              => snap[m].batch = snap[p].batch}

\* The field keeps the low-order digits.
TraceField(n) == n % (MaxTrace + 1)

\* A vendor with an email is sent an advice, one without is skipped.
Advised(snap) == {p \in DOMAIN snap : snap[p].vendor \in HasEmail}

\* The payment row once it is in file f with trace number t.
\* Mutants: its status, or its trace number, is not written.
PaidStillPending(row, f, t) == [row EXCEPT !.file = f, !.trace = t]
PaidWithoutTrace(row, f, t) == [row EXCEPT !.file = f, !.status = "processing"]
Paid(row, f, t) == [row EXCEPT !.file = f, !.status = "processing", !.trace = t]

\* The remittance row of payment p in file f with trace number t.
\* Mutant: the amount is read again from the payment.
NewAdviceReread(snap, p, f, t) ==
    [id |-> <<p, f>>, pay |-> p, file |-> f, amount |-> payment[p].amount, inv |-> snap[p].inv,
     trace |-> t]
NewAdvice(snap, p, f, t) ==
    [id |-> <<p, f>>, pay |-> p, file |-> f, amount |-> snap[p].amount, inv |-> snap[p].inv,
     trace |-> t]

GenCommit(r) ==
    LET snap == loc[r].snap
        paid == DOMAIN snap
    IN  /\ pc[r] = "gen_commit"
        /\ ~Locked(paid)
        /\ paid \subseteq Stored /\ \A b \in loc[r].bids : Exists(b)
        /\ \A p \in Advised(snap) : vendor[snap[p].vendor] # "deleted"
        /\ \E f \in File, pos \in Orders(snap) :
             LET trace(p) == TraceField(loc[r].first + pos[p])
             IN /\ nfile[f].status = "absent"
                /\ nfile' = [nfile EXCEPT ![f] =
                      [status  |-> "generated",
                       entries |-> {[pay |-> p, amount |-> snap[p].amount, inv |-> snap[p].inv,
                                     trace |-> trace(p)] : p \in paid},
                       batches |-> loc[r].bids,
                       explicit |-> loc[r].start > 0]]
                /\ payment' = [p \in Payment |->
                      IF p \in paid THEN Paid(payment[p], f, trace(p)) ELSE payment[p]]
                /\ remit' = remit \cup {NewAdvice(snap, p, f, trace(p)) : p \in Advised(snap)}
        /\ batch' = [b \in Batch |-> IF b \in loc[r].bids THEN "processed" ELSE batch[b]]
        /\ Finish(r)
        /\ UNCHANGED <<vendor, tally, issued, seq>>

\* The rows were deleted meanwhile (StaleDataError), or the vendor an advice
\* refers to was (foreign key).
GenCommitError(r) ==
    LET snap == loc[r].snap
    IN  /\ pc[r] = "gen_commit"
        /\ ~Locked(DOMAIN snap)
        /\ \/ ~(DOMAIN snap \subseteq Stored)
           \/ \E b \in loc[r].bids : ~Exists(b)
           \/ \E p \in Advised(snap) : vendor[snap[p].vendor] = "deleted"
        /\ Fail(r)

-----------------------------------------------------------------------------
(* clear-all (clear_all_payment_history): four DELETEs in one transaction,  *)
(* each deleting the rows committed when it runs.  A deleted row's foreign  *)
(* keys become NULL in the rows that survive.  Bound: one clear-all at a    *)
(* time.                                                                    *)

ClearRemittances(r) ==
    /\ Starting(r, "clear")
    /\ \A q \in Request : pc[q] \notin {"clr_payments", "clr_files", "clr_commit"}
    /\ loc' = [loc EXCEPT ![r] = [Blank EXCEPT !.doomR = {x.id : x \in remit}]]
    /\ Goto(r, "clr_payments")
    /\ UNCHANGED <<db, seq>>

ClearPayments(r) ==
    /\ pc[r] = "clr_payments"
    /\ loc' = [loc EXCEPT ![r].doomP = Stored]
    /\ Goto(r, "clr_files")
    /\ UNCHANGED <<db, seq>>

ClearFiles(r) ==
    /\ pc[r] = "clr_files"
    /\ loc' = [loc EXCEPT ![r].doomF = {f \in File : nfile[f].status = "generated"}]
    /\ Goto(r, "clr_commit")
    /\ UNCHANGED <<db, seq>>

\* ON DELETE SET NULL.
\* Mutant: the reference is left dangling.
NullNever(ref, doomed) == ref
NullIf(ref, doomed) == IF ref \in doomed THEN None ELSE ref

ClearCommit(r) ==
    LET doomP == loc[r].doomP
        doomF == loc[r].doomF
        doomB == {b \in Batch : Exists(b)}
    IN  /\ pc[r] = "clr_commit"
        /\ payment' = [p \in Payment |->
              IF p \in doomP THEN [NoPayment EXCEPT !.status = "deleted"]
              ELSE [payment[p] EXCEPT !.file = NullIf(@, doomF), !.batch = NullIf(@, doomB)]]
        /\ nfile' = [f \in File |->
              IF f \in doomF THEN [nfile[f] EXCEPT !.status = "deleted"] ELSE nfile[f]]
        /\ batch' = [b \in Batch |-> IF b \in doomB THEN "deleted" ELSE batch[b]]
        /\ remit' = {[x EXCEPT !.pay = NullIf(@, doomP), !.file = NullIf(@, doomF)] :
                        x \in {y \in remit : y.id \notin loc[r].doomR}}
        /\ Finish(r)
        /\ UNCHANGED <<vendor, tally, issued, seq>>

-----------------------------------------------------------------------------
\* delete_single_vendor, as the ledger sees it: payments.vendor_id becomes NULL.
DeleteVendor(v) ==
    /\ "delete_vendor" \in Operations
    /\ v \in KnownVendors /\ vendor[v] = "live"
    /\ ~Locked({p \in Stored : payment[p].vendor = v})
    /\ vendor' = [vendor EXCEPT ![v] = "deleted"]
    /\ payment' = [p \in Payment |-> [payment[p] EXCEPT !.vendor = NullIf(@, {v})]]
    /\ UNCHANGED <<batch, tally, issued, nfile, remit, seq, pc, loc>>

\* A request ends without a commit: the file text fails validation, the client
\* or the process goes away, an exception is raised.  The session rolls back.
Abort(r) == pc[r] # "idle" /\ Fail(r)

Step(r) ==
    \/ UploadCommit(r) \/ UploadForeignKeyError(r)
    \/ EditSiblings(r) \/ EditBatch(r) \/ EditCommit(r)
    \/ GenVendors(r) \/ GenAllocate(r) \/ GenAllocateGap(r) \/ GenExplicit(r)
    \/ GenCommit(r) \/ GenCommitError(r)
    \/ ClearPayments(r) \/ ClearFiles(r) \/ ClearCommit(r)

Start(r) ==
    \/ \E sheet \in Sheets, manual, override \in BOOLEAN : UploadRead(r, sheet, manual, override)
    \/ \E p \in Payment, edit \in Edits : EditRead(r, p, edit)
    \/ \E bids \in SUBSET Batch \ {{}}, start \in Starts : GenRead(r, bids, start)
    \/ ClearRemittances(r)

Next ==
    \/ \E r \in Request : Start(r) \/ Step(r) \/ Abort(r)
    \/ \E v \in Vendor : DeleteVendor(v)

Spec == Init /\ [][Next]_vars

\* The event loop resumes every coroutine whose await has an answer, and an
\* UPDATE waiting for a row lock gets it in its turn: strong fairness.
FairSpec == Spec /\ \A r \in Request : SF_vars(Step(r))

-----------------------------------------------------------------------------
(* Properties.                                                              *)

Entry == [pay : Payment, amount : Amount, inv : Invoice, trace : 0..MaxTrace]

PaymentRow ==
    [status : {"absent", "pending", "processing", "deleted"},
     batch : Batch \cup {None}, vendor : Vendor \cup {None},
     amount : Amount \cup {None}, inv : Invoice \cup {None},
     fp : (Vendor \X Amount \X Invoice) \cup {None},
     override : BOOLEAN, vetted : BOOLEAN,
     file : File \cup {None}, trace : (0..MaxTrace) \cup {None}]

Advice == [id : Payment \X File, pay : Payment \cup {None}, file : File \cup {None},
           amount : Amount, inv : Invoice, trace : 0..MaxTrace]

\* The type of the stored rows (the sums and counts of tally are left out).
TypeOK ==
    /\ vendor \in [Vendor -> {"absent", "live", "deleted"}]
    /\ batch \in [Batch -> {"absent", "parsed", "partially_failed", "failed", "processed", "deleted"}]
    /\ DOMAIN tally = Batch
    /\ payment \in [Payment -> PaymentRow]
    /\ \A p \in Stored : payment[p].amount \in Amount /\ payment[p].inv \in Invoice
    /\ issued \in 0..MaxPayment
    /\ nfile \in [File -> [status : {"absent", "generated", "deleted"}, entries : SUBSET Entry,
                           batches : SUBSET Batch, explicit : BOOLEAN]]
    /\ remit \subseteq Advice
    /\ seq \in Nat

\* No batch is written into two NACHA files: the guard on PROCESSED in
\* combine_batches_and_generate_nacha exists so that no invoice is paid twice.
BatchPaidOnce ==
    \A f, g \in File : f # g => nfile[f].batches \cap nfile[g].batches = {}

\* What the ledger says of a payment in a file is what the file says of it, and
\* every entry of a stored file belongs to a payment linked to that file.
LedgerAgreesWithFiles ==
    \A f \in File : nfile[f].status = "generated" =>
        \A e \in nfile[f].entries :
            LET p == payment[e.pay]
            IN  p.file = f /\ p.amount = e.amount /\ p.inv = e.inv /\ p.trace = e.trace

\* upload_batches.total_amount and valid_rows_count are the sum and the number
\* of the payments of the batch (update_payment_item recomputes them).
TotalsAgree ==
    \A b \in Batch : Exists(b) =>
        /\ tally[b].total = SumFunction([p \in InBatch(b) |-> payment[p].amount])
        /\ tally[b].valid = Cardinality(InBatch(b))

\* The credits of a file add up to the totals shown for the batches it pays.
FilesReconcile ==
    \A f \in File : nfile[f].status = "generated" =>
        SumFunction([e \in nfile[f].entries |-> e.amount])
            = SumFunction([b \in nfile[f].batches |-> tally[b].total])

\* The stored fingerprint is the fingerprint of the stored values.
FingerprintFollows ==
    \A p \in Stored : payment[p].vendor # None =>
        payment[p].fp = Fingerprint(payment[p].vendor, payment[p].amount, payment[p].inv)

\* Of two payments whose fingerprints the detector looked up, and let pass as
\* new, no two are the same payment.
VettedAreUnique ==
    \A p, q \in Stored :
        (/\ p # q
         /\ payment[p].vetted /\ ~payment[p].override
         /\ payment[q].vetted /\ ~payment[q].override) => payment[p].fp # payment[q].fp

\* No two payments are the same unless one carries the explicit override.
NoUnmarkedDuplicate ==
    \A p, q \in Stored :
        p # q /\ payment[p].fp = payment[q].fp => payment[p].override \/ payment[q].override

\* A payment has a trace number exactly when it is in PROCESSING, and the file
\* it refers to has the entry with that number.
LinksConsistent ==
    \A p \in Stored :
        /\ payment[p].status = "processing" <=> payment[p].trace # None
        /\ payment[p].file # None =>
              \E e \in nfile[payment[p].file].entries : e.pay = p /\ e.trace = payment[p].trace

\* The batch is closed exactly when its payments have left: no open batch holds
\* a payment that is in a file, no processed one a payment that is not.
ClosedIffPaid ==
    \A p \in Stored : payment[p].batch # None =>
        (payment[p].status = "processing" <=> batch[payment[p].batch] = "processed")

\* No trace number drawn from the sequence appears twice, in one file or two,
\* files since deleted included.
SequenceTracesUnique ==
    \A f, g \in File : ~nfile[f].explicit /\ ~nfile[g].explicit =>
        \A d \in nfile[f].entries, e \in nfile[g].entries : d.trace = e.trace => f = g /\ d = e

\* The advice a vendor is sent quotes the entry of the file it is about.
AdviceAgreesWithFile ==
    \A x \in remit :
        \E e \in nfile[x.id[2]].entries :
            e.pay = x.id[1] /\ e.amount = x.amount /\ e.inv = x.inv /\ e.trace = x.trace

\* A batch can be paid by as many files as there were requests in flight when
\* the first of them committed, and by no more.
PaymentsBoundedByRequests ==
    \A b \in Batch : Cardinality({f \in File : b \in nfile[f].batches}) <= Cardinality(Request)

\* No row that is left refers to a row that is gone: deleting a vendor and
\* clear-all, its four DELETEs apart in time, undo every reference to what they
\* delete, those written in between included.
ReferencesLive ==
    /\ \A p \in Stored :
          /\ payment[p].vendor # None => vendor[payment[p].vendor] = "live"
          /\ payment[p].batch # None => Exists(payment[p].batch)
          /\ payment[p].file # None => nfile[payment[p].file].status = "generated"
    /\ \A x \in remit :
          /\ x.pay # None => x.pay \in Stored
          /\ x.file # None => nfile[x.file].status = "generated"

\* A payment in a generated file is immutable.
SentIsFrozen ==
    [][\A p \in Stored : payment[p].file # None /\ payment'[p].status # "deleted" =>
          /\ payment'[p].amount = payment[p].amount
          /\ payment'[p].inv = payment[p].inv
          /\ payment'[p].trace = payment[p].trace]_vars

\* The stage of a payment, and the instructions in the files, those cleared included.
Stage(status) == CASE status = "absent"     -> "none"
                   [] status = "pending"    -> "draft"
                   [] status = "processing" -> "sent"
                   [] status = "deleted"    -> "cleared"
Told == UNION {{<<e.pay, e.amount, f>> : e \in nfile[f].entries} : f \in File}

\* With one request at a time the ledger does what Disbursement promises.
Promise == INSTANCE Disbursement WITH
    stage  <- [p \in Payment |-> Stage(payment[p].status)],
    amount <- [p \in Payment |-> payment[p].amount],
    bank   <- Told
KeepsPromise == Promise!Spec

\* Every request is answered: no commit waits for ever.
EveryRequestEnds == \A r \in Request : pc[r] # "idle" ~> pc[r] = "idle"
=============================================================================
