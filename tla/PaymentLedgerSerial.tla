------------------------- MODULE PaymentLedgerSerial -------------------------
(***************************************************************************)
(* PaymentLedger when requests are served one after the other: only the    *)
(* deletion of a vendor, one statement, falls between the reads of a       *)
(* request and its commit.  Then what a request has read still holds when  *)
(* it commits, and the ledger does what Disbursement promises.             *)
(***************************************************************************)
EXTENDS PaymentLedgerProofs, Sums

OneRequest == \A q, r \in Request : q = r

-----------------------------------------------------------------------------
(* One file per batch.                                                      *)

\* The batches a request means to pay are open.
PayingOpen ==
    \A r \in Request : pc[r] \in Generating => \A b \in loc[r].bids : Open(b)

LEMMA NextPayingOpen ==
    ASSUME OneRequest, TypeInv, PayingOpen, [Next]_vars
    PROVE  PayingOpen'
<1> SUFFICES ASSUME NEW q \in Request, pc'[q] \in Generating
             PROVE  \A b \in loc'[q].bids : Open(b)'
  BY DEF PayingOpen
<1>1. CASE \E bids \in SUBSET Batch \ {{}}, start \in Starts : GenRead(q, bids, start)
  <2>1. PICK bids \in SUBSET Batch, start \in Starts : GenRead(q, bids, start)
    BY <1>1
  <2>2. UNCHANGED batch /\ loc'[q].bids = bids /\ \A b \in bids : Open(b)
    BY <2>1, GenReadSnap DEF db
  <2> QED
    BY <2>2 DEF Open
<1>2. CASE ~\E bids \in SUBSET Batch \ {{}}, start \in Starts : GenRead(q, bids, start)
  <2>1. pc[q] \in Generating /\ loc'[q].bids = loc[q].bids
    BY <1>2, GeneratingKeeps
  <2>2. \A r \in Request : ~UploadCommit(r) /\ ~EditCommit(r) /\ ~GenCommit(r) /\ ~ClearCommit(r)
    BY CommitsFinish, FinishMoves DEF OneRequest, Generating
  <2>3. ASSUME NEW v \in Vendor, DeleteVendor(v) PROVE batch' = batch
    BY <2>3 DEF DeleteVendor
  <2>4. batch' = batch
    BY <2>2, <2>3, OtherSteps
  <2> QED
    BY <2>1, <2>4 DEF PayingOpen, Open
<1> QED
  BY <1>1, <1>2

LEMMA NextPaidOnce ==
    ASSUME TypeInv, FilesStartEmpty, PaidAreClosed, PayingOpen, BatchPaidOnce, [Next]_vars
    PROVE  BatchPaidOnce'
<1>1. ASSUME NEW r \in Request, GenCommit(r) PROVE BatchPaidOnce'
  <2>1. PICK f \in File :
            /\ nfile'[f].batches = loc[r].bids /\ pc[r] \in Generating
            /\ \A g \in File \ {f} : nfile'[g].batches = nfile[g].batches
    BY <1>1, GenPays
  <2>2. \A g \in File : nfile[g].batches \cap loc[r].bids = {}
    BY <2>1 DEF PaidAreClosed, PayingOpen, Open
  <2> QED
    BY <2>1, <2>2 DEF BatchPaidOnce
<1>2. CASE \A r \in Request : ~GenCommit(r)
  BY <1>2, OtherStepsPayNothing DEF BatchPaidOnce
<1> QED
  BY <1>1, <1>2

\* When requests are served one after the other, the guard on processed batches
\* is enough: no batch is ever written into two files.  (With two requests in
\* flight it is not.)
THEOREM SerialBatchPaidOnce ==
    ASSUME OneRequest
    PROVE  Spec => []BatchPaidOnce
<1>1. Init => PayingOpen /\ BatchPaidOnce
  BY DEF Init, PayingOpen, BatchPaidOnce, NoFile, Generating
<1>2. TypeInv /\ PayingOpen /\ [Next]_vars => PayingOpen'
  BY OneRequest, NextPayingOpen
<1>3. TypeInv /\ LinkInv /\ PaidAreClosed /\ PayingOpen /\ BatchPaidOnce /\ [Next]_vars
         => BatchPaidOnce'
  BY NextPaidOnce DEF LinkInv
<1> QED
  BY <1>1, <1>2, <1>3, InitType, NextType, LinkInvHolds, PaidAreClosedHolds, PTL DEF Spec

-----------------------------------------------------------------------------
(* What a request has read still holds when it commits.                     *)

\* Only a payment that is PROCESSING is in a file; one that is gone shows nothing.
Unlinked ==
    \A p \in Payment :
        /\ payment[p].status # "processing" => payment[p].file = None
        /\ p \notin Stored => payment[p].amount = None

\* The rows an upload has looked up and let pass as new, and their fingerprints.
Passed(r) == (loc[r].kept \cap loc[r].matched) \ loc[r].marked
RowPrint(r, i) == Fingerprint(loc[r].sheet[i].vendor, loc[r].sheet[i].amount, loc[r].sheet[i].inv)

UploadReads(r) ==
    pc[r] = "up_commit" =>
        /\ \A i \in Passed(r) : RowPrint(r, i) \notin StoredFingerprints
        /\ \A i, j \in Passed(r) : i # j => RowPrint(r, i) # RowPrint(r, j)

EditReads(r) ==
    pc[r] \in Editing =>
        LET now == payment[loc[r].pay]
            old == loc[r].seen
            new == loc[r].row
        IN  /\ now.status = "pending" /\ now.vendor \in {old.vendor, None}
            /\ now.amount = old.amount /\ now.inv = old.inv /\ now.fp = old.fp
            /\ old.vendor # None => new.fp = Fingerprint(old.vendor, new.amount, new.inv)

GenReads(r) ==
    pc[r] \in Generating => \A p \in DOMAIN loc[r].snap :
        /\ payment[p].status = "pending"
        /\ payment[p].amount = loc[r].snap[p].amount /\ payment[p].inv = loc[r].snap[p].inv

ClearReads(r) ==
    /\ pc[r] \in {"clr_files", "clr_commit"} => loc[r].doomP = Stored
    /\ pc[r] = "clr_commit" => loc[r].doomF = {f \in File : nfile[f].status = "generated"}

Reads == \A r \in Request : UploadReads(r) /\ EditReads(r) /\ GenReads(r) /\ ClearReads(r)

LEMMA NextUnlinked == TypeInv /\ Unlinked /\ [Next]_vars => Unlinked'
<1> SUFFICES ASSUME TypeInv, Unlinked, [Next]_vars, NEW p \in Payment
             PROVE  /\ payment'[p].status # "processing" => payment'[p].file = None
                    /\ p \notin Stored' => payment'[p].amount = None
  BY DEF Unlinked
<1>1. ASSUME NEW r \in Request, UploadCommit(r)
      PROVE  \/ payment'[p] = payment[p]
             \/ payment'[p].status = "pending" /\ payment'[p].file = None
  <2>1. PICK b \in Batch : payment' = [q \in Payment |-> IF q \in Uploaded(r)
                               THEN NewPayment(r, b, q - loc[r].base) ELSE payment[q]]
    BY <1>1, UploadWrites
  <2>2. CASE p \in Uploaded(r)
    <3>1. payment'[p] = NewPayment(r, b, p - loc[r].base)
      BY <2>1, <2>2
    <3> QED
      BY <1>1, <2>2, <3>1, UploadRows
  <2>3. CASE p \notin Uploaded(r)
    BY <2>1, <2>3
  <2> QED
    BY <2>2, <2>3
<1>2. ASSUME NEW r \in Request, EditCommit(r)
      PROVE  /\ payment'[p].status = payment[p].status /\ payment'[p].file = payment[p].file
             /\ p \notin Stored => payment'[p] = payment[p]
  BY <1>2, EditWrites, EditRows
<1>3. ASSUME NEW r \in Request, GenCommit(r) PROVE payment'[p] = payment[p] \/ payment'[p].status = "processing"
  <2>1. PICK f \in File, t \in [DOMAIN loc[r].snap -> 0..MaxTrace] :
           payment' = [q \in Payment |->
               IF q \in DOMAIN loc[r].snap THEN Paid(payment[q], f, t[q]) ELSE payment[q]]
    BY <1>3, GenWrites
  <2> QED
    BY <2>1, PaidRow DEF TypeInv, TypeOK
<1>4. ASSUME NEW r \in Request, ClearCommit(r)
      PROVE  \/ payment'[p].amount = None /\ payment'[p].file = None
             \/ /\ payment'[p].status = payment[p].status /\ payment'[p].amount = payment[p].amount
                /\ payment'[p].file \in {payment[p].file, None}
  BY <1>4, ClearRows DEF NullIf
<1>5. ASSUME NEW v \in Vendor, DeleteVendor(v)
      PROVE  /\ payment'[p].status = payment[p].status /\ payment'[p].file = payment[p].file
             /\ payment'[p].amount = payment[p].amount
  BY <1>5, DeleteVendorRows
<1> QED
  BY <1>1, <1>2, <1>3, <1>4, <1>5, OtherSteps DEF Unlinked, Stored

\* The fingerprints an upload looks up.
LEMMA UploadReadHolds ==
    ASSUME TypeInv, NEW r \in Request, NEW sheet \in Sheets,
           NEW manual \in BOOLEAN, NEW override \in BOOLEAN, UploadRead(r, sheet, manual, override)
    PROVE  UploadReads(r)'
<1> DEFINE fp(i) == Fingerprint(sheet[i].vendor, sheet[i].amount, sheet[i].inv)
           matched == Matched(sheet)
           parsed == IF manual THEN matched ELSE Parsed(sheet)
           duplicate == {i \in matched : \/ fp(i) \in StoredFingerprints
                                         \/ \E j \in matched : j < i /\ fp(j) = fp(i)}
           kept == IF override THEN parsed ELSE parsed \ duplicate
           marked == IF override THEN duplicate ELSE {}
<1>1. /\ loc' = [loc EXCEPT ![r] = [Blank EXCEPT !.base = issued, !.sheet = sheet,
                     !.matched = matched, !.kept = kept, !.marked = marked]]
      /\ payment' = payment
  BY DEF UploadRead
<1>2. matched \subseteq DOMAIN sheet /\ DOMAIN sheet \subseteq Nat
  BY ConstantsAssumption DEF Matched
<1>3. \A i \in (kept \cap matched) \ marked :
         /\ i \in matched /\ i \in Nat /\ fp(i) \notin StoredFingerprints
         /\ \A j \in matched : j < i => fp(j) # fp(i)
  BY <1>2
<1> HIDE DEF matched, kept, marked
<1>4. loc'[r].sheet = sheet /\ loc'[r].matched = matched /\ loc'[r].kept = kept /\ loc'[r].marked = marked
  BY <1>1 DEF TypeInv, LocOK, Blank
<1>5. /\ Passed(r)' = (kept \cap matched) \ marked
      /\ \A i : RowPrint(r, i)' = fp(i)
      /\ StoredFingerprints' = StoredFingerprints
  BY <1>1, <1>4 DEF Passed, RowPrint, StoredFingerprints, Stored
<1>6. ASSUME NEW i \in Passed(r)', NEW j \in Passed(r)', i # j PROVE fp(i) # fp(j)
  <2>1. i \in Nat /\ j \in Nat /\ i \in matched /\ j \in matched
    BY <1>3, <1>5
  <2>2. i < j \/ j < i
    BY <1>6, <2>1
  <2> QED
    BY <1>3, <1>5, <2>1, <2>2
<1> QED
  BY <1>3, <1>5, <1>6 DEF UploadReads

\* The row an edit reads and the one it makes of it.
LEMMA EditReadHolds ==
    ASSUME TypeInv, NEW r \in Request, NEW p \in Payment, NEW edit \in Edits, EditRead(r, p, edit)
    PROVE  EditReads(r)'
<1> DEFINE amount == Default(edit.amount, payment[p].amount)
           inv == Default(edit.inv, payment[p].inv)
           fp == IF payment[p].vendor = None THEN payment[p].fp
                 ELSE Fingerprint(payment[p].vendor, amount, inv)
           new == [payment[p] EXCEPT !.amount = amount, !.inv = inv, !.fp = fp,
                                     !.vetted = @ /\ fp = payment[p].fp]
<1>1. payment[p] \in PaymentRow /\ payment[p].status = "pending" /\ UNCHANGED payment
  BY DEF EditRead, Editable, TypeInv, TypeOK, db
<1>2. new.amount = amount /\ new.inv = inv /\ new.fp = fp
  BY <1>1 DEF PaymentRow
<1>3. loc' = [loc EXCEPT ![r] = [Blank EXCEPT !.pay = p, !.seen = payment[p], !.row = new]]
  BY DEF EditRead
<1> HIDE DEF new
<1>4. loc'[r].pay = p /\ loc'[r].seen = payment[p] /\ loc'[r].row = new
  BY <1>3 DEF TypeInv, LocOK, Blank
<1>5. payment[p].vendor # None => new.fp = Fingerprint(payment[p].vendor, new.amount, new.inv)
  BY <1>2
<1> QED
  BY <1>1, <1>4, <1>5 DEF EditReads

\* The commit of another request could undo what was read; that of a vendor's
\* deletion does not.
LEMMA DeleteVendorReads ==
    ASSUME TypeInv, Reads, NEW v \in Vendor, DeleteVendor(v)
    PROVE  Reads'
<1>1. UNCHANGED <<pc, loc, nfile>>
  BY DEF DeleteVendor
<1>0. ASSUME NEW p \in Payment
      PROVE  /\ payment'[p].status = payment[p].status /\ payment'[p].fp = payment[p].fp
             /\ payment'[p].amount = payment[p].amount /\ payment'[p].inv = payment[p].inv
             /\ payment'[p].vendor \in {payment[p].vendor, None}
  BY DeleteVendorRows DEF NullIf
<1>2. Stored' = Stored
  BY <1>0 DEF Stored
<1>3. StoredFingerprints' = StoredFingerprints
  BY <1>0, <1>2 DEF StoredFingerprints, Stored
<1> SUFFICES ASSUME NEW r \in Request
             PROVE  UploadReads(r)' /\ EditReads(r)' /\ GenReads(r)' /\ ClearReads(r)'
  BY DEF Reads
<1>4. RequestOK(pc[r], loc[r]) /\ UploadReads(r) /\ EditReads(r) /\ GenReads(r) /\ ClearReads(r)
  BY DEF Reads, TypeInv, LocOK
<1>5. UploadReads(r)'
  BY <1>1, <1>3, <1>4 DEF UploadReads, Passed, RowPrint
<1>6. EditReads(r)'
  BY <1>0, <1>1, <1>4 DEF EditReads, RequestOK, EditOK
<1>7. GenReads(r)'
  BY <1>0, <1>1, <1>4 DEF GenReads, RequestOK, GenOK
<1>8. ClearReads(r)'
  BY <1>1, <1>2, <1>4 DEF ClearReads
<1> QED
  BY <1>5, <1>6, <1>7, <1>8

\* A request that is neither uploading, editing, generating nor clearing relies on nothing.
LEMMA NothingRead ==
    ASSUME NEW r \in Request, pc'[r] \in {"idle", "clr_payments"}
    PROVE  UploadReads(r)' /\ EditReads(r)' /\ GenReads(r)' /\ ClearReads(r)'
BY DEF UploadReads, EditReads, GenReads, ClearReads, Editing, Generating

LEMMA StartReads ==
    ASSUME TypeInv, ClosedIffPaid, NEW r \in Request, Start(r)
    PROVE  UploadReads(r)' /\ EditReads(r)' /\ GenReads(r)' /\ ClearReads(r)'
<1>1. pc'[r] \in {"up_commit", "ed_siblings", "gen_vendors", "clr_payments"} /\ UNCHANGED payment
  BY StartMoves
<1>2. CASE pc'[r] = "up_commit"
  BY <1>2, StartMoves, UploadReadHolds DEF EditReads, GenReads, ClearReads, Editing, Generating
<1>3. CASE pc'[r] = "ed_siblings"
  BY <1>3, StartMoves, EditReadHolds DEF UploadReads, GenReads, ClearReads, Editing, Generating
<1>4. CASE pc'[r] = "gen_vendors"
  <2>1. PICK bids \in SUBSET Batch, start \in Starts : GenRead(r, bids, start)
    BY <1>4, StartMoves
  <2>2. \A b \in bids : Open(b)
    BY <2>1, GenReadSnap
  <2>3. \A p \in Stored : payment[p].batch \in bids => payment[p].status = "pending"
    BY <2>2, ConstantsAssumption DEF ClosedIffPaid, Open, Stored
  <2>4. GenReads(r)'
    BY ZenonT(30), <1>1, <2>1, <2>3, GenReadSnap DEF GenReads
  <2> QED
    BY <1>4, <2>4 DEF UploadReads, EditReads, ClearReads, Editing, Generating
<1> QED
  BY <1>1, <1>2, <1>3, <1>4, NothingRead

\* With one request at a time nothing but the deletion of a vendor comes between
\* what a request reads and what it writes.
LEMMA NextReads ==
    ASSUME OneRequest, TypeInv, ClosedIffPaid, Reads, [Next]_vars
    PROVE  Reads'
<1>1. ASSUME NEW r \in Request, Start(r) \/ Step(r) \/ Abort(r) PROVE Reads'
  <2> SUFFICES UploadReads(r)' /\ EditReads(r)' /\ GenReads(r)' /\ ClearReads(r)'
    BY OneRequest DEF OneRequest, Reads
  <2>0. EditReads(r) /\ GenReads(r) /\ ClearReads(r)
    BY DEF Reads
  <2>1. CASE Finish(r)
    BY <2>1, FinishMoves, NothingRead
  <2>2. CASE Start(r)
    BY <2>2, StartReads
  <2>3. CASE EditSiblings(r) \/ EditBatch(r)
    <3>1. UNCHANGED payment /\ pc'[r] \in Editing
      BY <2>3, EditMoves DEF db
    <3>2. EditReads(r)'
      BY <2>0, <2>3, <3>1, EditMoves DEF EditReads
    <3> QED
      BY <3>1, <3>2 DEF UploadReads, GenReads, ClearReads, Editing, Generating
  <2>4. CASE GenVendors(r) \/ GenAllocate(r) \/ GenExplicit(r)
    <3>1. UNCHANGED payment /\ pc[r] \in Generating /\ pc'[r] \in Generating \cup {"idle"}
      BY <2>4, GenMoves DEF db
    <3>2. GenReads(r)'
      BY <2>0, <2>4, <3>1, GenMoves DEF GenReads, Generating
    <3> QED
      BY <3>1, <3>2 DEF UploadReads, EditReads, ClearReads, Editing, Generating
  <2>5. CASE ClearPayments(r) \/ ClearFiles(r)
    <3>1. UNCHANGED <<payment, nfile>> /\ pc'[r] \in {"clr_files", "clr_commit"}
      BY <2>5, ClearMoves DEF db
    <3>2. ClearReads(r)'
      BY <2>0, <2>5, <3>1, ClearMoves DEF ClearReads, Stored
    <3> QED
      BY <3>1, <3>2 DEF UploadReads, EditReads, GenReads, Editing, Generating
  <2> QED
    BY <1>1, <2>1, <2>2, <2>3, <2>4, <2>5, CommitsFinish DEF Step
<1>2. CASE \E v \in Vendor : DeleteVendor(v)
  BY <1>2, DeleteVendorReads
<1>3. CASE UNCHANGED vars
  BY <1>3 DEF vars, Reads, UploadReads, EditReads, GenReads, ClearReads, Passed, RowPrint,
     StoredFingerprints, Stored
<1> QED
  BY <1>1, <1>2, <1>3 DEF Next

SerialInv == LinkInv /\ CloseInv /\ Unlinked /\ Reads

LEMMA SerialInvHolds ==
    ASSUME OneRequest
    PROVE  Spec => [](TypeInv /\ SerialInv)
<1>1. Init => Unlinked /\ Reads
  BY DEF Init, Unlinked, Reads, UploadReads, EditReads, GenReads, ClearReads, Editing, Generating,
     NoPayment
<1>2. TypeInv /\ Unlinked /\ [Next]_vars => Unlinked'
  BY NextUnlinked
<1>3. TypeInv /\ CloseInv /\ Reads /\ [Next]_vars => Reads'
  BY OneRequest, NextReads DEF CloseInv
<1> QED
  BY <1>1, <1>2, <1>3, InitType, NextType, LinkInvHolds, CloseInvHolds, PTL DEF Spec, SerialInv

-----------------------------------------------------------------------------
(* What the commits do to a row, when what they read still holds.           *)

\* An upload writes rows that were not there.
LEMMA SerialUpload ==
    ASSUME TypeInv, SerialInv, NEW r \in Request, UploadCommit(r), NEW p \in Payment
    PROVE  /\ p \notin Uploaded(r) => payment'[p] = payment[p]
           /\ p \in Uploaded(r) =>
                 /\ payment[p].status = "absent" /\ payment[p].file = None
                 /\ p - loc[r].base \in DOMAIN loc[r].sheet
                 /\ payment'[p].status = "pending" /\ payment'[p].file = None
                 /\ payment'[p].amount = loc[r].sheet[p - loc[r].base].amount
                 /\ payment'[p].fp = RowPrint(r, p - loc[r].base)
                 /\ payment'[p].fp =
                       Fingerprint(payment'[p].vendor, payment'[p].amount, payment'[p].inv)
                 /\ payment'[p].vetted /\ ~payment'[p].override => p - loc[r].base \in Passed(r)
<1>1. PICK b \in Batch : payment' = [q \in Payment |-> IF q \in Uploaded(r)
                             THEN NewPayment(r, b, q - loc[r].base) ELSE payment[q]]
  BY UploadWrites
<1>2. CASE p \notin Uploaded(r)
  BY <1>1, <1>2
<1>3. CASE p \in Uploaded(r)
  <2> DEFINE i == p - loc[r].base
  <2>1. payment'[p] = NewPayment(r, b, i)
    BY <1>1, <1>3
  <2>2. pc[r] = "up_commit"
    BY DEF UploadCommit
  <2>3. payment[p].status = "absent" /\ payment[p].file = None
    BY <1>3, <2>2, UploadedFresh DEF SerialInv, CloseInv, Unlinked
  <2>4. /\ i \in DOMAIN loc[r].sheet
        /\ payment'[p].status = "pending" /\ payment'[p].file = None
        /\ payment'[p].vendor = loc[r].sheet[i].vendor
        /\ payment'[p].amount = loc[r].sheet[i].amount /\ payment'[p].inv = loc[r].sheet[i].inv
        /\ payment'[p].fp = Fingerprint(payment'[p].vendor, payment'[p].amount, payment'[p].inv)
    BY <1>3, <2>1, UploadRows
  <2>5. payment'[p].fp = RowPrint(r, i)
    BY <2>4 DEF RowPrint
  <2>6. payment'[p].override = (i \in loc[r].marked) /\ payment'[p].vetted = (i \in loc[r].matched)
    BY <1>3, <2>1, UploadRows
  <2>7. i \in loc[r].kept
    BY <1>3 DEF Uploaded
  <2>8. payment'[p].vetted /\ ~payment'[p].override => i \in Passed(r)
    BY <2>6, <2>7 DEF Passed
  <2> QED
    BY <1>3, <2>3, <2>4, <2>5, <2>8
<1> QED
  BY <1>2, <1>3

\* An edit writes what it computed from the row it read.
LEMMA SerialEdit ==
    ASSUME TypeInv, SerialInv, NEW r \in Request, EditCommit(r), payment' # payment
    PROVE  LET p == loc[r].pay
               old == loc[r].seen
               new == loc[r].row
           IN  /\ p \in Payment /\ payment[p].status = "pending" /\ payment[p].file = None
               /\ payment[p].vendor \in {old.vendor, None}
               /\ old.vendor # None => new.fp = Fingerprint(old.vendor, new.amount, new.inv)
               /\ payment'[p].amount = new.amount /\ new.amount \in Amount
               /\ payment'[p].inv = new.inv /\ payment'[p].fp = new.fp
               /\ payment'[p].vetted => payment[p].vetted /\ new.fp = payment[p].fp
               /\ payment' = [payment EXCEPT ![p] = payment'[p]]
<1> DEFINE p == loc[r].pay
           old == loc[r].seen
           new == loc[r].row
           now == payment[p]
<1>1. EditOK(loc[r]) /\ EditReads(r) /\ pc[r] \in Editing
  BY DEF EditCommit, TypeInv, LocOK, RequestOK, Editing, SerialInv, Reads
<1>2. /\ p \in Payment /\ new.amount \in Amount
      /\ now.status = "pending" /\ now.vendor \in {old.vendor, None}
      /\ now.amount = old.amount /\ now.inv = old.inv /\ now.fp = old.fp
      /\ old.vendor # None => new.fp = Fingerprint(old.vendor, new.amount, new.inv)
  BY <1>1 DEF EditOK, EditReads
<1>3. now.file = None
  BY <1>2 DEF SerialInv, Unlinked
<1>4. payment' = [payment EXCEPT ![p] = Updated(now, new, old)]
  BY EditWrites
<1>5. payment'[p] = Updated(now, new, old) /\ now \in PaymentRow
  BY <1>2, <1>4 DEF TypeInv, TypeOK
<1> DEFINE a == Column(new.amount # old.amount, new.amount, now.amount)
           i == Column(new.inv # old.inv, new.inv, now.inv)
           fp == Column(new.fp # old.fp, new.fp, now.fp)
           vetted == Column(new.fp # old.fp, FALSE, now.vetted)
<1>6. payment'[p] = [now EXCEPT !.amount = a, !.inv = i, !.fp = fp, !.vetted = vetted]
  BY <1>5, Zenon DEF Updated
<1>7. a = new.amount /\ i = new.inv /\ fp = new.fp
  BY <1>2 DEF Column
<1>8. vetted => now.vetted /\ new.fp = now.fp
  BY <1>2, Zenon DEF Column
<1> HIDE DEF a, i, fp, vetted
<1>9. /\ payment'[p].amount = a /\ payment'[p].inv = i /\ payment'[p].fp = fp
      /\ payment'[p].vetted = vetted
  BY <1>5, <1>6 DEF PaymentRow
<1>10. payment' = [payment EXCEPT ![p] = payment'[p]]
  BY <1>4, <1>5
<1> QED
  BY <1>2, <1>3, <1>7, <1>8, <1>9, <1>10

\* A file is written from payments that are still as they were read.
LEMMA SerialGen ==
    ASSUME TypeInv, SerialInv, NEW r \in Request, GenCommit(r)
    PROVE  \E f \in File, t \in [DOMAIN loc[r].snap -> 0..MaxTrace] :
              LET snap == loc[r].snap
              IN  /\ DOMAIN snap \subseteq Payment
                  /\ nfile[f].entries = {}
                  /\ \A g \in File \ {f} : nfile'[g] = nfile[g]
                  /\ nfile'[f].entries = {[pay |-> p, amount |-> payment[p].amount,
                                           inv |-> payment[p].inv, trace |-> t[p]] : p \in DOMAIN snap}
                  /\ \A p \in DOMAIN snap :
                        /\ payment[p].status = "pending" /\ payment[p].file = None
                        /\ payment'[p].status = "processing"
                        /\ payment'[p].file = f /\ payment'[p].trace = t[p]
                  /\ \A p \in Payment :
                        /\ p \notin DOMAIN snap => payment'[p] = payment[p]
                        /\ payment'[p].amount = payment[p].amount
                        /\ payment'[p].inv = payment[p].inv /\ payment'[p].fp = payment[p].fp
                        /\ payment'[p].vendor = payment[p].vendor
                        /\ payment'[p].vetted = payment[p].vetted
                        /\ payment'[p].override = payment[p].override
                        /\ p \in Stored <=> p \in Stored'
<1> DEFINE snap == loc[r].snap
<1>1. PICK f \in File, t \in [DOMAIN snap -> 0..MaxTrace] :
          /\ nfile[f].status = "absent"
          /\ nfile'[f].entries = {[pay |-> p, amount |-> snap[p].amount,
                                   inv |-> snap[p].inv, trace |-> t[p]] : p \in DOMAIN snap}
          /\ \A g \in File \ {f} : nfile'[g] = nfile[g]
          /\ payment' = [p \in Payment |->
                IF p \in DOMAIN snap THEN Paid(payment[p], f, t[p]) ELSE payment[p]]
  BY GenWrites
<1>2. pc[r] \in Generating
  BY DEF GenCommit, Generating
<1>3. DOMAIN snap \subseteq Payment
  BY <1>2 DEF TypeInv, LocOK, RequestOK, GenOK
<1>4. \A p \in DOMAIN snap : /\ payment[p].status = "pending" /\ payment[p].file = None
                             /\ payment[p].amount = snap[p].amount /\ payment[p].inv = snap[p].inv
  BY <1>2, <1>3 DEF SerialInv, Reads, GenReads, Unlinked
<1>5. nfile[f].entries = {}
  BY <1>1 DEF SerialInv, LinkInv, FilesStartEmpty
<1> HIDE DEF snap
<1>6. {[pay |-> p, amount |-> snap[p].amount, inv |-> snap[p].inv, trace |-> t[p]] : p \in DOMAIN snap}
         = {[pay |-> p, amount |-> payment[p].amount, inv |-> payment[p].inv, trace |-> t[p]] :
                p \in DOMAIN snap}
  BY <1>4
<1>7. ASSUME NEW p \in DOMAIN snap
      PROVE  /\ payment'[p].status = "processing" /\ payment'[p].file = f
             /\ payment'[p].trace = t[p]
  BY <1>1, <1>3, PaidRow DEF TypeInv, TypeOK
<1>8. ASSUME NEW p \in Payment
      PROVE  /\ p \notin DOMAIN snap => payment'[p] = payment[p]
             /\ payment'[p].amount = payment[p].amount
             /\ payment'[p].inv = payment[p].inv /\ payment'[p].fp = payment[p].fp
             /\ payment'[p].vendor = payment[p].vendor
             /\ payment'[p].vetted = payment[p].vetted
             /\ payment'[p].override = payment[p].override
  BY <1>1, <1>3, PaidRow DEF TypeInv, TypeOK
<1>9. \A p \in Payment : p \in Stored <=> p \in Stored'
  BY <1>4, <1>7, <1>8 DEF Stored
<1>10. /\ nfile'[f].entries = {[pay |-> p, amount |-> payment[p].amount,
                                  inv |-> payment[p].inv, trace |-> t[p]] : p \in DOMAIN snap}
       /\ \A g \in File \ {f} : nfile'[g] = nfile[g]
  BY <1>1, <1>6
<1> USE DEF snap
<1> WITNESS f \in File, t \in [DOMAIN snap -> 0..MaxTrace]
<1> QED
  BY <1>3, <1>4, <1>5, <1>7, <1>8, <1>9, <1>10

\* clear-all leaves no payment and no file.
LEMMA SerialClear ==
    ASSUME TypeInv, SerialInv, NEW r \in Request, ClearCommit(r)
    PROVE  /\ \A p \in Payment :
                 /\ payment[p].status = "absent" => payment'[p].status = "absent"
                 /\ payment[p].status # "absent" => payment'[p].status = "deleted"
                 /\ payment'[p].amount = None
           /\ Stored' = {}
           /\ \A f \in File : /\ nfile'[f].status # "generated"
                              /\ nfile'[f].entries = nfile[f].entries
<1>1. loc[r].doomP = Stored /\ loc[r].doomF = {f \in File : nfile[f].status = "generated"}
  BY DEF ClearCommit, SerialInv, Reads, ClearReads
<1>2. ASSUME NEW p \in Payment
      PROVE  /\ payment[p].status = "absent" => payment'[p].status = "absent"
             /\ payment[p].status # "absent" => payment'[p].status = "deleted"
             /\ payment'[p].amount = None
  <2>1. payment[p].status \in {"absent", "pending", "processing", "deleted"}
    BY DEF TypeInv, TypeOK, PaymentRow
  <2>2. CASE p \in Stored
    <3>1. payment'[p].status = "deleted" /\ payment'[p].amount = None
      BY <1>1, <2>2, ClearRows
    <3> QED
      BY <2>2, <3>1 DEF Stored
  <2>3. CASE p \notin Stored
    <3>1. payment'[p].status = payment[p].status /\ payment'[p].amount = payment[p].amount
      BY <1>1, <2>3, ClearRows
    <3>2. payment[p].status \in {"absent", "deleted"}
      BY <2>1, <2>3 DEF Stored
    <3>3. payment[p].amount = None
      BY <2>3 DEF SerialInv, Unlinked
    <3> QED
      BY <3>1, <3>2, <3>3
  <2> QED
    BY <2>2, <2>3
<1>3. Stored' = {}
  BY <1>2 DEF Stored
<1>4. \A f \in File : nfile'[f].status # "generated" /\ nfile'[f].entries = nfile[f].entries
  BY <1>1, ClearFilesKept
<1> QED
  BY <1>2, <1>3, <1>4

-----------------------------------------------------------------------------
(* What the ledger, the files and the detector say.                         *)

\* The steps that write no row but its vendor_id, and no file.
LEMMA OtherRows ==
    ASSUME TypeInv, [Next]_vars,
           \A r \in Request : ~UploadCommit(r) /\ ~EditCommit(r) /\ ~GenCommit(r) /\ ~ClearCommit(r)
    PROVE  /\ nfile' = nfile /\ Stored' = Stored
           /\ \A p \in Payment :
                 /\ payment'[p].status = payment[p].status /\ payment'[p].amount = payment[p].amount
                 /\ payment'[p].inv = payment[p].inv /\ payment'[p].fp = payment[p].fp
                 /\ payment'[p].file = payment[p].file /\ payment'[p].trace = payment[p].trace
                 /\ payment'[p].vetted = payment[p].vetted
                 /\ payment'[p].override = payment[p].override
                 /\ payment'[p].vendor \in {payment[p].vendor, None}
<1>1. CASE \E v \in Vendor : DeleteVendor(v)
  <2>1. PICK v \in Vendor : DeleteVendor(v)
    BY <1>1
  <2>2. nfile' = nfile
    BY <2>1 DEF DeleteVendor
  <2> QED
    BY <2>1, <2>2, DeleteVendorRows DEF Stored, NullIf
<1>2. CASE ~\E v \in Vendor : DeleteVendor(v)
  <2>1. UNCHANGED <<payment, nfile>>
    BY <1>2, OtherSteps
  <2> QED
    BY <2>1 DEF Stored
<1> QED
  BY <1>1, <1>2

LEMMA NextAgrees ==
    ASSUME TypeInv, SerialInv, LedgerAgreesWithFiles, [Next]_vars
    PROVE  LedgerAgreesWithFiles'
<1> SUFFICES ASSUME NEW g \in File, nfile'[g].status = "generated", NEW e \in nfile'[g].entries
             PROVE  LET p == payment'[e.pay]
                    IN  p.file = g /\ p.amount = e.amount /\ p.inv = e.inv /\ p.trace = e.trace
  BY DEF LedgerAgreesWithFiles
<1> DEFINE Agree(p) == p.file = g /\ p.amount = e.amount /\ p.inv = e.inv /\ p.trace = e.trace
<1>1. ASSUME nfile'[g] = nfile[g]
      PROVE  e.pay \in Payment /\ Agree(payment[e.pay]) /\ payment[e.pay].file # None
  <2>1. e.pay \in Payment
    BY <1>1 DEF TypeInv, TypeOK, Entry
  <2>2. g # None
    BY ConstantsAssumption
  <2> QED
    BY <1>1, <2>1, <2>2 DEF LedgerAgreesWithFiles
<1>2. ASSUME NEW r \in Request, UploadCommit(r) PROVE Agree(payment'[e.pay])
  <2>1. nfile' = nfile
    BY <1>2 DEF UploadCommit
  <2> QED
    BY <1>1, <1>2, <2>1, SerialUpload
<1>3. ASSUME NEW r \in Request, EditCommit(r) PROVE Agree(payment'[e.pay])
  <2>1. nfile' = nfile
    BY <1>3, EditWrites
  <2>2. CASE payment' = payment
    BY <1>1, <2>1, <2>2
  <2>3. CASE payment' # payment
    <3>1. payment[loc[r].pay].file = None
      BY <1>3, <2>3, SerialEdit
    <3>2. e.pay # loc[r].pay
      BY <1>1, <2>1, <3>1
    <3> QED
      BY <1>1, <1>3, <2>1, <3>2, EditRows
  <2> QED
    BY <2>2, <2>3
<1>4. ASSUME NEW r \in Request, GenCommit(r) PROVE Agree(payment'[e.pay])
  <2> DEFINE paid == DOMAIN loc[r].snap
  <2>1. PICK f \in File, t \in [paid -> 0..MaxTrace] :
            /\ paid \subseteq Payment
            /\ \A h \in File \ {f} : nfile'[h] = nfile[h]
            /\ nfile'[f].entries = {[pay |-> p, amount |-> payment[p].amount,
                                     inv |-> payment[p].inv, trace |-> t[p]] : p \in paid}
            /\ \A p \in paid : /\ payment[p].file = None
                               /\ payment'[p].file = f /\ payment'[p].trace = t[p]
            /\ \A p \in Payment : /\ p \notin paid => payment'[p] = payment[p]
                                  /\ payment'[p].amount = payment[p].amount
                                  /\ payment'[p].inv = payment[p].inv
    BY <1>4, SerialGen
  <2> HIDE DEF paid
  <2>2. CASE g = f
    <3>1. PICK p \in paid : e = [pay |-> p, amount |-> payment[p].amount,
                                 inv |-> payment[p].inv, trace |-> t[p]]
      BY <2>1, <2>2
    <3>2. /\ e.pay = p /\ e.amount = payment[p].amount /\ e.inv = payment[p].inv /\ e.trace = t[p]
          /\ p \in Payment
      BY <2>1, <3>1
    <3> QED
      BY <2>1, <2>2, <3>2
  <2>3. CASE g # f
    BY <1>1, <2>1, <2>3
  <2> QED
    BY <2>2, <2>3
<1>5. \A r \in Request : ~ClearCommit(r)
  BY SerialClear
<1>6. CASE \A r \in Request : ~UploadCommit(r) /\ ~EditCommit(r) /\ ~GenCommit(r) /\ ~ClearCommit(r)
  BY <1>1, <1>6, OtherRows
<1> QED
  BY <1>2, <1>3, <1>4, <1>5, <1>6

\* What the ledger says of a payment in a file is what the file says of it: with
\* one request at a time, no edit and no clear-all slips between what
\* combine_batches_and_generate_nacha reads and what it writes.
THEOREM LedgerAgreesWithFilesHolds ==
    ASSUME OneRequest
    PROVE  Spec => []LedgerAgreesWithFiles
<1>1. Init => LedgerAgreesWithFiles
  BY DEF Init, LedgerAgreesWithFiles, NoFile
<1>2. TypeInv /\ SerialInv /\ LedgerAgreesWithFiles /\ [Next]_vars => LedgerAgreesWithFiles'
  BY NextAgrees
<1> QED
  BY <1>1, <1>2, OneRequest, SerialInvHolds, PTL DEF Spec

LEMMA NextFingerprints ==
    ASSUME TypeInv, SerialInv, FingerprintFollows, [Next]_vars
    PROVE  FingerprintFollows'
<1> DEFINE Follows(p) == p.vendor # None => p.fp = Fingerprint(p.vendor, p.amount, p.inv)
<1> SUFFICES ASSUME NEW p \in Stored' PROVE Follows(payment'[p])
  BY DEF FingerprintFollows
<1>0. p \in Payment /\ (p \in Stored => Follows(payment[p]))
  BY DEF Stored, FingerprintFollows
<1>1. ASSUME NEW r \in Request, UploadCommit(r) PROVE Follows(payment'[p])
  BY <1>0, <1>1, SerialUpload DEF Stored
<1>2. ASSUME NEW r \in Request, EditCommit(r) PROVE Follows(payment'[p])
  <2>1. payment'[p].vendor = payment[p].vendor /\ p \in Stored
    BY <1>0, <1>2, EditRows DEF Stored
  <2>2. CASE payment'[p] = payment[p]
    BY <1>0, <2>1, <2>2
  <2>3. CASE payment'[p] # payment[p]
    <3>1. p = loc[r].pay /\ payment' # payment
      BY <1>0, <1>2, <2>3, EditRows
    <3> QED
      BY <1>2, <2>1, <3>1, SerialEdit
  <2> QED
    BY <2>2, <2>3
<1>3. ASSUME NEW r \in Request, GenCommit(r) PROVE Follows(payment'[p])
  BY <1>0, <1>3, SerialGen
<1>4. \A r \in Request : ~ClearCommit(r)
  BY SerialClear
<1>5. CASE \A r \in Request : ~UploadCommit(r) /\ ~EditCommit(r) /\ ~GenCommit(r) /\ ~ClearCommit(r)
  BY <1>0, <1>5, OtherRows
<1> QED
  BY <1>1, <1>2, <1>3, <1>4, <1>5

\* The fingerprint stored with a payment is that of its vendor, amount and
\* invoice, whatever edits were made (update_payment_item recomputes it).
THEOREM FingerprintFollowsHolds ==
    ASSUME OneRequest
    PROVE  Spec => []FingerprintFollows
<1>1. Init => FingerprintFollows
  BY DEF Init, FingerprintFollows, Stored, NoPayment
<1>2. TypeInv /\ SerialInv /\ FingerprintFollows /\ [Next]_vars => FingerprintFollows'
  BY NextFingerprints
<1> QED
  BY <1>1, <1>2, OneRequest, SerialInvHolds, PTL DEF Spec

LEMMA NextVetted ==
    ASSUME TypeInv, SerialInv, VettedAreUnique, [Next]_vars
    PROVE  VettedAreUnique'
<1> DEFINE Looked(x) == x.vetted /\ ~x.override
           Kept(p) == /\ p \in Stored /\ payment'[p].fp = payment[p].fp
                      /\ Looked(payment'[p]) => Looked(payment[p])
<1>0. ASSUME \A p \in Stored' : Kept(p) \/ ~Looked(payment'[p]) PROVE VettedAreUnique'
  BY <1>0, Zenon DEF VettedAreUnique
<1>1. ASSUME NEW r \in Request, UploadCommit(r) PROVE VettedAreUnique'
  <2> SUFFICES ASSUME NEW p \in Stored', NEW q \in Stored', p # q,
                      Looked(payment'[p]), Looked(payment'[q])
               PROVE  payment'[p].fp # payment'[q].fp
    BY Zenon DEF VettedAreUnique
  <2>1. p \in Payment /\ q \in Payment /\ loc[r].base \in Int
    BY <1>1 DEF Stored, TypeInv, LocOK, RequestOK, UploadOK, UploadCommit
  <2>2. UploadReads(r) /\ pc[r] = "up_commit"
    BY <1>1 DEF SerialInv, Reads, UploadCommit
  <2>3. ASSUME NEW x \in Stored', Looked(payment'[x])
        PROVE  IF x \in Uploaded(r)
               THEN x - loc[r].base \in Passed(r) /\ payment'[x].fp = RowPrint(r, x - loc[r].base)
               ELSE x \in Stored /\ payment'[x] = payment[x] /\ payment[x].fp \in StoredFingerprints
    <3>1. x \in Payment
      BY DEF Stored
    <3>2. CASE x \in Uploaded(r)
      <4>1. payment'[x].vetted /\ ~payment'[x].override
        BY <2>3, Zenon
      <4> QED
        BY <1>1, <3>1, <3>2, <4>1, SerialUpload
    <3>3. CASE x \notin Uploaded(r)
      BY <1>1, <3>1, <3>3, SerialUpload DEF Stored, StoredFingerprints
    <3> QED
      BY <3>2, <3>3
  <2>4. CASE p \in Uploaded(r) /\ q \in Uploaded(r)
    <3>1. p - loc[r].base # q - loc[r].base
      BY <2>1, ConstantsAssumption DEF Payment
    <3> QED
      BY <2>2, <2>3, <2>4, <3>1 DEF UploadReads
  <2>5. CASE p \in Uploaded(r) /\ q \notin Uploaded(r)
    BY <2>2, <2>3, <2>5 DEF UploadReads
  <2>6. CASE p \notin Uploaded(r) /\ q \in Uploaded(r)
    BY <2>2, <2>3, <2>6 DEF UploadReads
  <2>7. CASE p \notin Uploaded(r) /\ q \notin Uploaded(r)
    <3>1. /\ p \in Stored /\ payment'[p] = payment[p]
          /\ q \in Stored /\ payment'[q] = payment[q]
      BY <2>3, <2>7
    <3> QED
      BY <3>1, Zenon DEF VettedAreUnique
  <2> QED
    BY <2>4, <2>5, <2>6, <2>7
<1>2. ASSUME NEW r \in Request, EditCommit(r) PROVE VettedAreUnique'
  <2> SUFFICES ASSUME NEW p \in Stored' PROVE Kept(p) \/ ~Looked(payment'[p])
    BY <1>0
  <2>1. p \in Payment /\ payment'[p].override = payment[p].override /\ p \in Stored
    BY <1>2, EditRows DEF Stored
  <2>2. CASE payment'[p] = payment[p]
    BY <2>1, <2>2
  <2>3. CASE payment'[p] # payment[p]
    <3>1. p = loc[r].pay /\ payment' # payment
      BY <1>2, <2>1, <2>3, EditRows
    <3>2. payment'[p].vetted => payment[p].vetted /\ payment'[p].fp = payment[p].fp
      BY <1>2, <3>1, SerialEdit
    <3> QED
      BY <2>1, <3>2, Zenon
  <2> QED
    BY <2>2, <2>3
<1>3. ASSUME NEW r \in Request, GenCommit(r) PROVE VettedAreUnique'
  <2>1. \A p \in Payment : /\ payment'[p].fp = payment[p].fp
                           /\ payment'[p].vetted = payment[p].vetted
                           /\ payment'[p].override = payment[p].override
                           /\ p \in Stored <=> p \in Stored'
    BY <1>3, SerialGen
  <2>2. Stored' \subseteq Payment
    BY DEF Stored
  <2> QED
    BY <1>0, <2>1, <2>2
<1>4. ASSUME NEW r \in Request, ClearCommit(r) PROVE VettedAreUnique'
  BY <1>4, <1>0, SerialClear
<1>5. CASE \A r \in Request : ~UploadCommit(r) /\ ~EditCommit(r) /\ ~GenCommit(r) /\ ~ClearCommit(r)
  <2>1. Stored \subseteq Payment
    BY DEF Stored
  <2> QED
    BY <1>0, <1>5, <2>1, OtherRows
<1> QED
  BY <1>1, <1>2, <1>3, <1>4, <1>5

\* No two payments that the detector looked up and let pass as new are the same
\* payment (detect_payment_duplicates): with one upload at a time, what it
\* looked up is still all there is when the rows are written.
THEOREM VettedAreUniqueHolds ==
    ASSUME OneRequest
    PROVE  Spec => []VettedAreUnique
<1>1. Init => VettedAreUnique
  BY DEF Init, VettedAreUnique, Stored, NoPayment
<1>2. TypeInv /\ SerialInv /\ VettedAreUnique /\ [Next]_vars => VettedAreUnique'
  BY NextVetted
<1> QED
  BY <1>1, <1>2, OneRequest, SerialInvHolds, PTL DEF Spec

-----------------------------------------------------------------------------
(* What batches and files add up to: TotalsAgree and FilesReconcile.        *)

\* What the columns total_amount and valid_rows_count hold.
TallyType == tally \in [Batch -> [total : Int, valid : Nat]]

\* The sum and the number an edit computes, and the row of the batch it writes
\* them to; the batches of the payments of a file.
SumReads(r) ==
    LET l == loc[r]
        b == loc[r].seen.batch
    IN  /\ pc[r] \in Editing => payment[l.pay].batch = b
        /\ pc[r] \in {"ed_batch", "ed_commit"} =>
              l.sum = [total |-> SumFunction([q \in InBatch(b) |-> Counted(l, q)]),
                       valid |-> Cardinality(InBatch(b))]
        /\ pc[r] = "ed_commit" => l.bseen = IF b \in Batch /\ Exists(b) THEN tally[b] ELSE None
        /\ pc[r] \in Generating => {payment[p].batch : p \in DOMAIN l.snap} = l.bids

\* Amounts can be added up.
LEMMA AmountsAdd ==
    ASSUME TypeInv, NEW S \in SUBSET Stored
    PROVE  /\ IsFiniteSet(S) /\ Cardinality(S) \in Nat
           /\ [p \in S |-> payment[p].amount] \in [S -> Int]
<1>1. S \in SUBSET Payment
  BY DEF Stored
<1>2. \A p \in S : payment[p].amount \in Int
  BY ConstantsAssumption DEF TypeInv, TypeOK
<1> QED
  BY <1>1, <1>2, SnapSize

\* The new rows of an upload add up to what it writes as total and number.
LEMMA UploadTally ==
    ASSUME TypeInv, SerialInv, TallyType, NEW r \in Request, UploadCommit(r)
    PROVE  \E b \in Batch :
              /\ batch[b] = "absent"
              /\ \A c \in Batch \ {b} : batch'[c] = batch[c] /\ tally'[c] = tally[c] /\ InBatch(c)' = InBatch(c)
              /\ InBatch(b)' = Uploaded(r) /\ Uploaded(r) \cap Stored = {}
              /\ tally'[b].total = SumFunction([p \in Uploaded(r) |-> payment'[p].amount])
              /\ tally'[b].valid = Cardinality(Uploaded(r))
              /\ \A p \in Payment \ Uploaded(r) : payment'[p] = payment[p]
              /\ TallyType'
<1> DEFINE kept == loc[r].kept
           rows == loc[r].sheet
           base == loc[r].base
<1>1. PICK b \in Batch :
          /\ batch[b] = "absent"
          /\ batch' = [batch EXCEPT ![b] = BatchStatusOf(kept, rows)]
          /\ tally' = [tally EXCEPT ![b] = TallyOf(rows, kept)]
          /\ payment' = [p \in Payment |->
                IF p - base \in kept THEN NewPayment(r, b, p - base) ELSE payment[p]]
  BY Zenon DEF UploadCommit
<1>2. /\ tally'[b].total = SumFunction([i \in kept |-> rows[i].amount])
      /\ tally'[b].valid = Cardinality(kept)
      /\ \A c \in Batch \ {b} : batch'[c] = batch[c] /\ tally'[c] = tally[c]
      /\ tally' = [tally EXCEPT ![b] = tally'[b]]
      /\ tally'[b] = [total |-> tally'[b].total, valid |-> tally'[b].valid]
  <2> DEFINE t == SumFunction([i \in kept |-> rows[i].amount])
             n == Cardinality(kept)
  <2>1. tally' = [tally EXCEPT ![b] = [total |-> t, valid |-> n]]
    BY <1>1 DEF TallyOf
  <2> HIDE DEF t, n
  <2>2. tally'[b].total = t /\ tally'[b].valid = n
    BY <2>1 DEF TypeInv, TypeOK
  <2>3. \A c \in Batch \ {b} : batch'[c] = batch[c] /\ tally'[c] = tally[c]
    BY <1>1, <2>1 DEF TypeInv, TypeOK
  <2> QED
    BY <2>1, <2>2, <2>3 DEF t, n, TallyType
<1>3. UploadOK(loc[r]) /\ pc[r] = "up_commit" /\ Fresh /\ ReferencesLive
  BY DEF UploadCommit, TypeInv, LocOK, RequestOK, SerialInv, CloseInv
<1>4. /\ kept \subseteq 1..Len(rows) /\ base \in Nat /\ Len(rows) \in Nat
      /\ \A i \in kept : rows[i].amount \in Int
  <2>1. rows \in Seq(Row) /\ kept \subseteq DOMAIN rows /\ base \in Nat
    BY <1>3 DEF UploadOK
  <2>2. \A i \in DOMAIN rows : rows[i] \in Row
    BY <2>1
  <2>3. DOMAIN rows = 1..Len(rows) /\ Len(rows) \in Nat
    BY <2>1
  <2>4. \A i \in DOMAIN rows : rows[i].amount \in Int
    BY <2>2, ConstantsAssumption DEF Row
  <2> HIDE DEF rows, kept
  <2> QED
    BY <2>1, <2>3, <2>4
<1>5. \A i \in kept : base + i \in Payment
  <2>1. Rows(r) \subseteq 1..issued /\ issued \in 0..MaxPayment
    BY <1>3 DEF Fresh, TypeInv, TypeOK
  <2> SUFFICES ASSUME NEW i \in kept PROVE base + i \in Payment
    OBVIOUS
  <2>2. base + i \in Rows(r)
    BY <1>4 DEF Rows
  <2> QED
    BY <2>1, <2>2, ConstantsAssumption DEF Payment
<1>6. ASSUME NEW p \in Payment
      PROVE  /\ p \in Uploaded(r) => /\ p - base \in kept /\ p \notin Stored
                                     /\ payment'[p].status = "pending" /\ payment'[p].batch = b
                                     /\ payment'[p].amount = rows[p - base].amount
             /\ p \notin Uploaded(r) => payment'[p] = payment[p] /\ (p \in Stored => payment[p].batch # b)
  <2>1. CASE p \in Uploaded(r)
    <3>1. payment'[p] = NewPayment(r, b, p - base)
      BY <1>1, <2>1 DEF Uploaded
    <3>2. payment'[p].status = "pending" /\ payment'[p].batch = b /\ payment'[p].amount = rows[p - base].amount
      BY <2>1, <3>1, UploadRows
    <3> QED
      BY <1>3, <2>1, <3>2, UploadedFresh DEF Uploaded, Stored
  <2>2. CASE p \notin Uploaded(r)
    <3>1. payment'[p] = payment[p]
      BY <1>1, <2>2 DEF Uploaded
    <3>2. p \in Stored /\ payment[p].batch = b => Exists(b)
      BY <1>3, ConstantsAssumption DEF ReferencesLive
    <3>3. ~Exists(b)
      BY <1>1 DEF Exists, Open
    <3> QED
      BY <2>2, <3>1, <3>2, <3>3
  <2> QED
    BY <2>1, <2>2
<1>7. /\ InBatch(b)' = Uploaded(r) /\ Uploaded(r) \cap Stored = {}
      /\ \A c \in Batch \ {b} : InBatch(c)' = InBatch(c)
  BY <1>6 DEF InBatch, Stored, Uploaded
<1> DEFINE at == [i \in kept |-> base + i]
           f == [p \in Uploaded(r) |-> payment'[p].amount]
<1>8. at \in Bijection(kept, Uploaded(r))
  <2>1. \A i \in kept : i \in Int /\ base + i \in Uploaded(r)
    BY <1>4, <1>5 DEF Uploaded
  <2>2. \A p \in Uploaded(r) : p - base \in kept /\ p = base + (p - base)
    BY <1>4 DEF Uploaded, Payment
  <2> QED
    BY <1>4, <2>1, <2>2 DEF Bijection, Injection, Surjection, IsInjective
<1>9. IsFiniteSet(Uploaded(r)) /\ f \in [Uploaded(r) -> Int]
  BY <1>4, <1>6, SnapSize DEF Uploaded
<1>10. [i \in kept |-> f[at[i]]] = [i \in kept |-> rows[i].amount]
  <2> SUFFICES ASSUME NEW i \in kept PROVE f[at[i]] = rows[i].amount
    OBVIOUS
  <2>1. base + i \in Uploaded(r) /\ (base + i) - base = i
    BY <1>4, <1>5 DEF Uploaded
  <2> QED
    BY <1>6, <2>1 DEF Uploaded
<1> HIDE DEF at, f
<1>11. SumFunction([i \in kept |-> f[at[i]]]) = SumFunction(f)
  BY <1>8, <1>9, SumReindex
<1>12. Cardinality(kept) = Cardinality(Uploaded(r))
  <2>0. IsFiniteSet(1..Len(rows))
    <3>1. Len(rows) \in Int
      BY <1>4
    <3> HIDE DEF rows
    <3> QED
      BY <3>1, FS_Interval
  <2>1. IsFiniteSet(kept)
    BY <1>4, <2>0, FS_Subset
  <2> QED
    BY <1>8, <2>1, FS_Bijection DEF ExistsBijection
<1>13. /\ tally'[b].total = SumFunction([p \in Uploaded(r) |-> payment'[p].amount])
       /\ tally'[b].valid = Cardinality(Uploaded(r))
  BY <1>2, <1>10, <1>11, <1>12 DEF f
<1> HIDE DEF kept, rows, base
<1>14. TallyType'
  <2>1. tally'[b].total \in Int /\ tally'[b].valid \in Nat
    BY <1>9, <1>13, SumType, SnapSize DEF f, Uploaded
  <2>2. tally'[b] \in [total : Int, valid : Nat]
    BY <1>2, <2>1
  <2> QED
    BY <1>2, <2>2 DEF TallyType
<1> QED
  BY <1>1, <1>2, <1>6, <1>7, <1>13, <1>14

\* What an edit writes to its batch is the sum and number of the payments with
\* the row it writes, whichever of the columns it finds unchanged and leaves.
LEMMA EditTally ==
    ASSUME TypeInv, SerialInv, TallyType, NEW r \in Request, SumReads(r), EditCommit(r)
    PROVE  /\ batch' = batch /\ nfile' = nfile
           /\ \/ UNCHANGED <<payment, tally>>
              \/ /\ loc[r].pay \in Payment /\ payment[loc[r].pay].status = "pending"
                 /\ payment[loc[r].pay].batch = loc[r].seen.batch
                 /\ \A q \in Payment : /\ payment'[q].status = payment[q].status
                                       /\ payment'[q].batch = payment[q].batch
                                       /\ q # loc[r].pay => payment'[q] = payment[q]
                 /\ TallyType'
                 /\ \A c \in Batch \ {loc[r].seen.batch} : tally'[c] = tally[c]
                 /\ loc[r].seen.batch \in Batch =>
                       LET b == loc[r].seen.batch
                       IN  /\ tally'[b].total = SumFunction([q \in InBatch(b) |-> payment'[q].amount])
                           /\ tally'[b].valid = Cardinality(InBatch(b))
<1> DEFINE p == loc[r].pay
           old == loc[r].seen
           new == loc[r].row
           now == payment[p]
           b == old.batch
           sum == loc[r].sum
           bseen == loc[r].bseen
           batchDirty == bseen # None /\ sum # bseen
           total == Column(sum.total # bseen.total, sum.total, tally[b].total)
           valid == Column(sum.valid # bseen.valid, sum.valid, tally[b].valid)
<1>1. /\ pc[r] = "ed_commit" /\ batch' = batch /\ nfile' = nfile
      /\ \/ UNCHANGED <<payment, tally>>
         \/ /\ payment' = IF new = old THEN payment ELSE [payment EXCEPT ![p] = Updated(now, new, old)]
            /\ tally' = IF ~batchDirty THEN tally
                        ELSE [tally EXCEPT ![b].total = total, ![b].valid = valid]
  BY DEF EditCommit, Fail, db
<1>2. EditOK(loc[r]) /\ EditReads(r) /\ ReferencesLive
  BY <1>1 DEF TypeInv, LocOK, RequestOK, Editing, SerialInv, Reads, CloseInv
<1>3. /\ p \in Payment /\ now.status = "pending" /\ now.amount = old.amount
      /\ new.amount \in Amount /\ now \in PaymentRow /\ p \in Stored
  BY <1>1, <1>2 DEF EditOK, EditReads, Editing, TypeInv, TypeOK, Stored
<1>4. now.batch = b /\ b \in Batch \cup {None} /\ (b # None => Exists(b))
  BY <1>1, <1>2, <1>3 DEF SumReads, Editing, PaymentRow, ReferencesLive
<1>5. /\ sum = [total |-> SumFunction([q \in InBatch(b) |-> Counted(loc[r], q)]),
                valid |-> Cardinality(InBatch(b))]
      /\ bseen = IF b \in Batch /\ Exists(b) THEN tally[b] ELSE None
  BY <1>1 DEF SumReads
<1>6. CASE UNCHANGED <<payment, tally>>
  BY <1>1, <1>6
<1>7. CASE /\ payment' = IF new = old THEN payment ELSE [payment EXCEPT ![p] = Updated(now, new, old)]
           /\ tally' = IF ~batchDirty THEN tally
                       ELSE [tally EXCEPT ![b].total = total, ![b].valid = valid]
  <2>1. payment'[p].amount = new.amount
    <3>1. CASE new = old
      BY <1>3, <1>7, <3>1
    <3>2. CASE new # old
      <4> DEFINE a == Column(new.amount # old.amount, new.amount, now.amount)
                 i == Column(new.inv # old.inv, new.inv, now.inv)
                 fp == Column(new.fp # old.fp, new.fp, now.fp)
                 vetted == Column(new.fp # old.fp, FALSE, now.vetted)
      <4>1. payment'[p] = Updated(now, new, old)
        BY <1>3, <1>7, <3>2 DEF TypeInv, TypeOK
      <4>2. payment'[p] = [now EXCEPT !.amount = a, !.inv = i, !.fp = fp, !.vetted = vetted]
        BY <4>1, Zenon DEF Updated
      <4>3. a = new.amount
        BY <1>3 DEF Column
      <4> HIDE DEF a, i, fp, vetted
      <4> QED
        BY <1>3, <4>2, <4>3 DEF PaymentRow
    <3> QED
      BY <3>1, <3>2
  <2>2. /\ \A q \in Payment \ {p} : payment'[q] = payment[q]
        /\ \A q \in Payment : payment'[q].status = payment[q].status /\ payment'[q].batch = payment[q].batch
    BY EditRows
  <2> DEFINE T == SumFunction([q \in InBatch(b) |-> payment'[q].amount])
             N == Cardinality(InBatch(b))
  <2>3. sum.total = T /\ sum.valid = N
    <3>1. [q \in InBatch(b) |-> Counted(loc[r], q)] = [q \in InBatch(b) |-> payment'[q].amount]
      BY <2>1, <2>2 DEF Counted, InBatch, Stored
    <3> QED
      BY <1>5, <3>1
  <2>4. T \in Int /\ N \in Nat
    <3>1. InBatch(b) \in SUBSET Stored
      BY DEF InBatch
    <3>2. \A q \in InBatch(b) : payment'[q].amount \in Int
      BY <1>3, <2>1, <2>2, <3>1, AmountsAdd, ConstantsAssumption DEF InBatch, Stored, TypeInv, TypeOK
    <3>3. IsFiniteSet(InBatch(b)) /\ N \in Nat
      BY <3>1, AmountsAdd
    <3> QED
      BY <3>2, <3>3, SumType
  <2> HIDE DEF T, N
  <2>5. CASE b \notin Batch
    <3>1. tally' = tally
      BY <1>5, <1>7, <2>5
    <3> QED
      BY <1>1, <1>3, <1>4, <2>2, <2>5, <3>1 DEF TallyType
  <2>6. CASE b \in Batch
    <3>1. tally[b] \in [total : Int, valid : Nat] /\ bseen = tally[b] /\ bseen # None
      BY <1>4, <1>5, <2>6, ConstantsAssumption DEF TallyType
    <3>2. CASE sum = bseen
      <4>1. tally' = tally
        BY <1>7, <3>2
      <4>2. tally'[b].total = T /\ tally'[b].valid = N
        BY <2>3, <3>1, <3>2, <4>1
      <4> QED
        BY <1>1, <1>3, <1>4, <2>2, <4>1, <4>2 DEF TallyType, T, N
    <3>3. CASE sum # bseen
      <4>1. total = T /\ valid = N
        BY <2>3, <3>1 DEF Column
      <4>2. tally' = [tally EXCEPT ![b].total = total, ![b].valid = valid]
        BY <1>7, <3>1, <3>3
      <4> HIDE DEF total, valid
      <4>3. /\ tally'[b].total = T /\ tally'[b].valid = N
            /\ tally'[b] \in [total : Int, valid : Nat]
            /\ \A c \in Batch \ {b} : tally'[c] = tally[c]
            /\ DOMAIN tally' = Batch
        BY <2>4, <2>6, <3>1, <4>1, <4>2 DEF TallyType
      <4>4. TallyType'
        BY <4>2, <4>3 DEF TallyType
      <4> QED
        BY <1>1, <1>3, <1>4, <2>2, <4>3, <4>4 DEF T, N
    <3> QED
      BY <3>2, <3>3
  <2> QED
    BY <2>5, <2>6
<1> QED
  BY <1>1, <1>6, <1>7

\* A request that does not edit or generate relies on no sum and no batch.
LEMMA NoSumRead ==
    ASSUME NEW r \in Request, pc'[r] \notin Editing \cup Generating
    PROVE  SumReads(r)'
BY DEF SumReads, Editing, Generating

\* A request that starts has added nothing up yet.
LEMMA StartSumReads ==
    ASSUME TypeInv, NEW r \in Request, Start(r)
    PROVE  SumReads(r)'
<1>1. UNCHANGED payment /\ pc'[r] \in {"up_commit", "ed_siblings", "gen_vendors", "clr_payments"}
  BY StartMoves
<1>2. CASE pc'[r] = "ed_siblings"
  <2>1. PICK p \in Payment, edit \in Edits : EditRead(r, p, edit)
    BY <1>2, StartMoves
  <2>2. \E row : loc' = [loc EXCEPT ![r] = [Blank EXCEPT !.pay = p, !.seen = payment[p], !.row = row]]
    BY <2>1, Zenon DEF EditRead
  <2>3. loc'[r].pay = p /\ loc'[r].seen = payment[p]
    BY <2>2 DEF TypeInv, LocOK, Blank
  <2> QED
    BY <1>1, <1>2, <2>3 DEF SumReads, Generating
<1>3. CASE pc'[r] = "gen_vendors"
  <2>1. PICK bids \in SUBSET Batch, start \in Starts : GenRead(r, bids, start)
    BY <1>3, StartMoves
  <2>2. /\ loc'[r].bids = bids /\ DOMAIN loc'[r].snap = {p \in Stored : payment[p].batch \in bids}
        /\ \A b \in bids : InBatch(b) # {}
    BY <2>1, GenReadSnap DEF GenRead
  <2>3. {payment'[p].batch : p \in DOMAIN loc'[r].snap} = loc'[r].bids
    BY <1>1, <2>2 DEF InBatch
  <2> QED
    BY <1>3, <2>3 DEF SumReads, Editing
<1> QED
  BY <1>1, <1>2, <1>3, NoSumRead DEF Editing, Generating

\* An edit adds up the rows of its batch as they are, and reads the total.
LEMMA EditSumReads ==
    ASSUME TypeInv, NEW r \in Request, SumReads(r), EditSiblings(r) \/ EditBatch(r)
    PROVE  SumReads(r)'
<1> DEFINE b == loc[r].seen.batch
           sum == [total |-> SumFunction([q \in InBatch(b) |-> Counted(loc[r], q)]),
                   valid |-> Cardinality(InBatch(b))]
           row == IF b \in Batch /\ Exists(b) THEN tally[b] ELSE None
<1>1. /\ UNCHANGED <<batch, tally, payment>> /\ pc[r] \in Editing
      /\ loc'[r].pay = loc[r].pay /\ loc'[r].seen = loc[r].seen /\ loc'[r].row = loc[r].row
  BY EditMoves DEF db
<1>2. /\ InBatch(b)' = InBatch(b) /\ row' = row /\ sum' = sum
      /\ payment'[loc'[r].pay].batch = b
  <2>1. InBatch(b)' = InBatch(b) /\ row' = row
    BY <1>1 DEF InBatch, Stored, Exists, Open
  <2>2. [q \in InBatch(b) |-> Counted(loc[r], q)]' = [q \in InBatch(b) |-> Counted(loc[r], q)]
    BY <1>1, <2>1 DEF Counted
  <2> QED
    BY <1>1, <2>1, <2>2 DEF SumReads
<1>3. CASE EditSiblings(r)
  <2>1. loc' = [loc EXCEPT ![r].sum = sum] /\ Goto(r, "ed_batch")
    BY <1>3 DEF EditSiblings
  <2> HIDE DEF sum
  <2>2. loc'[r].sum = sum /\ pc'[r] = "ed_batch"
    BY <2>1, GotoMoves DEF TypeInv, LocOK, RequestOK, Blank
  <2> QED
    BY <1>1, <1>2, <2>2 DEF SumReads, sum, Generating
<1>4. CASE EditBatch(r)
  <2>1. loc' = [loc EXCEPT ![r].bseen = row] /\ Goto(r, "ed_commit") /\ pc[r] = "ed_batch"
    BY <1>4 DEF EditBatch
  <2> HIDE DEF row
  <2>2. loc'[r].bseen = row /\ loc'[r].sum = loc[r].sum /\ pc'[r] = "ed_commit"
    BY <2>1, GotoMoves DEF TypeInv, LocOK, RequestOK, Blank
  <2>3. loc[r].sum = sum
    BY <2>1 DEF SumReads
  <2> QED
    BY <1>1, <1>2, <2>2, <2>3 DEF SumReads, row, Generating
<1> QED
  BY <1>3, <1>4

\* The deletion of a vendor changes no amount and no batch.
LEMMA DeleteVendorSumReads ==
    ASSUME TypeInv, NEW v \in Vendor, DeleteVendor(v), NEW r \in Request, SumReads(r)
    PROVE  SumReads(r)'
<1>1. UNCHANGED <<pc, loc, batch, tally>>
  BY DEF DeleteVendor
<1>2. \A p \in Payment : /\ payment'[p].status = payment[p].status
                         /\ payment'[p].batch = payment[p].batch
                         /\ payment'[p].amount = payment[p].amount
  BY DeleteVendorRows
<1>3. RequestOK(pc[r], loc[r])
  BY DEF TypeInv, LocOK
<1> DEFINE b == loc[r].seen.batch
           row == IF b \in Batch /\ Exists(b) THEN tally[b] ELSE None
<1>4. InBatch(b)' = InBatch(b) /\ row' = row
  BY <1>1, <1>2 DEF InBatch, Stored, Exists, Open
<1>5. [q \in InBatch(b) |-> Counted(loc[r], q)]' = [q \in InBatch(b) |-> Counted(loc[r], q)]
  BY <1>1, <1>2, <1>4 DEF Counted, InBatch, Stored
<1>6. /\ pc[r] \in Editing => payment'[loc[r].pay].batch = b
      /\ pc[r] \in Generating => {payment'[p].batch : p \in DOMAIN loc[r].snap} = loc[r].bids
  BY <1>2, <1>3 DEF SumReads, RequestOK, EditOK, GenOK
<1> QED
  BY <1>1, <1>4, <1>5, <1>6 DEF SumReads

\* One at a time, what a request has added up stays what is stored.
LEMMA NextSumReads ==
    ASSUME OneRequest, TypeInv, \A r \in Request : SumReads(r), [Next]_vars
    PROVE  \A r \in Request : SumReads(r)'
<1>1. ASSUME NEW r \in Request, Start(r) \/ Step(r) \/ Abort(r) PROVE \A q \in Request : SumReads(q)'
  <2> SUFFICES SumReads(r)'
    BY OneRequest DEF OneRequest
  <2>1. CASE Finish(r)
    BY <2>1, FinishMoves, NoSumRead DEF Editing, Generating
  <2>2. CASE Start(r)
    BY <2>2, StartSumReads
  <2>3. CASE EditSiblings(r) \/ EditBatch(r)
    BY <2>3, EditSumReads
  <2>4. CASE GenVendors(r) \/ GenAllocate(r) \/ GenExplicit(r)
    <3>1. UNCHANGED payment /\ pc[r] \in Generating
      BY <2>4, GenMoves DEF db
    <3>2. CASE pc'[r] = "idle"
      BY <3>2, NoSumRead DEF Editing, Generating
    <3>3. CASE pc'[r] \in Generating /\ loc'[r].snap = loc[r].snap /\ loc'[r].bids = loc[r].bids
      <4>1. SumReads(r)
        OBVIOUS
      <4> QED
        BY <3>1, <3>3, <4>1 DEF SumReads, Editing, Generating
    <3> QED
      BY <2>4, <3>2, <3>3, GenMoves
  <2>5. CASE ClearPayments(r) \/ ClearFiles(r)
    BY <2>5, ClearMoves, NoSumRead DEF Editing, Generating
  <2> QED
    BY <1>1, <2>1, <2>2, <2>3, <2>4, <2>5, CommitsFinish DEF Step
<1>2. CASE \E v \in Vendor : DeleteVendor(v)
  BY <1>2, DeleteVendorSumReads
<1>3. CASE UNCHANGED vars
  <2> SUFFICES ASSUME NEW r \in Request PROVE SumReads(r)'
    OBVIOUS
  <2>1. UNCHANGED <<pc, loc, batch, tally, payment>>
    BY <1>3 DEF vars
  <2>2. InBatch(loc[r].seen.batch)' = InBatch(loc[r].seen.batch)
    BY <2>1 DEF InBatch, Stored
  <2>3. [q \in InBatch(loc[r].seen.batch) |-> Counted(loc[r], q)]'
           = [q \in InBatch(loc[r].seen.batch) |-> Counted(loc[r], q)]
    BY <2>1, <2>2 DEF Counted
  <2>4. SumReads(r)
    OBVIOUS
  <2> QED
    BY <2>1, <2>2, <2>3, <2>4 DEF SumReads, Exists, Open
<1> QED
  BY <1>1, <1>2, <1>3 DEF Next

\* The steps that write no total.
LEMMA OtherTallies ==
    ASSUME TypeInv, [Next]_vars, \A r \in Request : ~UploadCommit(r) /\ ~EditCommit(r)
    PROVE  tally' = tally
<1>1. ASSUME NEW r \in Request, Start(r) PROVE tally' = tally
  BY <1>1, StartMoves
<1>2. ASSUME NEW r \in Request, GenCommit(r) \/ ClearCommit(r) PROVE tally' = tally
  BY <1>2 DEF GenCommit, ClearCommit
<1>3. ASSUME NEW r \in Request,
             \/ EditSiblings(r) \/ EditBatch(r)
             \/ GenVendors(r) \/ GenAllocate(r) \/ GenExplicit(r)
             \/ ClearPayments(r) \/ ClearFiles(r)
      PROVE  tally' = tally
  BY <1>3, EditMoves, GenMoves, ClearMoves DEF db
<1>4. ASSUME NEW r \in Request,
             \/ UploadForeignKeyError(r) \/ GenCommitError(r) \/ GenAllocateGap(r) \/ Abort(r)
      PROVE  tally' = tally
  BY <1>4, QuietEnds DEF db
<1>5. ASSUME NEW v \in Vendor, DeleteVendor(v) PROVE tally' = tally
  BY <1>5 DEF DeleteVendor
<1>6. CASE UNCHANGED vars
  BY <1>6 DEF vars
<1> QED
  BY <1>1, <1>2, <1>3, <1>4, <1>5, <1>6 DEF Next, Step

LEMMA NextTallyType ==
    ASSUME TypeInv, SerialInv, TallyType, \A r \in Request : SumReads(r), [Next]_vars
    PROVE  TallyType'
<1>1. ASSUME NEW r \in Request, UploadCommit(r) PROVE TallyType'
  BY <1>1, UploadTally
<1>2. ASSUME NEW r \in Request, EditCommit(r) PROVE TallyType'
  <2>1. SumReads(r)
    OBVIOUS
  <2> QED
    BY <1>2, <2>1, EditTally DEF TallyType
<1> QED
  BY <1>1, <1>2, OtherTallies DEF TallyType

TotalOf(b) ==
    /\ tally[b].total = SumFunction([p \in InBatch(b) |-> payment[p].amount])
    /\ tally[b].valid = Cardinality(InBatch(b))

\* A batch that keeps its payments, their amounts and its row keeps adding up.
LEMMA KeepTotal ==
    ASSUME NEW b \in Batch, TotalOf(b), tally'[b] = tally[b], InBatch(b)' = InBatch(b),
           \A p \in InBatch(b) : payment'[p].amount = payment[p].amount
    PROVE  TotalOf(b)'
<1>1. [p \in InBatch(b) |-> payment[p].amount]' = [p \in InBatch(b) |-> payment[p].amount]
  OBVIOUS
<1> QED
  BY <1>1 DEF TotalOf

LEMMA NextTotals ==
    ASSUME TypeInv, SerialInv, TallyType, \A r \in Request : SumReads(r), TotalsAgree, [Next]_vars
    PROVE  TotalsAgree'
<1> SUFFICES ASSUME NEW b \in Batch, Exists(b)' PROVE TotalOf(b)'
  BY DEF TotalsAgree, TotalOf
<1>0. Exists(b) => TotalOf(b)
  BY DEF TotalsAgree, TotalOf
<1>s. InBatch(b) \subseteq Payment
  BY DEF InBatch, Stored
<1>1. ASSUME NEW r \in Request, UploadCommit(r) PROVE TotalOf(b)'
  <2>1. PICK c \in Batch :
              /\ batch[c] = "absent"
              /\ \A d \in Batch \ {c} : batch'[d] = batch[d] /\ tally'[d] = tally[d] /\ InBatch(d)' = InBatch(d)
              /\ InBatch(c)' = Uploaded(r) /\ Uploaded(r) \cap Stored = {}
              /\ tally'[c].total = SumFunction([p \in Uploaded(r) |-> payment'[p].amount])
              /\ tally'[c].valid = Cardinality(Uploaded(r))
              /\ \A p \in Payment \ Uploaded(r) : payment'[p] = payment[p]
    BY <1>1, UploadTally
  <2>2. CASE b = c
    BY <2>1, <2>2 DEF TotalOf
  <2>3. CASE b # c
    <3>1. Exists(b) /\ tally'[b] = tally[b] /\ InBatch(b)' = InBatch(b)
      BY <2>1, <2>3 DEF Exists, Open
    <3>2. \A p \in InBatch(b) : payment'[p].amount = payment[p].amount
      BY <1>s, <2>1 DEF InBatch
    <3> QED
      BY <1>0, <3>1, <3>2, KeepTotal
  <2> QED
    BY <2>2, <2>3
<1>2. ASSUME NEW r \in Request, EditCommit(r) PROVE TotalOf(b)'
  <2>0. SumReads(r) /\ batch' = batch
    BY <1>2, EditWrites
  <2>1. TotalOf(b)
    BY <1>0, <2>0 DEF Exists, Open
  <2>2. CASE UNCHANGED <<payment, tally>>
    BY <2>1, <2>2, KeepTotal DEF InBatch, Stored
  <2>3. CASE ~UNCHANGED <<payment, tally>>
    <3> DEFINE c == loc[r].seen.batch
    <3>1. /\ loc[r].pay \in Payment /\ payment[loc[r].pay].batch = c
          /\ \A q \in Payment : /\ payment'[q].status = payment[q].status
                                /\ payment'[q].batch = payment[q].batch
                                /\ q # loc[r].pay => payment'[q] = payment[q]
          /\ \A d \in Batch \ {c} : tally'[d] = tally[d]
          /\ c \in Batch => /\ tally'[c].total = SumFunction([q \in InBatch(c) |-> payment'[q].amount])
                            /\ tally'[c].valid = Cardinality(InBatch(c))
      BY <1>2, <2>0, <2>3, EditTally
    <3>2. InBatch(b)' = InBatch(b)
      BY <3>1 DEF InBatch, Stored
    <3>3. CASE b = c
      BY <3>1, <3>2, <3>3 DEF TotalOf
    <3>4. CASE b # c
      <4>1. \A p \in InBatch(b) : payment'[p] = payment[p]
        BY <1>s, <3>1, <3>4 DEF InBatch
      <4> QED
        BY <2>1, <3>1, <3>2, <3>4, <4>1, KeepTotal
    <3> QED
      BY <3>3, <3>4
  <2> QED
    BY <2>2, <2>3
<1>3. ASSUME NEW r \in Request, GenCommit(r) PROVE TotalOf(b)'
  <2>1. tally' = tally /\ \A c \in loc[r].bids : Exists(c)
    BY <1>3 DEF GenCommit
  <2>2. Exists(b)
    <3>1. batch'[b] = IF b \in loc[r].bids THEN "processed" ELSE batch[b]
      BY <1>3 DEF GenCommit
    <3> QED
      BY <2>1, <3>1 DEF Exists, Open
  <2>3. \A p \in Payment : /\ payment'[p].amount = payment[p].amount
                           /\ p \in Stored <=> p \in Stored'
    BY <1>3, SerialGen
  <2>4. \A p \in Payment : payment'[p].batch = payment[p].batch
    <3>1. PICK f \in File, t \in [DOMAIN loc[r].snap -> 0..MaxTrace] :
             payment' = [q \in Payment |->
                 IF q \in DOMAIN loc[r].snap THEN Paid(payment[q], f, t[q]) ELSE payment[q]]
      BY <1>3, GenWrites
    <3> QED
      BY <3>1, PaidRow DEF TypeInv, TypeOK
  <2>5. InBatch(b)' = InBatch(b)
    BY <2>3, <2>4 DEF InBatch, Stored
  <2> QED
    BY <1>0, <1>s, <2>1, <2>2, <2>3, <2>5, KeepTotal
<1>4. \A r \in Request : ~ClearCommit(r)
  <2> SUFFICES ASSUME NEW r \in Request, ClearCommit(r) PROVE FALSE
    OBVIOUS
  <2>1. batch'[b] = IF Exists(b) THEN "deleted" ELSE batch[b]
    BY DEF ClearCommit
  <2> QED
    BY <2>1 DEF Exists, Open
<1>5. CASE \A r \in Request : ~UploadCommit(r) /\ ~EditCommit(r) /\ ~GenCommit(r) /\ ~ClearCommit(r)
  <2>1. tally' = tally /\ Stored' = Stored /\ \A p \in Payment : payment'[p].amount = payment[p].amount
    BY <1>5, OtherTallies, OtherRows
  <2>2. batch' = batch /\ \A p \in Payment : payment'[p].batch = payment[p].batch
    <3>1. CASE \E v \in Vendor : DeleteVendor(v)
      <4>1. PICK v \in Vendor : DeleteVendor(v)
        BY <3>1
      <4>2. batch' = batch
        BY <4>1 DEF DeleteVendor
      <4> QED
        BY <4>1, <4>2, DeleteVendorRows
    <3>2. CASE ~\E v \in Vendor : DeleteVendor(v)
      BY <1>5, <3>2, OtherSteps
    <3> QED
      BY <3>1, <3>2
  <2>3. InBatch(b)' = InBatch(b) /\ Exists(b)
    BY <2>1, <2>2 DEF InBatch, Stored, Exists, Open
  <2> QED
    BY <1>0, <1>s, <2>1, <2>3, KeepTotal
<1> QED
  BY <1>1, <1>2, <1>3, <1>4, <1>5

\* The payments of a file, batch by batch, add up to the totals of the batches.
LEMMA PaidByBatch ==
    ASSUME TypeInv, SerialInv, TotalsAgree, NEW r \in Request, SumReads(r), GenCommit(r)
    PROVE  SumFunction([p \in DOMAIN loc[r].snap |-> payment[p].amount])
               = SumFunction([b \in loc[r].bids |-> tally[b].total])
<1> DEFINE S == DOMAIN loc[r].snap
           bids == loc[r].bids
           f == [p \in S |-> payment[p].amount]
           part == [p \in S |-> payment[p].batch]
<1>1. /\ pc[r] \in Generating /\ S \subseteq Stored /\ bids \subseteq Batch
      /\ \A b \in bids : Exists(b)
  BY DEF GenCommit, Generating, TypeInv, LocOK, RequestOK, GenOK
<1>2. {payment[p].batch : p \in S} = bids
  BY <1>1 DEF SumReads
<1>3. IsFiniteSet(S) /\ f \in [S -> Int]
  BY <1>1, AmountsAdd
<1>4. IsFiniteSet(bids) /\ part \in [S -> bids]
  <2>1. part \in Surjection(S, bids)
    BY <1>2 DEF Surjection
  <2> HIDE DEF S, bids, part
  <2>2. IsFiniteSet(bids)
    BY <1>3, <2>1, FS_Surjection
  <2> QED
    BY <2>1, <2>2 DEF Surjection
<1>5. ASSUME NEW b \in bids
      PROVE  SumFunction([i \in {x \in S : part[x] = b} |-> f[i]]) = tally[b].total
  <2>1. {x \in S : part[x] = b} = InBatch(b)
    BY <1>1 DEF SerialInv, CloseInv, Snapped, InBatch
  <2>2. [i \in {x \in S : part[x] = b} |-> f[i]] = [i \in InBatch(b) |-> payment[i].amount]
    BY <2>1
  <2>3. tally[b].total = SumFunction([i \in InBatch(b) |-> payment[i].amount])
    BY <1>1 DEF TotalsAgree
  <2> QED
    BY <2>2, <2>3
<1> HIDE DEF S, bids, f, part
<1>6. SumFunction(f) = SumFunction([b \in bids |-> SumFunction([i \in {x \in S : part[x] = b} |-> f[i]])])
  BY <1>3, <1>4, SumByGroup
<1>7. [b \in bids |-> SumFunction([i \in {x \in S : part[x] = b} |-> f[i]])]
          = [b \in bids |-> tally[b].total]
  BY <1>5
<1> QED
  BY <1>6, <1>7 DEF f, S, bids

\* The credits of the file written add up to the totals of its batches.
LEMMA GenReconciles ==
    ASSUME TypeInv, SerialInv, TotalsAgree, NEW r \in Request, SumReads(r), GenCommit(r)
    PROVE  \E f \in File :
              /\ \A g \in File \ {f} : nfile'[g] = nfile[g]
              /\ SumFunction([e \in nfile'[f].entries |-> e.amount])
                     = SumFunction([b \in nfile'[f].batches |-> tally'[b].total])
<1> DEFINE S == DOMAIN loc[r].snap
           snap == loc[r].snap
<1>1. PICK f \in File, t \in [S -> 0..MaxTrace] :
          /\ \A g \in File \ {f} : nfile'[g] = nfile[g]
          /\ nfile'[f].entries = {[pay |-> p, amount |-> snap[p].amount,
                                   inv |-> snap[p].inv, trace |-> t[p]] : p \in S}
          /\ nfile'[f].batches = loc[r].bids
  BY GenWrites
<1>2. S \in SUBSET Stored /\ pc[r] \in Generating /\ tally' = tally
  BY DEF GenCommit, Generating
<1>3. \A p \in S : snap[p].amount = payment[p].amount /\ snap[p].amount \in Int
  BY <1>2, AmountsAdd, ConstantsAssumption
     DEF SerialInv, Reads, GenReads, TypeInv, LocOK, RequestOK, GenOK
<1> DEFINE entry(p) == [pay |-> p, amount |-> snap[p].amount, inv |-> snap[p].inv, trace |-> t[p]]
           at == [p \in S |-> entry(p)]
           E == nfile'[f].entries
           credit == [e \in E |-> e.amount]
<1>4. \A p \in S : entry(p).pay = p /\ entry(p).amount = snap[p].amount
  OBVIOUS
<1>5. E = {entry(p) : p \in S}
  BY <1>1
<1> HIDE DEF entry, E, S, snap
<1>6. at \in Bijection(S, E)
  BY <1>4, <1>5 DEF Bijection, Injection, Surjection, IsInjective
<1>7. IsFiniteSet(E) /\ credit \in [E -> Int]
  <2>1. IsFiniteSet(S)
    BY <1>2, AmountsAdd
  <2>2. at \in Surjection(S, E)
    BY <1>6 DEF Bijection
  <2>3. IsFiniteSet(E)
    <3> HIDE DEF at
    <3> QED
      BY <2>1, <2>2, FS_Surjection
  <2> QED
    BY <1>3, <1>4, <1>5, <2>3
<1>8. [p \in S |-> credit[at[p]]] = [p \in S |-> payment[p].amount]
  BY <1>3, <1>4, <1>5
<1> HIDE DEF at, credit
<1>9. SumFunction([p \in S |-> credit[at[p]]]) = SumFunction(credit)
  BY <1>6, <1>7, SumReindex
<1>10. SumFunction(credit) = SumFunction([b \in loc[r].bids |-> tally[b].total])
  BY <1>8, <1>9, PaidByBatch DEF S
<1>11. [b \in loc[r].bids |-> tally[b].total] = [b \in nfile'[f].batches |-> tally'[b].total]
  BY <1>1, <1>2
<1> QED
  BY <1>1, <1>10, <1>11 DEF credit, E

\* The totals of a batch that is closed are not written again.
LEMMA ClosedTotals ==
    ASSUME TypeInv, SerialInv, TallyType, [Next]_vars, \A r \in Request : SumReads(r),
           NEW b \in Batch, batch[b] \in {"processed", "deleted"}
    PROVE  tally'[b] = tally[b]
<1>1. ASSUME NEW r \in Request, UploadCommit(r) PROVE tally'[b] = tally[b]
  BY <1>1, UploadTally
<1>2. ASSUME NEW r \in Request, EditCommit(r) PROVE tally'[b] = tally[b]
  <2>0. SumReads(r)
    OBVIOUS
  <2>1. CASE tally' = tally
    BY <2>1
  <2>2. CASE tally' # tally
    <3>1. /\ loc[r].pay \in Payment /\ payment[loc[r].pay].status = "pending"
          /\ payment[loc[r].pay].batch = loc[r].seen.batch
          /\ \A c \in Batch \ {loc[r].seen.batch} : tally'[c] = tally[c]
      BY <1>2, <2>0, <2>2, EditTally
    <3>2. CASE b = loc[r].seen.batch
      <4>1. loc[r].pay \in Stored /\ b # None
        BY <3>1, ConstantsAssumption DEF Stored
      <4>2. Exists(b) /\ batch[b] # "processed"
        BY <3>1, <3>2, <4>1 DEF SerialInv, CloseInv, ReferencesLive, ClosedIffPaid
      <4> QED
        BY <4>2 DEF Exists, Open
    <3>3. CASE b # loc[r].seen.batch
      BY <3>1, <3>3
    <3> QED
      BY <3>2, <3>3
  <2> QED
    BY <2>1, <2>2
<1> QED
  BY <1>1, <1>2, OtherTallies

LEMMA NextReconciles ==
    ASSUME TypeInv, SerialInv, PaidAreClosed, TallyType, \A r \in Request : SumReads(r),
           TotalsAgree, FilesReconcile, [Next]_vars
    PROVE  FilesReconcile'
<1> DEFINE Reconciled(g) == SumFunction([e \in nfile[g].entries |-> e.amount])
                                = SumFunction([b \in nfile[g].batches |-> tally[b].total])
<1> SUFFICES ASSUME NEW g \in File, nfile'[g].status = "generated" PROVE Reconciled(g)'
  BY DEF FilesReconcile
<1>1. ASSUME nfile'[g] = nfile[g] PROVE Reconciled(g)'
  <2>1. nfile[g].batches \subseteq Batch
    BY DEF TypeInv, TypeOK
  <2>2. \A b \in nfile[g].batches : tally'[b] = tally[b]
    BY <2>1, ClosedTotals DEF PaidAreClosed
  <2>3. [b \in nfile[g].batches |-> tally[b].total]' = [b \in nfile[g].batches |-> tally[b].total]
    BY <1>1, <2>2
  <2>4. [e \in nfile[g].entries |-> e.amount]' = [e \in nfile[g].entries |-> e.amount]
    BY <1>1
  <2>5. Reconciled(g)
    BY <1>1 DEF FilesReconcile
  <2> QED
    BY <2>3, <2>4, <2>5
<1>2. ASSUME NEW r \in Request, UploadCommit(r) \/ EditCommit(r) PROVE nfile' = nfile
  BY <1>2, EditWrites DEF UploadCommit
<1>3. ASSUME NEW r \in Request, GenCommit(r) PROVE Reconciled(g)'
  <2>1. SumReads(r)
    OBVIOUS
  <2> QED
    BY <1>1, <1>3, <2>1, GenReconciles
<1>4. \A r \in Request : ~ClearCommit(r)
  BY SerialClear
<1>5. CASE \A r \in Request : ~UploadCommit(r) /\ ~EditCommit(r) /\ ~GenCommit(r) /\ ~ClearCommit(r)
  BY <1>1, <1>5, OtherRows
<1> QED
  BY <1>1, <1>2, <1>3, <1>4, <1>5

SumInv == TallyType /\ (\A r \in Request : SumReads(r)) /\ TotalsAgree /\ FilesReconcile

LEMMA SumInvHolds ==
    ASSUME OneRequest
    PROVE  Spec => []SumInv
<1>1. Init => SumInv
  <2> SUFFICES ASSUME Init PROVE SumInv
    OBVIOUS
  <2>1. TallyType
    BY DEF Init, TallyType
  <2>2. \A r \in Request : SumReads(r)
    BY DEF Init, SumReads, Editing, Generating
  <2>3. TotalsAgree /\ FilesReconcile
    BY DEF Init, TotalsAgree, FilesReconcile, Exists, Open, NoFile
  <2> QED
    BY <2>1, <2>2, <2>3 DEF SumInv
<1>2. TypeInv /\ SerialInv /\ PaidAreClosed /\ SumInv /\ [Next]_vars => SumInv'
  BY OneRequest, NextTallyType, NextSumReads, NextTotals, NextReconciles DEF SumInv
<1> QED
  BY <1>1, <1>2, OneRequest, SerialInvHolds, PaidAreClosedHolds, PTL DEF Spec

\* With one request at a time, the total and the number of rows shown for a
\* batch are those of its payments, whatever edits and uploads were made
\* (update_payment_item writes only the columns it finds changed).
THEOREM TotalsAgreeHolds ==
    ASSUME OneRequest
    PROVE  Spec => []TotalsAgree
<1>1. SumInv => TotalsAgree
  BY DEF SumInv
<1> QED
  BY <1>1, OneRequest, SumInvHolds, PTL

\* With one request at a time, the credits of every generated file add up to
\* the totals shown for the batches it pays, then and ever after
\* (combine_batches_and_generate_nacha).
THEOREM FilesReconcileHolds ==
    ASSUME OneRequest
    PROVE  Spec => []FilesReconcile
<1>1. SumInv => FilesReconcile
  BY DEF SumInv
<1> QED
  BY <1>1, OneRequest, SumInvHolds, PTL

-----------------------------------------------------------------------------
(* What is sent stays sent: SentIsFrozen, and what Disbursement promises.   *)

LEMMA NextFrozen ==
    ASSUME TypeInv, SerialInv, [Next]_vars, NEW p \in Stored,
           payment[p].file # None, payment'[p].status # "deleted"
    PROVE  /\ payment'[p].amount = payment[p].amount /\ payment'[p].inv = payment[p].inv
           /\ payment'[p].trace = payment[p].trace
<1>0. p \in Payment /\ payment[p].status # "absent"
  BY DEF Stored
<1>1. ASSUME NEW r \in Request, UploadCommit(r) PROVE payment'[p] = payment[p]
  BY <1>0, <1>1, SerialUpload
<1>2. ASSUME NEW r \in Request, EditCommit(r) PROVE payment'[p] = payment[p]
  <2>1. CASE payment' = payment
    BY <2>1
  <2>2. CASE payment' # payment
    <3>1. p # loc[r].pay
      BY <1>2, <2>2, SerialEdit
    <3> QED
      BY <1>0, <1>2, <3>1, EditRows
  <2> QED
    BY <2>1, <2>2
<1>3. ASSUME NEW r \in Request, GenCommit(r) PROVE payment'[p] = payment[p]
  <2>1. p \notin DOMAIN loc[r].snap
    BY <1>3, SerialGen
  <2> QED
    BY <1>0, <1>3, <2>1, SerialGen
<1>4. \A r \in Request : ~ClearCommit(r)
  BY <1>0, SerialClear
<1>5. CASE \A r \in Request : ~UploadCommit(r) /\ ~EditCommit(r) /\ ~GenCommit(r) /\ ~ClearCommit(r)
  BY <1>0, <1>5, OtherRows
<1> QED
  BY <1>1, <1>2, <1>3, <1>4, <1>5

\* With one request at a time, a payment in a generated file keeps its amount,
\* its invoice and its trace number until clear-all takes it
\* (the guard of update_payment_item).
THEOREM SentIsFrozenHolds ==
    ASSUME OneRequest
    PROVE  Spec => SentIsFrozen
<1> DEFINE Frozen == \A p \in Stored : payment[p].file # None /\ payment'[p].status # "deleted" =>
                        /\ payment'[p].amount = payment[p].amount
                        /\ payment'[p].inv = payment[p].inv
                        /\ payment'[p].trace = payment[p].trace
<1>1. TypeInv /\ SerialInv /\ [Next]_vars => [Frozen]_vars
  BY NextFrozen
<1>2. Spec => [][Frozen]_vars
  BY <1>1, OneRequest, SerialInvHolds, PTL DEF Spec
<1>3. SentIsFrozen <=> [][Frozen]_vars
  BY DEF SentIsFrozen
<1> QED
  BY <1>2, <1>3

Stages  == [p \in Payment |-> Stage(payment[p].status)]
Amounts == [p \in Payment |-> payment[p].amount]

LEMMA StageOf == /\ Stage("absent") = "none" /\ Stage("pending") = "draft"
                 /\ Stage("processing") = "sent" /\ Stage("deleted") = "cleared"
BY DEF Stage

LEMMA PromiseRows ==
    /\ \A p \in Payment : Stages[p] = Stage(payment[p].status) /\ Amounts[p] = payment[p].amount
    /\ \A p \in Payment : Stages'[p] = Stage(payment'[p].status) /\ Amounts'[p] = payment'[p].amount
    /\ Stages = [p \in Payment |-> Stages[p]] /\ Stages' = [p \in Payment |-> Stages'[p]]
    /\ Amounts = [p \in Payment |-> Amounts[p]] /\ Amounts' = [p \in Payment |-> Amounts'[p]]
BY DEF Stages, Amounts

\* What the steps look like to those who know only stages, amounts and the bank.
LEMMA StepPromise ==
    ASSUME TypeInv, SerialInv, [Next]_vars
    PROVE  Promise!Next \/ (Stages' = Stages /\ Amounts' = Amounts /\ Told' = Told)
<1> DEFINE Stutters == Stages' = Stages /\ Amounts' = Amounts /\ Told' = Told
<1>1. ASSUME NEW r \in Request, UploadCommit(r) PROVE Promise!Next
  <2>0. PICK S \in SUBSET Payment : S = Uploaded(r)
    BY DEF Uploaded
  <2> DEFINE new == [p \in S |-> loc[r].sheet[p - loc[r].base].amount]
  <2>1. S \subseteq Payment /\ nfile' = nfile
    BY <1>1 DEF UploadCommit
  <2>2. /\ \A p \in S : /\ payment[p].status = "absent" /\ payment'[p].status = "pending"
                        /\ payment'[p].amount = new[p]
        /\ \A p \in Payment : p \notin S => payment'[p] = payment[p]
    BY <1>1, <2>0, SerialUpload
  <2>3. new \in [S -> Amount]
    <3>1. UploadOK(loc[r])
      BY <1>1 DEF TypeInv, LocOK, RequestOK, UploadCommit
    <3>2. \A p \in S : loc[r].sheet[p - loc[r].base] \in Row
      BY <1>1, <2>0, <3>1, SerialUpload DEF UploadOK
    <3> QED
      BY <3>2 DEF Row
  <2> HIDE DEF new
  <2>4. /\ \A p \in S : Stages[p] = "none"
        /\ Stages' = [p \in Payment |-> IF p \in S THEN "draft" ELSE Stages[p]]
        /\ Amounts' = [p \in Payment |-> IF p \in S THEN new[p] ELSE Amounts[p]]
    BY <2>1, <2>2, PromiseRows, StageOf
  <2>5. Told' = Told
    BY <2>1 DEF Told
  <2>6. \E x \in [S -> Amount] :
           Amounts' = [p \in Payment |-> IF p \in S THEN x[p] ELSE Amounts[p]]
    BY <2>3, <2>4
  <2>7. Promise!Draft(S)
    BY <2>4, <2>5, <2>6 DEF Promise!Draft, Stages, Amounts
  <2> QED
    BY <2>1, <2>7 DEF Promise!Next
<1>2. ASSUME NEW r \in Request, EditCommit(r) PROVE Promise!Next \/ Stutters
  <2>1. nfile' = nfile
    BY <1>2, EditWrites
  <2>2. Told' = Told
    BY <2>1 DEF Told
  <2>3. CASE payment' = payment
    BY <2>2, <2>3 DEF Stages, Amounts
  <2>4. CASE payment' # payment
    <3>1. PICK p \in Payment, a \in Amount :
             /\ payment[p].status = "pending" /\ payment'[p].amount = a
             /\ payment' = [payment EXCEPT ![p] = payment'[p]]
      BY <1>2, <2>4, SerialEdit
    <3>2. \A q \in Payment : payment'[q].status = payment[q].status
      BY <1>2, EditRows
    <3>3. /\ Stages[p] = "draft" /\ Stages' = Stages
          /\ Amounts' = [Amounts EXCEPT ![p] = a]
      <4>1. \A q \in Payment \ {p} : payment'[q] = payment[q]
        BY <3>1 DEF TypeInv, TypeOK
      <4> QED
        BY <3>1, <3>2, <4>1, PromiseRows, StageOf
    <3>4. Promise!Revise(p, a)
      BY <2>2, <3>3 DEF Promise!Revise, Stages, Amounts
    <3> QED
      BY <3>4 DEF Promise!Next
  <2> QED
    BY <2>3, <2>4
<1>3. ASSUME NEW r \in Request, GenCommit(r) PROVE Promise!Next
  <2> DEFINE S == DOMAIN loc[r].snap
  <2>1. PICK f \in File, t \in [S -> 0..MaxTrace] :
            /\ S \subseteq Payment
            /\ nfile[f].entries = {}
            /\ \A h \in File \ {f} : nfile'[h] = nfile[h]
            /\ nfile'[f].entries = {[pay |-> p, amount |-> payment[p].amount,
                                     inv |-> payment[p].inv, trace |-> t[p]] : p \in S}
            /\ \A p \in S : /\ payment[p].status = "pending" /\ payment[p].file = None
                            /\ payment'[p].status = "processing"
            /\ \A p \in Payment : /\ p \notin S => payment'[p] = payment[p]
                                  /\ payment'[p].amount = payment[p].amount
                                  /\ payment'[p].inv = payment[p].inv
    BY <1>3, SerialGen
  <2> HIDE DEF S
  <2>2. /\ \A p \in S : Stages[p] = "draft"
        /\ Stages' = [p \in Payment |-> IF p \in S THEN "sent" ELSE Stages[p]]
        /\ Amounts' = Amounts
    BY <2>1, PromiseRows, StageOf
  <2>3. \A i \in Told : i[3] # f
    BY <2>1 DEF Told
  <2>4. Told' = Told \cup {<<p, Amounts[p], f>> : p \in S}
    <3> DEFINE new == {<<e.pay, e.amount, f>> : e \in nfile'[f].entries}
               of(g) == {<<e.pay, e.amount, g>> : e \in nfile[g].entries}
    <3>1. new = {<<p, Amounts[p], f>> : p \in S}
      <4> DEFINE entry(p) == [pay |-> p, amount |-> payment[p].amount,
                              inv |-> payment[p].inv, trace |-> t[p]]
      <4>1. nfile'[f].entries = {entry(p) : p \in S}
        BY <2>1
      <4>2. \A p \in S : entry(p).pay = p /\ entry(p).amount = Amounts[p]
        BY <2>1, PromiseRows
      <4> HIDE DEF entry
      <4> QED
        BY <4>1, <4>2
    <3>2. of(f) = {} /\ \A g \in File \ {f} : {<<e.pay, e.amount, g>> : e \in nfile'[g].entries} = of(g)
      BY <2>1
    <3>3. Told = UNION {of(g) : g \in File}
      BY DEF Told
    <3>4. Told' = UNION {IF g = f THEN new ELSE of(g) : g \in File}
      BY <3>2 DEF Told
    <3> HIDE DEF new, of
    <3> QED
      BY <3>1, <3>2, <3>3, <3>4
  <2>5. Promise!Send(S, f)
    BY <2>2, <2>3, <2>4 DEF Promise!Send, Stages, Amounts
  <2> QED
    BY <2>1, <2>5 DEF Promise!Next
<1>4. ASSUME NEW r \in Request, ClearCommit(r) PROVE Promise!Next
  <2>1. /\ \A p \in Payment :
              /\ payment[p].status = "absent" => payment'[p].status = "absent"
              /\ payment[p].status # "absent" => payment'[p].status = "deleted"
              /\ payment'[p].amount = None
        /\ \A f \in File : nfile'[f].entries = nfile[f].entries
    BY <1>4, SerialClear
  <2>2. \A p \in Payment : payment[p].status \in {"absent", "pending", "processing", "deleted"}
    BY DEF TypeInv, TypeOK, PaymentRow
  <2>3. /\ Stages' = [p \in Payment |-> IF Stages[p] = "none" THEN "none" ELSE "cleared"]
        /\ Amounts' = [p \in Payment |-> None]
    BY <2>1, <2>2, PromiseRows, StageOf
  <2>4. Told' = Told
    BY <2>1 DEF Told
  <2>5. Promise!Clear
    BY <2>3, <2>4 DEF Promise!Clear, Stages, Amounts
  <2> QED
    BY <2>5 DEF Promise!Next
<1>5. CASE \A r \in Request : ~UploadCommit(r) /\ ~EditCommit(r) /\ ~GenCommit(r) /\ ~ClearCommit(r)
  <2>1. /\ nfile' = nfile
        /\ \A p \in Payment : /\ payment'[p].status = payment[p].status
                              /\ payment'[p].amount = payment[p].amount
    BY <1>5, OtherRows
  <2> QED
    BY <2>1 DEF Stages, Amounts, Told
<1> QED
  BY <1>1, <1>2, <1>3, <1>4, <1>5

\* With one request at a time the whole money path implements Disbursement: a
\* payment is drafted once, revised only as a draft, and told to the bank at
\* most once, with the amount it had then; only clear-all takes it away.
THEOREM KeepsPromiseHolds ==
    ASSUME OneRequest
    PROVE  Spec => KeepsPromise
<1>1. Init => Promise!Init
  BY DEF Init, Promise!Init, Stage, Told, NoPayment, NoFile
<1>2. TypeInv /\ SerialInv /\ [Next]_vars => [Promise!Next]_(Promise!vars)
  BY StepPromise DEF Promise!vars, Stages, Amounts
<1> QED
  BY <1>1, <1>2, OneRequest, SerialInvHolds, PTL DEF Spec, KeepsPromise, Promise!Spec

-----------------------------------------------------------------------------
(* What the ledger inherits from Disbursement.                              *)

Kept == INSTANCE DisbursementProofs WITH
    stage  <- [p \in Payment |-> Stage(payment[p].status)],
    amount <- [p \in Payment |-> payment[p].amount],
    bank   <- Told

\* Of all the files ever generated, those cleared since included, no two
\* entries pay the same payment, and the ledger shows for a payment sent the
\* amount that is in its file (with one request at a time).
THEOREM BankHearsOnceAndTrue ==
    ASSUME OneRequest
    PROVE  Spec => [](Promise!InstructedOnce /\ Promise!BankAgrees)
<1>1. Promise!Init => Kept!Init
  BY DEF Kept!Init, Promise!Init
<1>2. [Promise!Next]_(Promise!vars) => [Kept!Next]_(Kept!vars)
  BY DEF Promise!Next, Kept!Next, Promise!vars, Kept!vars, Promise!Draft, Kept!Draft,
     Promise!Revise, Kept!Revise, Promise!Send, Kept!Send, Promise!Clear, Kept!Clear
<1>3. Kept!Spec => []Kept!InstructedOnce /\ []Kept!BankAgrees
  BY Kept!InstructedOnceHolds, Kept!BankAgreesHolds, PTL
<1>4. Kept!InstructedOnce /\ Kept!BankAgrees => Promise!InstructedOnce /\ Promise!BankAgrees
  BY DEF Kept!InstructedOnce, Promise!InstructedOnce, Kept!BankAgrees, Promise!BankAgrees
<1> QED
  BY <1>1, <1>2, <1>3, <1>4, KeepsPromiseHolds, OneRequest, PTL
     DEF KeepsPromise, Promise!Spec, Kept!Spec
=============================================================================
