------------------------- MODULE PaymentLedgerProofs -------------------------
(***************************************************************************)
(* PaymentLedger for any number of concurrent requests, edits, uploads,    *)
(* vendor deletions and clear-all included: first types and what each step *)
(* writes, then trace numbers, references, the links between payments,     *)
(* files and advices, batches that close, and how often a batch is paid.   *)
(* The invariants each of them rests on come before it.                    *)
(***************************************************************************)
EXTENDS PaymentLedger, FiniteSetTheorems, TLAPS

Labels == {"idle", "up_commit", "ed_siblings", "ed_batch", "ed_commit",
           "gen_vendors", "gen_alloc", "gen_commit",
           "clr_payments", "clr_files", "clr_commit"}
Editing    == {"ed_siblings", "ed_batch", "ed_commit"}
Generating == {"gen_vendors", "gen_alloc", "gen_commit"}

\* What the later steps of a request rely on in what the earlier ones read.
UploadOK(l) == l.sheet \in Seq(Row) /\ l.kept \subseteq DOMAIN l.sheet /\ l.base \in Nat

EditOK(l) == /\ l.pay \in Payment
             /\ l.row.amount \in Amount /\ l.row.inv \in Invoice
             /\ l.row.fp \in (Vendor \X Amount \X Invoice) \cup {None}

GenOK(l) == /\ DOMAIN l.snap \subseteq Payment
            /\ \A p \in DOMAIN l.snap : l.snap[p].amount \in Amount /\ l.snap[p].inv \in Invoice
            /\ l.start \in Nat /\ l.first \in Nat /\ l.bids \subseteq Batch

RequestOK(label, l) ==
    /\ DOMAIN l = DOMAIN Blank
    /\ label = "up_commit" => UploadOK(l)
    /\ label \in Editing => EditOK(l)
    /\ label \in Generating => GenOK(l)

LocOK ==
    /\ pc \in [Request -> Labels]
    /\ loc = [r \in Request |-> loc[r]]
    /\ \A r \in Request : RequestOK(pc[r], loc[r])

TypeInv == TypeOK /\ LocOK

-----------------------------------------------------------------------------
(* Typing.                                                                  *)

LEMMA TraceFieldType == \A n \in Nat : TraceField(n) \in 0..MaxTrace
BY ConstantsAssumption DEF TraceField

LEMMA TraceFieldIdentity == \A n \in 0..MaxTrace : TraceField(n) = n
BY ConstantsAssumption DEF TraceField

\* A request pays finitely many payments.
LEMMA SnapSize == \A S \in SUBSET Payment : IsFiniteSet(S) /\ Cardinality(S) \in Nat
<1>1. IsFiniteSet(Payment)
  BY ConstantsAssumption, FS_Interval DEF Payment
<1> QED
  BY <1>1, FS_Subset, FS_CardinalityType

LEMMA NoPaymentType ==
    NoPayment \in PaymentRow /\ [NoPayment EXCEPT !.status = "deleted"] \in PaymentRow
BY DEF NoPayment, PaymentRow

LEMMA UpdatedType ==
    ASSUME NEW row \in PaymentRow, row.amount \in Amount, row.inv \in Invoice, NEW old, NEW new,
           new.amount \in Amount, new.inv \in Invoice,
           new.fp \in (Vendor \X Amount \X Invoice) \cup {None}
    PROVE  /\ Updated(row, new, old) \in PaymentRow
           /\ Updated(row, new, old).amount \in Amount /\ Updated(row, new, old).inv \in Invoice
<1> DEFINE a == Column(new.amount # old.amount, new.amount, row.amount)
           i == Column(new.inv # old.inv, new.inv, row.inv)
           fp == Column(new.fp # old.fp, new.fp, row.fp)
           vetted == Column(new.fp # old.fp, FALSE, row.vetted)
<1>1. a \in Amount /\ i \in Invoice /\ fp \in (Vendor \X Amount \X Invoice) \cup {None}
  BY DEF Column, PaymentRow
<1>2. vetted \in BOOLEAN
  <2>1. row.vetted \in BOOLEAN
    BY DEF PaymentRow
  <2> QED
    BY <2>1 DEF Column
<1>3. Updated(row, new, old) = [row EXCEPT !.amount = a, !.inv = i, !.fp = fp, !.vetted = vetted]
  BY Zenon DEF Updated
<1> HIDE DEF a, i, fp, vetted
<1> QED
  BY ZenonT(30), <1>1, <1>2, <1>3 DEF PaymentRow

LEMMA InitType == Init => TypeInv
<1> SUFFICES ASSUME Init PROVE TypeInv
  OBVIOUS
<1> USE ConstantsAssumption
<1>1. TypeOK
  BY NoPaymentType DEF Init, TypeOK, NoFile, Stored, NoPayment
<1>2. LocOK
  BY DEF Init, LocOK, RequestOK, Labels, Editing, Generating
<1> QED
  BY <1>1, <1>2 DEF TypeInv

\* A request that ends, or that moves on with what it had, keeps LocOK.
LEMMA FinishLoc ==
    ASSUME LocOK, NEW r \in Request, Finish(r)
    PROVE  LocOK'
<1>1. \A q \in Request \ {r} : pc'[q] = pc[q] /\ loc'[q] = loc[q]
  BY DEF LocOK, Finish
<1>2. pc'[r] = "idle" /\ loc'[r] = Blank
  BY DEF LocOK, Finish
<1>3. pc' \in [Request -> Labels] /\ loc' = [q \in Request |-> loc'[q]]
  BY DEF LocOK, Finish, Labels
<1> QED
  BY <1>1, <1>2, <1>3 DEF LocOK, RequestOK, Editing, Generating

LEMMA GotoLoc ==
    ASSUME LocOK, NEW r \in Request, NEW label \in Labels, Goto(r, label),
           NEW l, loc' = [loc EXCEPT ![r] = l], RequestOK(label, l)
    PROVE  LocOK'
<1>1. \A q \in Request \ {r} : pc'[q] = pc[q] /\ loc'[q] = loc[q]
  BY DEF LocOK, Goto
<1>2. pc'[r] = label /\ loc'[r] = l
  BY DEF LocOK, Goto
<1>3. pc' \in [Request -> Labels] /\ loc' = [q \in Request |-> loc'[q]]
  BY DEF LocOK, Goto
<1> QED
  BY <1>1, <1>2, <1>3 DEF LocOK

LEMMA SameRowsType ==
    ASSUME TypeOK, UNCHANGED db, seq' \in Nat
    PROVE  TypeOK'
BY DEF TypeOK, db, Stored

LEMMA FailType ==
    ASSUME TypeInv, NEW r \in Request, Fail(r)
    PROVE  TypeInv'
BY FinishLoc, SameRowsType DEF TypeInv, Fail, TypeOK

LEMMA UploadReadType ==
    ASSUME TypeInv, NEW r \in Request, NEW sheet \in Sheets,
           NEW manual \in BOOLEAN, NEW override \in BOOLEAN,
           UploadRead(r, sheet, manual, override)
    PROVE  TypeInv'
<1> USE ConstantsAssumption
<1>1. PICK kept, marked, matched :
          kept \subseteq DOMAIN sheet /\ loc' = [loc EXCEPT ![r] = [Blank EXCEPT !.base = issued, !.sheet = sheet,
                     !.matched = matched, !.kept = kept, !.marked = marked]]
  BY Zenon DEF UploadRead, Parsed, Matched
<1> DEFINE l == [Blank EXCEPT !.base = issued, !.sheet = sheet,
                     !.matched = matched, !.kept = kept, !.marked = marked]
<1>2. sheet \in Seq(Row) /\ Len(sheet) \in Nat /\ issued \in Nat
  BY DEF TypeInv, TypeOK
<1>3. l.base = issued /\ l.sheet = sheet /\ l.kept = kept /\ DOMAIN l = DOMAIN Blank
  BY DEF Blank
<1>4. RequestOK("up_commit", l)
  BY <1>1, <1>2, <1>3 DEF RequestOK, UploadOK, Editing, Generating
<1>5. loc' = [loc EXCEPT ![r] = l] /\ Goto(r, "up_commit")
  BY <1>1 DEF UploadRead
<1> HIDE DEF l
<1>6. LocOK'
  BY <1>4, <1>5, GotoLoc DEF TypeInv, Labels
<1>7. issued' \in 0..MaxPayment /\ UNCHANGED <<vendor, batch, tally, payment, nfile, remit, seq>>
  BY <1>2 DEF UploadRead
<1>8. TypeOK'
  BY <1>7 DEF TypeInv, TypeOK, Stored
<1> QED
  BY <1>6, <1>8 DEF TypeInv

LEMMA UploadCommitType ==
    ASSUME TypeInv, NEW r \in Request, UploadCommit(r)
    PROVE  TypeInv'
<1> USE ConstantsAssumption
<1>1. UploadOK(loc[r])
  BY DEF TypeInv, LocOK, RequestOK, UploadCommit
<1>2. ASSUME NEW b \in Batch, NEW i \in loc[r].kept
      PROVE  /\ NewPayment(r, b, i) \in PaymentRow
             /\ NewPayment(r, b, i).amount \in Amount /\ NewPayment(r, b, i).inv \in Invoice
  <2>1. loc[r].sheet[i] \in Row
    BY <1>1 DEF UploadOK
  <2> QED
    BY <2>1 DEF NewPayment, PaymentRow, Row, Fingerprint
<1>3. PICK b \in Batch :
          /\ batch' = [batch EXCEPT ![b] = BatchStatusOf(loc[r].kept, loc[r].sheet)]
          /\ DOMAIN tally' = DOMAIN tally
          /\ payment' = [p \in Payment |-> IF p - loc[r].base \in loc[r].kept
                            THEN NewPayment(r, b, p - loc[r].base) ELSE payment[p]]
  BY DEF UploadCommit
<1>4. batch' \in [Batch -> {"absent", "parsed", "partially_failed", "failed", "processed", "deleted"}]
  BY <1>3 DEF BatchStatusOf, TypeInv, TypeOK
<1>5. payment' \in [Payment -> PaymentRow]
  BY <1>2, <1>3 DEF TypeInv, TypeOK
<1>6. \A p \in Stored' : payment'[p].amount \in Amount /\ payment'[p].inv \in Invoice
  BY <1>2, <1>3 DEF TypeInv, TypeOK, Stored
<1>7. vendor' \in [Vendor -> {"absent", "live", "deleted"}]
  BY DEF UploadCommit, TypeInv, TypeOK
<1>8. TypeOK'
  BY <1>3, <1>4, <1>5, <1>6, <1>7 DEF UploadCommit, TypeInv, TypeOK
<1> QED
  BY <1>8, FinishLoc DEF UploadCommit, TypeInv

LEMMA EditReadType ==
    ASSUME TypeInv, NEW r \in Request, NEW p \in Payment, NEW edit \in Edits, EditRead(r, p, edit)
    PROVE  TypeInv'
<1> USE ConstantsAssumption
<1> DEFINE amount == Default(edit.amount, payment[p].amount)
           inv == Default(edit.inv, payment[p].inv)
           fp == IF payment[p].vendor = None THEN payment[p].fp
                 ELSE Fingerprint(payment[p].vendor, amount, inv)
           new == [payment[p] EXCEPT !.amount = amount, !.inv = inv, !.fp = fp,
                                     !.vetted = @ /\ fp = payment[p].fp]
           l == [Blank EXCEPT !.pay = p, !.seen = payment[p], !.row = new]
<1>1. payment[p] \in PaymentRow /\ payment[p].amount \in Amount /\ payment[p].inv \in Invoice
  BY DEF EditRead, Editable, TypeInv, TypeOK
<1>2. edit.amount \in Amount \cup {None} /\ edit.inv \in Invoice \cup {None}
  OBVIOUS
<1>3. amount \in Amount /\ inv \in Invoice
  BY <1>1, <1>2 DEF Default
<1>4. fp \in (Vendor \X Amount \X Invoice) \cup {None}
  BY <1>1, <1>3 DEF Fingerprint, PaymentRow
<1>5. new.amount = amount /\ new.inv = inv /\ new.fp = fp
  BY <1>1 DEF PaymentRow
<1>6. l.pay = p /\ l.row = new /\ DOMAIN l = DOMAIN Blank
  BY DEF Blank
<1>7. RequestOK("ed_siblings", l)
  BY <1>3, <1>4, <1>5, <1>6 DEF RequestOK, EditOK, Editing, Generating
<1>8. loc' = [loc EXCEPT ![r] = l] /\ Goto(r, "ed_siblings") /\ UNCHANGED <<db, seq>>
  BY DEF EditRead
<1> HIDE DEF l
<1>9. LocOK'
  BY <1>7, <1>8, GotoLoc DEF TypeInv, Labels
<1> QED
  BY <1>8, <1>9, SameRowsType DEF TypeInv, TypeOK

\* The two reads that follow add to what the first one read.
LEMMA EditSumType ==
    ASSUME TypeInv, NEW r \in Request, EditSiblings(r) \/ EditBatch(r)
    PROVE  TypeInv'
<1>1. EditOK(loc[r]) /\ DOMAIN loc[r] = DOMAIN Blank
  BY DEF TypeInv, LocOK, RequestOK, EditSiblings, EditBatch, Editing
<1>2. \E x : loc' = [loc EXCEPT ![r].sum = x] \/ loc' = [loc EXCEPT ![r].bseen = x]
  BY Zenon DEF EditSiblings, EditBatch
<1>3. PICK l : /\ loc' = [loc EXCEPT ![r] = l]
               /\ DOMAIN l = DOMAIN Blank /\ l.pay = loc[r].pay /\ l.row = loc[r].row
  BY <1>1, <1>2 DEF Blank
<1>4. PICK label \in Editing : Goto(r, label) /\ UNCHANGED <<db, seq>>
  BY Zenon DEF EditSiblings, EditBatch, Editing
<1>5. RequestOK(label, l) /\ label \in Labels
  BY <1>1, <1>3 DEF RequestOK, EditOK, Editing, Generating, Labels
<1>6. LocOK'
  BY <1>3, <1>4, <1>5, GotoLoc DEF TypeInv
<1> QED
  BY <1>4, <1>6, SameRowsType DEF TypeInv, TypeOK

LEMMA EditCommitType ==
    ASSUME TypeInv, NEW r \in Request, EditCommit(r)
    PROVE  TypeInv'
<1> DEFINE p == loc[r].pay
           old == loc[r].seen
           new == loc[r].row
<1>1. EditOK(loc[r])
  BY DEF TypeInv, LocOK, RequestOK, EditCommit, Editing
<1>2. CASE Fail(r)
  BY <1>2, FailType
<1>3. CASE ~Fail(r)
  <2>1. /\ Finish(r) /\ DOMAIN tally' = DOMAIN tally
        /\ UNCHANGED <<vendor, batch, issued, nfile, remit, seq>>
    BY <1>3 DEF EditCommit
  <2>2. \/ payment' = payment
        \/ p \in Stored /\ payment' = [payment EXCEPT ![p] = Updated(payment[p], new, old)]
    BY <1>3 DEF EditCommit
  <2>3. CASE payment' = payment
    <3>1. TypeOK'
      BY <2>1, <2>3 DEF TypeInv, TypeOK, Stored
    <3> QED
      BY <3>1, <2>1, FinishLoc DEF TypeInv
  <2>4. CASE p \in Stored /\ payment' = [payment EXCEPT ![p] = Updated(payment[p], new, old)]
    <3>1. payment[p] \in PaymentRow /\ payment[p].amount \in Amount /\ payment[p].inv \in Invoice
      BY <2>4 DEF TypeInv, TypeOK, Stored
    <3>2. payment'[p] \in PaymentRow /\ payment'[p].amount \in Amount /\ payment'[p].inv \in Invoice
      BY <1>1, <3>1, <2>4, UpdatedType DEF EditOK, TypeInv, TypeOK, Stored
    <3>3. payment' \in [Payment -> PaymentRow]
      BY <2>4, <3>2 DEF TypeInv, TypeOK
    <3>4. \A q \in Stored' : payment'[q].amount \in Amount /\ payment'[q].inv \in Invoice
      BY <2>4, <3>2 DEF TypeInv, TypeOK, Stored
    <3>5. TypeOK'
      BY <2>1, <3>3, <3>4 DEF TypeInv, TypeOK
    <3> QED
      BY <3>5, <2>1, FinishLoc DEF TypeInv
  <2> QED
    BY <2>2, <2>3, <2>4
<1> QED
  BY <1>2, <1>3

LEMMA GenReadType ==
    ASSUME TypeInv, NEW r \in Request, NEW bids \in SUBSET Batch, NEW start \in Starts,
           GenRead(r, bids, start)
    PROVE  TypeInv'
<1> USE ConstantsAssumption
<1> DEFINE snap == [p \in UNION {InBatch(b) : b \in bids} |->
                       [batch  |-> payment[p].batch,  vendor |-> payment[p].vendor,
                        amount |-> payment[p].amount, inv    |-> payment[p].inv]]
           l == [Blank EXCEPT !.bids = bids, !.start = start, !.snap = snap]
<1>1. /\ DOMAIN snap \subseteq Payment
      /\ \A p \in DOMAIN snap : snap[p].amount \in Amount /\ snap[p].inv \in Invoice
  BY DEF InBatch, Stored, TypeInv, TypeOK
<1>2. loc' = [loc EXCEPT ![r] = l] /\ Goto(r, "gen_vendors") /\ UNCHANGED <<db, seq>>
  BY DEF GenRead
<1> HIDE DEF snap
<1>3. l.snap = snap /\ l.bids = bids /\ l.start = start /\ l.first = 0 /\ DOMAIN l = DOMAIN Blank
  BY DEF Blank
<1> HIDE DEF l
<1>4. RequestOK("gen_vendors", l)
  BY <1>1, <1>3 DEF RequestOK, GenOK, Editing, Generating
<1>5. LocOK'
  BY <1>2, <1>4, GotoLoc DEF TypeInv, Labels
<1> QED
  BY <1>2, <1>5, SameRowsType DEF TypeInv, TypeOK

LEMMA GenVendorsType ==
    ASSUME TypeInv, NEW r \in Request, GenVendors(r)
    PROVE  TypeInv'
<1>1. CASE Fail(r)
  BY <1>1, FailType
<1>2. CASE Goto(r, "gen_alloc") /\ UNCHANGED <<loc, db, seq>>
  <2>1. RequestOK("gen_alloc", loc[r])
    BY DEF GenVendors, TypeInv, LocOK, RequestOK, Editing, Generating
  <2>2. loc' = [loc EXCEPT ![r] = loc[r]]
    BY <1>2 DEF TypeInv, LocOK
  <2>3. LocOK'
    BY <1>2, <2>1, <2>2, GotoLoc DEF TypeInv, Labels
  <2> QED
    BY <1>2, <2>3, SameRowsType DEF TypeInv, TypeOK
<1> QED
  BY <1>1, <1>2 DEF GenVendors

\* Taking numbers, from the sequence or as submitted.
LEMMA GenAllocType ==
    ASSUME TypeInv, NEW r \in Request,
           GenAllocate(r) \/ GenAllocateGap(r) \/ GenExplicit(r)
    PROVE  TypeInv'
<1>1. GenOK(loc[r]) /\ DOMAIN loc[r] = DOMAIN Blank /\ seq \in Nat
  BY DEF GenAllocate, GenAllocateGap, GenExplicit, TypeInv, TypeOK, LocOK, RequestOK, Generating
<1>2. Cardinality(DOMAIN loc[r].snap) \in Nat
  BY <1>1, SnapSize DEF GenOK
<1>3. UNCHANGED db /\ seq' \in Nat
  BY <1>1, <1>2 DEF GenAllocate, GenAllocateGap, GenExplicit, LastTrace
<1>4. TypeOK'
  BY <1>3, SameRowsType DEF TypeInv
<1>5. CASE Finish(r)
  BY <1>4, <1>5, FinishLoc DEF TypeInv
<1>6. CASE \E n \in Nat : loc' = [loc EXCEPT ![r].first = n] /\ Goto(r, "gen_commit")
  <2>1. PICK n \in Nat : loc' = [loc EXCEPT ![r].first = n] /\ Goto(r, "gen_commit")
    BY <1>6
  <2> DEFINE l == [loc[r] EXCEPT !.first = n]
  <2>2. loc' = [loc EXCEPT ![r] = l]
    BY <2>1
  <2>3. /\ DOMAIN l = DOMAIN Blank /\ l.first = n
        /\ l.snap = loc[r].snap /\ l.start = loc[r].start /\ l.bids = loc[r].bids
    BY <1>1 DEF Blank
  <2> HIDE DEF l
  <2>4. RequestOK("gen_commit", l)
    BY <1>1, <2>3 DEF RequestOK, GenOK, Editing, Generating
  <2>5. LocOK'
    BY <2>1, <2>2, <2>4, GotoLoc DEF TypeInv, Labels
  <2> QED
    BY <1>4, <2>5 DEF TypeInv
<1> QED
  BY <1>1, <1>5, <1>6 DEF GenAllocate, GenAllocateGap, GenExplicit, GenOK, LastTrace

LEMMA GenCommitType ==
    ASSUME TypeInv, NEW r \in Request, GenCommit(r)
    PROVE  TypeInv'
<1> USE ConstantsAssumption
<1> DEFINE snap == loc[r].snap
           paid == DOMAIN snap
<1>1. GenOK(loc[r])
  BY DEF GenCommit, TypeInv, LocOK, RequestOK, Generating
<1>2. Cardinality(paid) \in Nat
  BY <1>1, SnapSize DEF GenOK
<1>3. PICK f \in File, pos \in Orders(snap) :
          LET trace(p) == TraceField(loc[r].first + pos[p])
          IN /\ nfile' = [nfile EXCEPT ![f] =
                   [status  |-> "generated",
                    entries |-> {[pay |-> p, amount |-> snap[p].amount, inv |-> snap[p].inv,
                                  trace |-> trace(p)] : p \in paid},
                    batches |-> loc[r].bids,
                    explicit |-> loc[r].start > 0]]
             /\ payment' = [p \in Payment |->
                   IF p \in paid THEN Paid(payment[p], f, trace(p)) ELSE payment[p]]
             /\ remit' = remit \cup {NewAdvice(snap, p, f, trace(p)) : p \in Advised(snap)}
  BY ZenonT(30) DEF GenCommit
<1>4. \A p \in paid : TraceField(loc[r].first + pos[p]) \in 0..MaxTrace
  <2>1. \A p \in paid : loc[r].first + pos[p] \in Nat
    BY <1>1, <1>2 DEF GenOK, Orders
  <2> QED
    BY <2>1, TraceFieldType
<1>5. /\ paid \subseteq Payment /\ loc[r].bids \subseteq Batch
      /\ \A p \in paid : snap[p].amount \in Amount /\ snap[p].inv \in Invoice
  BY <1>1 DEF GenOK
<1> DEFINE made == {[pay |-> p, amount |-> snap[p].amount, inv |-> snap[p].inv,
                     trace |-> TraceField(loc[r].first + pos[p])] : p \in paid}
<1>6. made \subseteq Entry
  BY <1>4, <1>5 DEF Entry
<1>7. nfile' \in [File -> [status : {"absent", "generated", "deleted"}, entries : SUBSET Entry,
                           batches : SUBSET Batch, explicit : BOOLEAN]]
  <2>1. nfile' = [nfile EXCEPT ![f] = [status |-> "generated", entries |-> made,
                                       batches |-> loc[r].bids, explicit |-> loc[r].start > 0]]
    BY <1>3
  <2> HIDE DEF made
  <2> QED
    BY <1>5, <1>6, <2>1 DEF TypeInv, TypeOK
<1>8. ASSUME NEW p \in Payment
      PROVE  /\ payment'[p] \in PaymentRow
             /\ payment'[p].amount = payment[p].amount /\ payment'[p].inv = payment[p].inv
  <2>1. payment[p] \in PaymentRow
    BY DEF TypeInv, TypeOK
  <2>2. CASE p \in paid
    <3>1. payment'[p] = [payment[p] EXCEPT !.file = f, !.status = "processing",
                                           !.trace = TraceField(loc[r].first + pos[p])]
      BY <1>3, <2>2 DEF Paid
    <3>2. TraceField(loc[r].first + pos[p]) \in 0..MaxTrace
      BY <1>4, <2>2
    <3> QED
      BY ZenonT(30), <2>1, <3>1, <3>2 DEF PaymentRow
  <2>3. CASE p \notin paid
    BY <1>3, <2>1, <2>3
  <2> QED
    BY <2>2, <2>3
<1>9. payment' \in [Payment -> PaymentRow]
  BY <1>3, <1>8
<1>10. paid \subseteq Stored
  BY DEF GenCommit
<1>11. Stored' \subseteq Stored
  BY <1>3, <1>10 DEF Stored, Paid
<1>12. remit' \subseteq Advice
  <2>1. \A p \in Advised(snap) :
           NewAdvice(snap, p, f, TraceField(loc[r].first + pos[p])) \in Advice
    BY <1>4, <1>5 DEF NewAdvice, Advised, Advice
  <2>2. remit \subseteq Advice
    BY DEF TypeInv, TypeOK
  <2> QED
    BY <1>3, <2>1, <2>2, Zenon
<1>13. batch' \in [Batch -> {"absent", "parsed", "partially_failed", "failed", "processed", "deleted"}]
  BY DEF GenCommit, TypeInv, TypeOK
<1>14. Finish(r) /\ UNCHANGED <<vendor, tally, issued, seq>>
  BY DEF GenCommit
<1>15. TypeOK'
  BY <1>7, <1>8, <1>9, <1>11, <1>12, <1>13, <1>14 DEF TypeInv, TypeOK, Stored
<1> QED
  BY <1>14, <1>15, FinishLoc DEF TypeInv

\* Each DELETE of clear-all is a read of what it dooms, until the commit.
LEMMA ClearReadType ==
    ASSUME TypeInv, NEW r \in Request,
           ClearRemittances(r) \/ ClearPayments(r) \/ ClearFiles(r)
    PROVE  TypeInv'
<1>1. UNCHANGED <<db, seq>>
  BY DEF ClearRemittances, ClearPayments, ClearFiles
<1>2. DOMAIN loc[r] = DOMAIN Blank
  BY DEF TypeInv, LocOK, RequestOK
<1>3. PICK label \in {"clr_payments", "clr_files", "clr_commit"} : Goto(r, label)
  BY DEF ClearRemittances, ClearPayments, ClearFiles
<1>4. \E x : \/ loc' = [loc EXCEPT ![r] = [Blank EXCEPT !.doomR = x]]
             \/ loc' = [loc EXCEPT ![r].doomP = x]
             \/ loc' = [loc EXCEPT ![r].doomF = x]
  BY Zenon DEF ClearRemittances, ClearPayments, ClearFiles
<1>5. PICK l : loc' = [loc EXCEPT ![r] = l] /\ DOMAIN l = DOMAIN Blank
  BY <1>2, <1>4 DEF Blank
<1>6. RequestOK(label, l) /\ label \in Labels
  BY <1>5 DEF RequestOK, Editing, Generating, Labels
<1>7. LocOK'
  BY <1>3, <1>5, <1>6, GotoLoc DEF TypeInv
<1> QED
  BY <1>1, <1>7, SameRowsType DEF TypeInv, TypeOK

LEMMA UnlinkedType ==
    ASSUME NEW row \in PaymentRow, NEW F, NEW B, NEW V
    PROVE  /\ [row EXCEPT !.file = NullIf(@, F), !.batch = NullIf(@, B)] \in PaymentRow
           /\ [row EXCEPT !.vendor = NullIf(@, V)] \in PaymentRow
<1>1. /\ NullIf(row.file, F) \in File \cup {None}
      /\ NullIf(row.batch, B) \in Batch \cup {None}
      /\ NullIf(row.vendor, V) \in Vendor \cup {None}
  BY DEF PaymentRow, NullIf
<1>2. [row EXCEPT !.file = NullIf(row.file, F), !.batch = NullIf(row.batch, B)] \in PaymentRow
  BY <1>1 DEF PaymentRow
<1>3. [row EXCEPT !.vendor = NullIf(row.vendor, V)] \in PaymentRow
  BY <1>1 DEF PaymentRow
<1> QED
  BY <1>2, <1>3

LEMMA ClearCommitType ==
    ASSUME TypeInv, NEW r \in Request, ClearCommit(r)
    PROVE  TypeInv'
<1> DEFINE doomP == loc[r].doomP
           doomF == loc[r].doomF
           doomB == {b \in Batch : Exists(b)}
<1>1. /\ payment' = [p \in Payment |->
              IF p \in doomP THEN [NoPayment EXCEPT !.status = "deleted"]
              ELSE [payment[p] EXCEPT !.file = NullIf(@, doomF), !.batch = NullIf(@, doomB)]]
      /\ nfile' = [f \in File |->
              IF f \in doomF THEN [nfile[f] EXCEPT !.status = "deleted"] ELSE nfile[f]]
      /\ batch' = [b \in Batch |-> IF b \in doomB THEN "deleted" ELSE batch[b]]
      /\ remit' = {[x EXCEPT !.pay = NullIf(@, doomP), !.file = NullIf(@, doomF)] :
                        x \in {y \in remit : y.id \notin loc[r].doomR}}
      /\ Finish(r)
      /\ UNCHANGED <<vendor, tally, issued, seq>>
  BY DEF ClearCommit
<1> HIDE DEF doomP, doomF, doomB
<1>2. payment' \in [Payment -> PaymentRow]
  <2>1. \A p \in Payment : payment'[p] \in PaymentRow
    BY <1>1, NoPaymentType, UnlinkedType DEF TypeInv, TypeOK
  <2> QED
    BY <1>1, <2>1
<1>3. \A p \in Stored' : payment'[p].amount \in Amount /\ payment'[p].inv \in Invoice
  <2> SUFFICES ASSUME NEW p \in Stored'
               PROVE  payment'[p].amount \in Amount /\ payment'[p].inv \in Invoice
    OBVIOUS
  <2>1. p \in Payment /\ p \notin doomP
    BY <1>1 DEF Stored, NoPayment
  <2>2. payment[p] \in PaymentRow
    BY <2>1 DEF TypeInv, TypeOK
  <2>3. /\ payment'[p].status = payment[p].status /\ payment'[p].amount = payment[p].amount
        /\ payment'[p].inv = payment[p].inv
    BY <1>1, <2>1, <2>2 DEF PaymentRow
  <2> QED
    BY <2>1, <2>3 DEF TypeInv, TypeOK, Stored
<1>4. nfile' \in [File -> [status : {"absent", "generated", "deleted"}, entries : SUBSET Entry,
                           batches : SUBSET Batch, explicit : BOOLEAN]]
  BY ZenonT(30), <1>1 DEF TypeInv, TypeOK
<1>5. batch' \in [Batch -> {"absent", "parsed", "partially_failed", "failed", "processed", "deleted"}]
  BY <1>1 DEF TypeInv, TypeOK
<1>6. remit' \subseteq Advice
  <2>1. \A x \in Advice : [x EXCEPT !.pay = NullIf(@, doomP), !.file = NullIf(@, doomF)] \in Advice
    BY ZenonT(30) DEF Advice, NullIf
  <2>2. remit \subseteq Advice
    BY DEF TypeInv, TypeOK
  <2> QED
    BY <1>1, <2>1, <2>2, Zenon
<1>7. TypeOK'
  BY <1>1, <1>2, <1>3, <1>4, <1>5, <1>6 DEF TypeInv, TypeOK
<1> QED
  BY <1>1, <1>7, FinishLoc DEF TypeInv

LEMMA DeleteVendorType ==
    ASSUME TypeInv, NEW v \in Vendor, DeleteVendor(v)
    PROVE  TypeInv'
<1>1. /\ vendor' = [vendor EXCEPT ![v] = "deleted"]
      /\ payment' = [p \in Payment |-> [payment[p] EXCEPT !.vendor = NullIf(@, {v})]]
      /\ UNCHANGED <<batch, tally, issued, nfile, remit, seq, pc, loc>>
  BY DEF DeleteVendor
<1>2. ASSUME NEW p \in Payment
      PROVE  /\ payment'[p] \in PaymentRow /\ payment'[p].status = payment[p].status
             /\ payment'[p].amount = payment[p].amount /\ payment'[p].inv = payment[p].inv
  <2>1. payment[p] \in PaymentRow
    BY DEF TypeInv, TypeOK
  <2>2. payment'[p] = [payment[p] EXCEPT !.vendor = NullIf(@, {v})]
    BY <1>1
  <2>3. payment'[p] \in PaymentRow
    BY ZenonT(30), <2>1, <2>2, UnlinkedType
  <2> QED
    BY <2>1, <2>2, <2>3 DEF PaymentRow
<1>3. payment' \in [Payment -> PaymentRow]
  BY <1>1, <1>2
<1>4. \A p \in Stored' : payment'[p].amount \in Amount /\ payment'[p].inv \in Invoice
  BY <1>2 DEF TypeInv, TypeOK, Stored
<1>5. TypeOK'
  BY <1>1, <1>3, <1>4 DEF TypeInv, TypeOK
<1>6. LocOK'
  BY <1>1 DEF TypeInv, LocOK
<1> QED
  BY <1>5, <1>6 DEF TypeInv

\* The steps that end a request and change nothing.
LEMMA EndType ==
    ASSUME TypeInv, NEW r \in Request,
           UploadForeignKeyError(r) \/ GenCommitError(r) \/ Abort(r)
    PROVE  TypeInv'
BY FailType DEF UploadForeignKeyError, GenCommitError, Abort

LEMMA NextType == TypeInv /\ [Next]_vars => TypeInv'
<1> SUFFICES ASSUME TypeInv, [Next]_vars PROVE TypeInv'
  OBVIOUS
<1>1. ASSUME NEW r \in Request, Start(r) PROVE TypeInv'
  BY <1>1, UploadReadType, EditReadType, GenReadType, ClearReadType DEF Start
<1>2. ASSUME NEW r \in Request, Step(r) PROVE TypeInv'
  BY <1>2, UploadCommitType, EditSumType, EditCommitType, GenVendorsType, GenAllocType,
     GenCommitType, ClearReadType, ClearCommitType, EndType DEF Step
<1>3. ASSUME NEW r \in Request, Abort(r) PROVE TypeInv'
  BY <1>3, EndType
<1>4. ASSUME NEW v \in Vendor, DeleteVendor(v) PROVE TypeInv'
  BY <1>4, DeleteVendorType
<1>5. CASE UNCHANGED vars
  BY <1>5 DEF vars, TypeInv, TypeOK, LocOK, Stored
<1> QED
  BY <1>1, <1>2, <1>3, <1>4, <1>5 DEF Next

\* Every stored row keeps its type, and what a handler has read keeps the
\* shape its later steps rely on, however the requests interleave.
THEOREM TypeCorrect == Spec => []TypeOK
<1>1. Spec => []TypeInv
  BY InitType, NextType, PTL DEF Spec
<1>2. TypeInv => TypeOK
  BY DEF TypeInv
<1> QED
  BY <1>1, <1>2, PTL

-----------------------------------------------------------------------------
(* What the commits write, column by column.                                *)

\* The payments an upload in flight will write.
Uploaded(r) == {p \in Payment : p - loc[r].base \in loc[r].kept}

LEMMA UploadWrites ==
    ASSUME TypeInv, NEW r \in Request, UploadCommit(r)
    PROVE  \E b \in Batch :
              /\ batch[b] = "absent" /\ batch'[b] \in {"parsed", "partially_failed", "failed"}
              /\ \A c \in Batch \ {b} : batch'[c] = batch[c]
              /\ payment' = [p \in Payment |-> IF p \in Uploaded(r)
                                THEN NewPayment(r, b, p - loc[r].base) ELSE payment[p]]
<1>1. PICK b \in Batch :
          /\ batch[b] = "absent"
          /\ batch' = [batch EXCEPT ![b] = BatchStatusOf(loc[r].kept, loc[r].sheet)]
          /\ payment' = [p \in Payment |-> IF p - loc[r].base \in loc[r].kept
                            THEN NewPayment(r, b, p - loc[r].base) ELSE payment[p]]
  BY Zenon DEF UploadCommit
<1>2. \A c \in Batch \ {b} : batch'[c] = batch[c]
  BY <1>1 DEF TypeInv, TypeOK
<1>3. batch'[b] \in {"parsed", "partially_failed", "failed"}
  BY <1>1 DEF BatchStatusOf, TypeInv, TypeOK
<1>4. payment' = [p \in Payment |-> IF p \in Uploaded(r)
                    THEN NewPayment(r, b, p - loc[r].base) ELSE payment[p]]
  BY <1>1 DEF Uploaded
<1> QED
  BY <1>1, <1>2, <1>3, <1>4

\* The columns of a new payment; its vendor is in the directory from then on.
LEMMA UploadRows ==
    ASSUME TypeInv, NEW r \in Request, UploadCommit(r), NEW b \in Batch, NEW p \in Uploaded(r)
    PROVE  LET i == p - loc[r].base
               new == NewPayment(r, b, i)
           IN  /\ i \in DOMAIN loc[r].sheet /\ loc[r].sheet[i] \in Row
               /\ new.status = "pending" /\ new.batch = b /\ new.file = None /\ new.trace = None
               /\ new.vendor = loc[r].sheet[i].vendor /\ new.amount = loc[r].sheet[i].amount
               /\ new.inv = loc[r].sheet[i].inv
               /\ new.fp = Fingerprint(new.vendor, new.amount, new.inv)
               /\ new.override = (i \in loc[r].marked) /\ new.vetted = (i \in loc[r].matched)
               /\ vendor'[new.vendor] = "live"
<1> DEFINE i == p - loc[r].base
           new == NewPayment(r, b, i)
<1>1. UploadOK(loc[r])
  BY DEF TypeInv, LocOK, RequestOK, UploadCommit
<1>2. i \in loc[r].kept /\ i \in DOMAIN loc[r].sheet /\ loc[r].sheet[i] \in Row
  BY <1>1 DEF Uploaded, UploadOK
<1>3. /\ new.status = "pending" /\ new.batch = b /\ new.file = None /\ new.trace = None
      /\ new.vendor = loc[r].sheet[i].vendor /\ new.amount = loc[r].sheet[i].amount
      /\ new.inv = loc[r].sheet[i].inv
      /\ new.fp = Fingerprint(new.vendor, new.amount, new.inv)
      /\ new.override = (i \in loc[r].marked) /\ new.vetted = (i \in loc[r].matched)
  BY DEF NewPayment
<1>4. vendor' = [v \in Vendor |->
              IF \E j \in loc[r].kept : loc[r].sheet[j].vendor = v THEN "live" ELSE vendor[v]]
  BY DEF UploadCommit
<1>5. vendor'[loc[r].sheet[i].vendor] = "live"
  BY <1>2, <1>4 DEF Row
<1> QED
  BY <1>2, <1>3, <1>5

LEMMA EditWrites ==
    ASSUME TypeInv, NEW r \in Request, EditCommit(r)
    PROVE  /\ UNCHANGED <<vendor, batch, issued, nfile, remit, seq>> /\ Finish(r)
           /\ \/ payment' = payment
              \/ /\ loc[r].row # loc[r].seen /\ loc[r].pay \in Stored
                 /\ payment' = [payment EXCEPT ![loc[r].pay] =
                                   Updated(payment[loc[r].pay], loc[r].row, loc[r].seen)]
BY DEF EditCommit, Fail, db

\* An edit writes four columns and leaves the others alone.
LEMMA EditRows ==
    ASSUME TypeInv, NEW r \in Request, EditCommit(r), NEW p \in Payment
    PROVE  /\ payment'[p].status = payment[p].status /\ payment'[p].batch = payment[p].batch
           /\ payment'[p].vendor = payment[p].vendor /\ payment'[p].file = payment[p].file
           /\ payment'[p].trace = payment[p].trace /\ payment'[p].override = payment[p].override
           /\ p # loc[r].pay => payment'[p] = payment[p]
<1>1. payment[p] \in PaymentRow /\ DOMAIN payment = Payment
  BY DEF TypeInv, TypeOK
<1>2. CASE payment' = payment
  BY <1>2
<1>3. CASE payment' = [payment EXCEPT ![loc[r].pay] =
                          Updated(payment[loc[r].pay], loc[r].row, loc[r].seen)]
  <2>1. CASE p # loc[r].pay
    BY <1>1, <1>3, <2>1
  <2>2. CASE p = loc[r].pay
    <3> DEFINE new == loc[r].row
               old == loc[r].seen
               a == Column(new.amount # old.amount, new.amount, payment[p].amount)
               i == Column(new.inv # old.inv, new.inv, payment[p].inv)
               fp == Column(new.fp # old.fp, new.fp, payment[p].fp)
               vetted == Column(new.fp # old.fp, FALSE, payment[p].vetted)
    <3>1. payment'[p] = Updated(payment[p], new, old)
      BY <1>1, <1>3, <2>2
    <3>2. payment'[p] = [payment[p] EXCEPT !.amount = a, !.inv = i, !.fp = fp, !.vetted = vetted]
      BY <3>1, Zenon DEF Updated
    <3> HIDE DEF a, i, fp, vetted
    <3> QED
      BY <1>1, <3>2, <2>2 DEF PaymentRow
  <2> QED
    BY <2>1, <2>2
<1> QED
  BY <1>2, <1>3, EditWrites

\* The file written, the payments in it and the advices about them; t[p] is the
\* trace number of payment p.
LEMMA GenWrites ==
    ASSUME TypeInv, NEW r \in Request, GenCommit(r)
    PROVE  \E f \in File, t \in [DOMAIN loc[r].snap -> 0..MaxTrace] :
              LET snap == loc[r].snap
              IN  /\ nfile[f].status = "absent"
                  /\ \A g \in File \ {f} : nfile'[g] = nfile[g]
                  /\ nfile'[f].status = "generated"
                  /\ nfile'[f].entries = {[pay |-> p, amount |-> snap[p].amount,
                                           inv |-> snap[p].inv, trace |-> t[p]] : p \in DOMAIN snap}
                  /\ nfile'[f].batches = loc[r].bids
                  /\ payment' = [p \in Payment |->
                        IF p \in DOMAIN snap THEN Paid(payment[p], f, t[p]) ELSE payment[p]]
                  /\ remit' = remit \cup {NewAdvice(snap, p, f, t[p]) : p \in Advised(snap)}
<1> DEFINE snap == loc[r].snap
<1>1. PICK f \in File, pos \in Orders(snap) :
              LET trace(p) == TraceField(loc[r].first + pos[p])
              IN  /\ nfile[f].status = "absent"
                  /\ nfile' = [nfile EXCEPT ![f] =
                        [status  |-> "generated",
                         entries |-> {[pay |-> p, amount |-> snap[p].amount, inv |-> snap[p].inv,
                                       trace |-> trace(p)] : p \in DOMAIN snap},
                         batches |-> loc[r].bids,
                         explicit |-> loc[r].start > 0]]
                  /\ payment' = [p \in Payment |->
                        IF p \in DOMAIN snap THEN Paid(payment[p], f, trace(p)) ELSE payment[p]]
                  /\ remit' = remit \cup {NewAdvice(snap, p, f, trace(p)) : p \in Advised(snap)}
  BY Zenon DEF GenCommit
<1>2. GenOK(loc[r])
  BY DEF GenCommit, TypeInv, LocOK, RequestOK, Generating
<1>3. Cardinality(DOMAIN snap) \in Nat
  BY <1>2, SnapSize DEF GenOK
<1>4. \A p \in DOMAIN snap : loc[r].first + pos[p] \in Nat
  BY <1>2, <1>3 DEF GenOK, Orders
<1>5. \A p \in DOMAIN snap : TraceField(loc[r].first + pos[p]) \in 0..MaxTrace
  BY <1>4, TraceFieldType
<1> DEFINE t == [p \in DOMAIN snap |-> TraceField(loc[r].first + pos[p])]
<1>6. t \in [DOMAIN snap -> 0..MaxTrace] /\ \A p \in DOMAIN snap : t[p] = TraceField(loc[r].first + pos[p])
  BY <1>5
<1> HIDE DEF t, snap
<1> DEFINE made == {[pay |-> p, amount |-> snap[p].amount, inv |-> snap[p].inv,
                     trace |-> TraceField(loc[r].first + pos[p])] : p \in DOMAIN snap}
<1>7. made = {[pay |-> p, amount |-> snap[p].amount, inv |-> snap[p].inv, trace |-> t[p]] : p \in DOMAIN snap}
  BY <1>6
<1>8. nfile' = [nfile EXCEPT ![f] = [status |-> "generated", entries |-> made,
                                     batches |-> loc[r].bids, explicit |-> loc[r].start > 0]]
  BY <1>1
<1> HIDE DEF made
<1>9. /\ nfile'[f].status = "generated" /\ nfile'[f].entries = made /\ nfile'[f].batches = loc[r].bids
      /\ \A g \in File \ {f} : nfile'[g] = nfile[g]
  BY <1>8 DEF TypeInv, TypeOK
<1>10. payment' = [p \in Payment |->
                IF p \in DOMAIN snap THEN Paid(payment[p], f, t[p]) ELSE payment[p]]
  BY <1>1, <1>6
<1>11. remit' = remit \cup {NewAdvice(snap, p, f, t[p]) : p \in Advised(snap)}
  <2>1. \A p \in Advised(snap) : TraceField(loc[r].first + pos[p]) = t[p]
    BY <1>6 DEF Advised
  <2> QED
    BY <1>1, <2>1, Zenon
<1>12. nfile[f].status = "absent"
  BY <1>1
<1> QED
  BY <1>6, <1>7, <1>9, <1>10, <1>11, <1>12 DEF snap

\* A payment that enters a file gets three columns, and keeps the others.
LEMMA PaidRow ==
    ASSUME NEW row \in PaymentRow, NEW f, NEW t
    PROVE  /\ Paid(row, f, t).status = "processing"
           /\ Paid(row, f, t).file = f /\ Paid(row, f, t).trace = t
           /\ Paid(row, f, t).batch = row.batch /\ Paid(row, f, t).vendor = row.vendor
           /\ Paid(row, f, t).amount = row.amount /\ Paid(row, f, t).inv = row.inv
           /\ Paid(row, f, t).fp = row.fp
           /\ Paid(row, f, t).vetted = row.vetted /\ Paid(row, f, t).override = row.override
BY DEF Paid, PaymentRow

LEMMA ClearRows ==
    ASSUME TypeInv, NEW r \in Request, ClearCommit(r), NEW p \in Payment
    PROVE  /\ p \in loc[r].doomP => /\ payment'[p].status = "deleted"
                                    /\ payment'[p].amount = None /\ payment'[p].file = None
           /\ p \notin loc[r].doomP =>
                 /\ payment'[p].status = payment[p].status /\ payment'[p].vendor = payment[p].vendor
                 /\ payment'[p].amount = payment[p].amount /\ payment'[p].inv = payment[p].inv
                 /\ payment'[p].fp = payment[p].fp /\ payment'[p].trace = payment[p].trace
                 /\ payment'[p].vetted = payment[p].vetted
                 /\ payment'[p].override = payment[p].override
                 /\ payment'[p].file = NullIf(payment[p].file, loc[r].doomF)
                 /\ payment'[p].batch = NullIf(payment[p].batch, {b \in Batch : Exists(b)})
<1>1. payment' = [q \in Payment |->
              IF q \in loc[r].doomP THEN [NoPayment EXCEPT !.status = "deleted"]
              ELSE [payment[q] EXCEPT !.file = NullIf(payment[q].file, loc[r].doomF),
                                      !.batch = NullIf(payment[q].batch, {b \in Batch : Exists(b)})]]
  BY DEF ClearCommit
<1>2. payment[p] \in PaymentRow
  BY DEF TypeInv, TypeOK
<1> QED
  BY <1>1, <1>2 DEF NoPayment, PaymentRow

LEMMA ClearFilesKept ==
    ASSUME TypeInv, NEW r \in Request, ClearCommit(r), NEW f \in File
    PROVE  /\ nfile'[f].entries = nfile[f].entries /\ nfile'[f].batches = nfile[f].batches
           /\ nfile'[f].explicit = nfile[f].explicit
           /\ f \notin loc[r].doomF => nfile'[f] = nfile[f]
           /\ f \in loc[r].doomF => nfile'[f].status = "deleted"
<1>1. nfile' = [g \in File |->
              IF g \in loc[r].doomF THEN [nfile[g] EXCEPT !.status = "deleted"] ELSE nfile[g]]
  BY DEF ClearCommit
<1> QED
  BY <1>1 DEF TypeInv, TypeOK

LEMMA DeleteVendorRows ==
    ASSUME TypeInv, NEW v \in Vendor, DeleteVendor(v), NEW p \in Payment
    PROVE  /\ payment'[p].status = payment[p].status /\ payment'[p].batch = payment[p].batch
           /\ payment'[p].amount = payment[p].amount /\ payment'[p].inv = payment[p].inv
           /\ payment'[p].fp = payment[p].fp /\ payment'[p].file = payment[p].file
           /\ payment'[p].trace = payment[p].trace /\ payment'[p].vetted = payment[p].vetted
           /\ payment'[p].override = payment[p].override
           /\ payment'[p].vendor = NullIf(payment[p].vendor, {v})
<1>1. payment' = [q \in Payment |-> [payment[q] EXCEPT !.vendor = NullIf(payment[q].vendor, {v})]]
  BY DEF DeleteVendor
<1>2. payment[p] \in PaymentRow
  BY DEF TypeInv, TypeOK
<1> QED
  BY <1>1, <1>2 DEF PaymentRow

\* Every other step leaves the rows alone.
LEMMA OtherSteps ==
    ASSUME [Next]_vars,
           \A r \in Request : ~UploadCommit(r) /\ ~EditCommit(r) /\ ~GenCommit(r) /\ ~ClearCommit(r),
           \A v \in Vendor : ~DeleteVendor(v)
    PROVE  UNCHANGED <<vendor, batch, payment, nfile, remit>>
<1>1. CASE UNCHANGED vars
  BY <1>1 DEF vars
<1>2. ASSUME NEW r \in Request, Start(r)
      PROVE  UNCHANGED <<vendor, batch, payment, nfile, remit>>
  BY <1>2 DEF Start, UploadRead, EditRead, GenRead, ClearRemittances, db
<1>3. ASSUME NEW r \in Request, Step(r)
      PROVE  UNCHANGED <<vendor, batch, payment, nfile, remit>>
  BY <1>3 DEF Step, UploadForeignKeyError, EditSiblings, EditBatch, GenVendors, GenAllocate,
     GenAllocateGap, GenExplicit, GenCommitError, ClearPayments, ClearFiles, Fail, db
<1>4. ASSUME NEW r \in Request, Abort(r)
      PROVE  UNCHANGED <<vendor, batch, payment, nfile, remit>>
  BY <1>4 DEF Abort, Fail, db
<1> QED
  BY <1>1, <1>2, <1>3, <1>4 DEF Next

-----------------------------------------------------------------------------
(* Where a step leaves the requests.                                        *)

LEMMA FinishMoves ==
    ASSUME TypeInv, NEW r \in Request, Finish(r)
    PROVE  /\ pc'[r] = "idle" /\ loc'[r] = Blank
           /\ \A q \in Request \ {r} : pc'[q] = pc[q] /\ loc'[q] = loc[q]
BY DEF Finish, TypeInv, LocOK

LEMMA GotoMoves ==
    ASSUME TypeInv, NEW r \in Request, NEW label, Goto(r, label)
    PROVE  pc'[r] = label /\ \A q \in Request \ {r} : pc'[q] = pc[q]
BY DEF Goto, TypeInv, LocOK

\* The commits, successful or not, and what ends a request.
LEMMA CommitsFinish ==
    ASSUME NEW r \in Request,
           \/ UploadCommit(r) \/ UploadForeignKeyError(r) \/ EditCommit(r)
           \/ GenCommit(r) \/ GenCommitError(r) \/ GenAllocateGap(r) \/ ClearCommit(r) \/ Abort(r)
    PROVE  Finish(r)
BY DEF UploadCommit, UploadForeignKeyError, EditCommit, GenCommit, GenCommitError, GenAllocateGap,
   ClearCommit, Abort, Fail

\* The first step of a request.
LEMMA StartMoves ==
    ASSUME TypeInv, NEW r \in Request, Start(r)
    PROVE  /\ UNCHANGED <<vendor, batch, tally, payment, nfile, remit, seq>>
           /\ pc[r] = "idle"
           /\ \A q \in Request \ {r} : pc'[q] = pc[q] /\ loc'[q] = loc[q]
           /\ pc'[r] \in {"up_commit", "ed_siblings", "gen_vendors", "clr_payments"}
           /\ pc'[r] = "up_commit" =>
                 \E sheet \in Sheets, manual, override \in BOOLEAN : UploadRead(r, sheet, manual, override)
           /\ pc'[r] = "ed_siblings" => \E p \in Payment, edit \in Edits : EditRead(r, p, edit)
           /\ pc'[r] = "gen_vendors" =>
                 \E bids \in SUBSET Batch \ {{}}, start \in Starts : GenRead(r, bids, start)
           /\ pc'[r] # "up_commit" => issued' = issued
<1>1. pc[r] = "idle" /\ \E l : loc' = [loc EXCEPT ![r] = l]
  BY ZenonT(30) DEF Start, Starting, UploadRead, EditRead, GenRead, ClearRemittances
<1>2. \A q \in Request \ {r} : loc'[q] = loc[q]
  BY <1>1 DEF TypeInv, LocOK
<1>3. UNCHANGED <<vendor, batch, tally, payment, nfile, remit, seq>>
  BY DEF Start, UploadRead, EditRead, GenRead, ClearRemittances, db
<1>4. CASE \E sheet \in Sheets, manual, override \in BOOLEAN : UploadRead(r, sheet, manual, override)
  <2>1. Goto(r, "up_commit")
    BY <1>4 DEF UploadRead
  <2> QED
    BY <1>1, <1>2, <1>3, <1>4, <2>1, GotoMoves
<1>5. CASE \E p \in Payment, edit \in Edits : EditRead(r, p, edit)
  <2>1. Goto(r, "ed_siblings") /\ issued' = issued
    BY <1>5 DEF EditRead, db
  <2> QED
    BY <1>1, <1>2, <1>3, <1>5, <2>1, GotoMoves
<1>6. CASE \E bids \in SUBSET Batch \ {{}}, start \in Starts : GenRead(r, bids, start)
  <2>1. Goto(r, "gen_vendors") /\ issued' = issued
    BY <1>6 DEF GenRead, db
  <2> QED
    BY <1>1, <1>2, <1>3, <1>6, <2>1, GotoMoves
<1>7. CASE ClearRemittances(r)
  <2>1. Goto(r, "clr_payments") /\ issued' = issued
    BY <1>7 DEF ClearRemittances, db
  <2> QED
    BY <1>1, <1>2, <1>3, <2>1, GotoMoves
<1> QED
  BY <1>4, <1>5, <1>6, <1>7 DEF Start

\* A generating request keeps its batches and its payments until it ends.
LEMMA GenMoves ==
    ASSUME TypeInv, NEW r \in Request, GenVendors(r) \/ GenAllocate(r) \/ GenExplicit(r)
    PROVE  /\ UNCHANGED db /\ pc[r] \in Generating
           /\ \A q \in Request \ {r} : pc'[q] = pc[q] /\ loc'[q] = loc[q]
           /\ \/ pc'[r] = "idle"
              \/ /\ pc'[r] \in Generating
                 /\ loc'[r].snap = loc[r].snap /\ loc'[r].bids = loc[r].bids
<1>1. UNCHANGED db /\ pc[r] \in Generating
  BY DEF GenVendors, GenAllocate, GenExplicit, Fail, Generating
<1>2. DOMAIN loc[r] = DOMAIN Blank
  BY DEF TypeInv, LocOK, RequestOK
<1>3. CASE Finish(r)
  BY <1>1, <1>3, FinishMoves
<1>4. CASE \E label \in Generating : Goto(r, label) /\ (loc' = loc \/ \E n : loc' = [loc EXCEPT ![r].first = n])
  <2>1. /\ loc'[r].snap = loc[r].snap /\ loc'[r].bids = loc[r].bids
        /\ \A q \in Request \ {r} : loc'[q] = loc[q]
    BY <1>2, <1>4 DEF TypeInv, LocOK, Blank
  <2> QED
    BY <1>1, <1>4, <2>1, GotoMoves
<1>5. Finish(r) \/ \E label \in Generating :
          Goto(r, label) /\ (loc' = loc \/ \E n : loc' = [loc EXCEPT ![r].first = n])
  BY DEF GenVendors, GenAllocate, GenExplicit, Fail, Generating
<1> QED
  BY <1>3, <1>4, <1>5

\* An edit keeps the payment it read and the row it made of it.
LEMMA EditMoves ==
    ASSUME TypeInv, NEW r \in Request, EditSiblings(r) \/ EditBatch(r)
    PROVE  /\ UNCHANGED db /\ pc[r] \in Editing /\ pc'[r] \in Editing
           /\ \A q \in Request \ {r} : pc'[q] = pc[q] /\ loc'[q] = loc[q]
           /\ loc'[r].pay = loc[r].pay /\ loc'[r].seen = loc[r].seen /\ loc'[r].row = loc[r].row
<1>1. UNCHANGED db /\ pc[r] \in Editing
  BY DEF EditSiblings, EditBatch, Editing
<1>2. DOMAIN loc[r] = DOMAIN Blank
  BY DEF TypeInv, LocOK, RequestOK
<1>3. \E x : loc' = [loc EXCEPT ![r].sum = x] \/ loc' = [loc EXCEPT ![r].bseen = x]
  BY Zenon DEF EditSiblings, EditBatch
<1>4. /\ loc'[r].pay = loc[r].pay /\ loc'[r].seen = loc[r].seen /\ loc'[r].row = loc[r].row
      /\ \A q \in Request \ {r} : loc'[q] = loc[q]
  BY <1>2, <1>3 DEF TypeInv, LocOK, Blank
<1>5. PICK label \in Editing : Goto(r, label)
  BY DEF EditSiblings, EditBatch, Editing
<1> QED
  BY <1>1, <1>4, <1>5, GotoMoves

LEMMA ClearMoves ==
    ASSUME TypeInv, NEW r \in Request, ClearPayments(r) \/ ClearFiles(r)
    PROVE  /\ UNCHANGED db /\ pc'[r] \in {"clr_files", "clr_commit"}
           /\ \A q \in Request \ {r} : pc'[q] = pc[q] /\ loc'[q] = loc[q]
           /\ ClearPayments(r) => pc'[r] = "clr_files" /\ loc'[r].doomP = Stored
           /\ ClearFiles(r) =>
                 /\ pc[r] = "clr_files" /\ loc'[r].doomP = loc[r].doomP
                 /\ loc'[r].doomF = {f \in File : nfile[f].status = "generated"}
<1>1. DOMAIN loc[r] = DOMAIN Blank
  BY DEF TypeInv, LocOK, RequestOK
<1>2. CASE ClearPayments(r)
  <2>1. loc' = [loc EXCEPT ![r].doomP = Stored] /\ Goto(r, "clr_files") /\ UNCHANGED db
    BY <1>2 DEF ClearPayments
  <2>2. loc'[r].doomP = Stored /\ \A q \in Request \ {r} : loc'[q] = loc[q]
    BY <1>1, <2>1 DEF TypeInv, LocOK, Blank
  <2>3. ~ClearFiles(r)
    BY <1>2 DEF ClearPayments, ClearFiles
  <2> QED
    BY <2>1, <2>2, <2>3, GotoMoves
<1>3. CASE ClearFiles(r)
  <2>1. /\ loc' = [loc EXCEPT ![r].doomF = {f \in File : nfile[f].status = "generated"}]
        /\ Goto(r, "clr_commit") /\ UNCHANGED db /\ pc[r] = "clr_files"
    BY <1>3 DEF ClearFiles
  <2>2. /\ loc'[r].doomF = {f \in File : nfile[f].status = "generated"}
        /\ loc'[r].doomP = loc[r].doomP /\ \A q \in Request \ {r} : loc'[q] = loc[q]
    BY <1>1, <2>1 DEF TypeInv, LocOK, Blank
  <2>3. ~ClearPayments(r)
    BY <1>3 DEF ClearPayments, ClearFiles
  <2> QED
    BY <2>1, <2>2, <2>3, GotoMoves
<1> QED
  BY <1>2, <1>3

\* The ways to end without a commit.
LEMMA QuietEnds ==
    ASSUME NEW r \in Request,
           \/ UploadForeignKeyError(r) \/ GenCommitError(r) \/ GenAllocateGap(r) \/ Abort(r)
    PROVE  Finish(r) /\ UNCHANGED db
BY DEF UploadForeignKeyError, GenCommitError, GenAllocateGap, Abort, Fail

-----------------------------------------------------------------------------
(* Trace numbers.                                                           *)

\* A request that has drawn its numbers and not yet committed them.
Holds(r) == pc[r] = "gen_commit" /\ loc[r].start = 0

Run(r) == loc[r].first..(loc[r].first + Cardinality(DOMAIN loc[r].snap) - 1)

\* The numbers in files and the numbers reserved are below the sequence, and
\* no two of those sets meet.
Reserved ==
    /\ \A r \in Request : Holds(r) => Run(r) \subseteq 1..seq /\ Run(r) \subseteq 1..MaxTrace
    /\ \A q, r \in Request : q # r /\ Holds(q) /\ Holds(r) => Run(q) \cap Run(r) = {}

Written ==
    \A f \in File : ~nfile[f].explicit =>
        \A e \in nfile[f].entries :
            /\ e.trace \in 1..seq
            /\ \A r \in Request : Holds(r) => e.trace \notin Run(r)

TraceInv == Reserved /\ Written /\ SequenceTracesUnique

\* A step after which no file has another entry and no request other numbers.
LEMMA KeepTraces ==
    ASSUME TypeInv, TraceInv,
           seq' = seq,
           \A f \in File : /\ nfile'[f].entries = nfile[f].entries
                           /\ nfile'[f].explicit = nfile[f].explicit,
           \A q \in Request : Holds(q)' => Holds(q) /\ Run(q)' = Run(q)
    PROVE  TraceInv'
<1>1. Reserved'
  BY DEF TraceInv, Reserved
<1>2. Written'
  BY DEF TraceInv, Written
<1>3. SequenceTracesUnique'
  BY DEF TraceInv, SequenceTracesUnique
<1> QED
  BY <1>1, <1>2, <1>3 DEF TraceInv

LEMMA GotoKeeps ==
    ASSUME TypeInv, NEW r \in Request, NEW label, label # "gen_commit", Goto(r, label),
           \A q \in Request \ {r} : loc'[q] = loc[q]
    PROVE  \A q \in Request : Holds(q)' => Holds(q) /\ Run(q)' = Run(q)
BY DEF TypeInv, LocOK, Goto, Holds, Run

LEMMA FinishKeeps ==
    ASSUME TypeInv, NEW r \in Request, Finish(r)
    PROVE  \A q \in Request : Holds(q)' => Holds(q) /\ Run(q)' = Run(q)
BY DEF TypeInv, LocOK, Finish, Holds, Run

\* Every step but those that take numbers and those that write files.
LEMMA QuietTraces ==
    ASSUME TypeInv, TraceInv, NEW r \in Request,
           UNCHANGED <<nfile, seq>>,
           \/ Finish(r)
           \/ \E label \in Labels \ {"gen_commit"} :
                 Goto(r, label) /\ \A q \in Request \ {r} : loc'[q] = loc[q]
    PROVE  TraceInv'
<1>1. \A q \in Request : Holds(q)' => Holds(q) /\ Run(q)' = Run(q)
  BY FinishKeeps, GotoKeeps
<1> QED
  BY <1>1, KeepTraces

LEMMA AllocateTraces ==
    ASSUME TypeInv, TraceInv, NEW r \in Request, GenAllocate(r)
    PROVE  TraceInv'
<1> DEFINE n == Cardinality(DOMAIN loc[r].snap)
<1>1. GenOK(loc[r]) /\ DOMAIN loc[r] = DOMAIN Blank /\ seq \in Nat
  BY DEF GenAllocate, TypeInv, TypeOK, LocOK, RequestOK, Generating
<1>2. n \in Nat
  BY <1>1, SnapSize DEF GenOK
<1>3. seq' = seq + n /\ nfile' = nfile
  BY DEF GenAllocate, LastTrace, db
<1>4. \A q \in Request \ {r} : Holds(q)' => Holds(q) /\ Run(q)' = Run(q)
  BY DEF GenAllocate, Finish, Goto, TypeInv, LocOK, Holds, Run
<1>5. Holds(r)' => Run(r)' = (seq + 1)..(seq + n) /\ seq + n <= MaxTrace
  <2>1. CASE seq + n > MaxTrace
    <3>1. pc'[r] = "idle"
      BY <2>1, <1>3 DEF GenAllocate, LastTrace, Finish, TypeInv, LocOK
    <3> QED
      BY <3>1 DEF Holds
  <2>2. CASE ~(seq + n > MaxTrace)
    <3>1. loc'[r] = [loc[r] EXCEPT !.first = seq + 1]
      BY <2>2 DEF GenAllocate, LastTrace, TypeInv, LocOK
    <3>2. loc'[r].first = seq + 1 /\ loc'[r].snap = loc[r].snap
      BY <1>1, <3>1 DEF Blank
    <3>3. seq + n <= MaxTrace /\ (seq + 1) + n - 1 = seq + n
      BY <1>1, <1>2, <2>2, ConstantsAssumption
    <3> QED
      BY <3>2, <3>3 DEF Run
  <2> QED
    BY <2>1, <2>2
<1> HIDE DEF n
<1>6. Reserved'
  <2>1. ASSUME NEW q \in Request, Holds(q)'
        PROVE  Run(q)' \subseteq 1..seq' /\ Run(q)' \subseteq 1..MaxTrace
    <3>1. CASE q = r
      BY <2>1, <3>1, <1>1, <1>2, <1>3, <1>5, ConstantsAssumption
    <3>2. CASE q # r
      BY <2>1, <3>2, <1>1, <1>2, <1>3, <1>4 DEF TraceInv, Reserved
    <3> QED
      BY <3>1, <3>2
  <2>2. ASSUME NEW q \in Request, q # r, Holds(q)', Holds(r)'
        PROVE  Run(q)' \cap Run(r)' = {}
    <3>1. Run(q)' \subseteq 1..seq
      BY <2>2, <1>4 DEF TraceInv, Reserved
    <3> QED
      BY <3>1, <2>2, <1>1, <1>2, <1>5
  <2>3. ASSUME NEW p \in Request \ {r}, NEW q \in Request \ {r}, p # q, Holds(p)', Holds(q)'
        PROVE  Run(p)' \cap Run(q)' = {}
    BY <2>3, <1>4 DEF TraceInv, Reserved
  <2> QED
    BY <2>1, <2>2, <2>3 DEF Reserved
<1>7. Written'
  <2> SUFFICES ASSUME NEW f \in File, ~nfile[f].explicit, NEW e \in nfile[f].entries
               PROVE  e.trace \in 1..seq' /\ \A q \in Request : Holds(q)' => e.trace \notin Run(q)'
    BY <1>3 DEF Written
  <2>1. e.trace \in 1..seq /\ \A q \in Request : Holds(q) => e.trace \notin Run(q)
    BY DEF TraceInv, Written
  <2>2. e.trace \in 1..seq'
    BY <2>1, <1>1, <1>2, <1>3
  <2>3. Holds(r)' => e.trace \notin Run(r)'
    BY <2>1, <1>1, <1>2, <1>5
  <2> QED
    BY <2>1, <2>2, <2>3, <1>4
<1>8. SequenceTracesUnique'
  BY <1>3 DEF TraceInv, SequenceTracesUnique
<1> QED
  BY <1>6, <1>7, <1>8 DEF TraceInv

\* Numbers lost to a gap, or not taken from the sequence.
LEMMA GapTraces ==
    ASSUME TypeInv, TraceInv, NEW r \in Request, GenAllocateGap(r) \/ GenExplicit(r)
    PROVE  TraceInv'
<1>1. /\ GenOK(loc[r]) /\ DOMAIN loc[r] = DOMAIN Blank /\ seq \in Nat
  BY DEF GenAllocateGap, GenExplicit, TypeInv, TypeOK, LocOK, RequestOK, Generating
<1>2. Cardinality(DOMAIN loc[r].snap) \in Nat
  BY <1>1, SnapSize DEF GenOK
<1>3. nfile' = nfile /\ seq' \in Nat /\ seq' >= seq
  BY <1>1, <1>2 DEF GenAllocateGap, GenExplicit, db
<1>4. \A q \in Request : Holds(q)' => Holds(q) /\ Run(q)' = Run(q)
  <2>1. CASE GenAllocateGap(r)
    BY <2>1, FinishKeeps DEF GenAllocateGap
  <2>2. CASE GenExplicit(r)
    <3>1. loc'[r] = [loc[r] EXCEPT !.first = loc[r].start]
      BY <2>2 DEF GenExplicit, TypeInv, LocOK
    <3>2. loc'[r].start # 0
      BY <2>2, <3>1, <1>1 DEF Blank, GenExplicit
    <3>3. \A q \in Request \ {r} : pc'[q] = pc[q] /\ loc'[q] = loc[q]
      BY <2>2 DEF GenExplicit, Goto, TypeInv, LocOK
    <3> QED
      BY <3>2, <3>3 DEF Holds, Run
  <2> QED
    BY <2>1, <2>2
<1>5. 1..seq \subseteq 1..seq'
  BY <1>1, <1>3
<1>6. Reserved'
  BY <1>4, <1>5 DEF TraceInv, Reserved
<1>7. Written'
  BY <1>3, <1>4, <1>5 DEF TraceInv, Written
<1>8. SequenceTracesUnique'
  BY <1>3 DEF TraceInv, SequenceTracesUnique
<1> QED
  BY <1>6, <1>7, <1>8 DEF TraceInv

\* The file written takes its numbers from the run of its request, one each.
LEMMA CommitTraces ==
    ASSUME TypeInv, TraceInv, NEW r \in Request, GenCommit(r)
    PROVE  TraceInv'
<1> DEFINE snap == loc[r].snap
           paid == DOMAIN snap
           n    == Cardinality(paid)
<1>1. GenOK(loc[r]) /\ seq \in Nat
  BY DEF GenCommit, TypeInv, TypeOK, LocOK, RequestOK, Generating
<1>2. n \in Nat
  BY <1>1, SnapSize DEF GenOK
<1>3. PICK f \in File, pos \in Orders(snap) :
          nfile' = [nfile EXCEPT ![f] =
                   [status  |-> "generated",
                    entries |-> {[pay |-> p, amount |-> snap[p].amount, inv |-> snap[p].inv,
                                  trace |-> TraceField(loc[r].first + pos[p])] : p \in paid},
                    batches |-> loc[r].bids,
                    explicit |-> loc[r].start > 0]]
  BY Zenon DEF GenCommit
<1> DEFINE entry(p) == [pay |-> p, amount |-> snap[p].amount, inv |-> snap[p].inv,
                        trace |-> TraceField(loc[r].first + pos[p])]
<1>4. /\ nfile'[f].entries = {entry(p) : p \in paid}
      /\ nfile'[f].explicit = (loc[r].start > 0)
      /\ \A g \in File \ {f} : nfile'[g] = nfile[g]
  BY <1>3 DEF TypeInv, TypeOK
<1>5. seq' = seq /\ Finish(r)
  BY DEF GenCommit
<1>6. pc'[r] = "idle" /\ \A q \in Request \ {r} : pc'[q] = pc[q] /\ loc'[q] = loc[q]
  BY <1>5 DEF Finish, TypeInv, LocOK
<1>7. \A q \in Request : Holds(q)' => q # r /\ Holds(q) /\ Run(q)' = Run(q)
  BY <1>6 DEF Holds, Run
<1>8. pc[r] = "gen_commit"
  BY DEF GenCommit
<1>9. Reserved'
  BY <1>5, <1>7 DEF TraceInv, Reserved
<1>10. ASSUME ~(loc[r].start > 0)
       PROVE  /\ Holds(r) /\ Run(r) \subseteq 1..seq
              /\ \A p \in paid : loc[r].first + pos[p] \in Run(r)
              /\ \A p \in paid : entry(p).trace = loc[r].first + pos[p]
  <2>1. Holds(r)
    BY <1>1, <1>8, <1>10 DEF Holds, GenOK
  <2>2. Run(r) \subseteq 1..seq /\ Run(r) \subseteq 1..MaxTrace
    BY <2>1 DEF TraceInv, Reserved
  <2>3. \A p \in paid : loc[r].first + pos[p] \in Run(r)
    <3> SUFFICES ASSUME NEW p \in paid PROVE loc[r].first + pos[p] \in Run(r)
      OBVIOUS
    <3>1. pos[p] \in 0..(n - 1)
      BY DEF Orders
    <3> QED
      BY <3>1, <1>1, <1>2 DEF Run, GenOK
  <2>4. \A p \in paid : TraceField(loc[r].first + pos[p]) = loc[r].first + pos[p]
    <3> SUFFICES ASSUME NEW p \in paid
                 PROVE  TraceField(loc[r].first + pos[p]) = loc[r].first + pos[p]
      OBVIOUS
    <3>1. loc[r].first + pos[p] \in 0..MaxTrace
      BY <2>2, <2>3, ConstantsAssumption
    <3> QED
      BY <3>1, TraceFieldIdentity
  <2> QED
    BY <2>1, <2>2, <2>3, <2>4
<1>11. \A d \in nfile'[f].entries : \E p \in paid : d = entry(p)
  BY <1>4
<1> HIDE DEF entry
<1>12. Written'
  <2> SUFFICES ASSUME NEW g \in File, ~nfile'[g].explicit, NEW e \in nfile'[g].entries
               PROVE  e.trace \in 1..seq /\ \A q \in Request : Holds(q)' => e.trace \notin Run(q)'
    BY <1>5 DEF Written
  <2>1. CASE g # f
    BY <2>1, <1>4, <1>7 DEF TraceInv, Written
  <2>2. CASE g = f
    <3>1. Holds(r) /\ Run(r) \subseteq 1..seq /\ e.trace \in Run(r)
      BY <2>2, <1>4, <1>10, <1>11
    <3> QED
      BY <3>1, <1>7 DEF TraceInv, Reserved
  <2> QED
    BY <2>1, <2>2
<1>13. SequenceTracesUnique'
  <2>1. ASSUME ~nfile'[f].explicit, NEW d \in nfile'[f].entries, NEW e \in nfile'[f].entries,
               d.trace = e.trace
        PROVE  d = e
    <3>1. PICK p \in paid, q \in paid : d = entry(p) /\ e = entry(q)
      BY <1>11
    <3>2. loc[r].first + pos[p] = loc[r].first + pos[q]
      BY <2>1, <3>1, <1>4, <1>10
    <3>3. pos[p] \in 0..(n - 1) /\ pos[q] \in 0..(n - 1)
      BY DEF Orders
    <3>4. pos[p] = pos[q]
      BY <3>2, <3>3, <1>1, <1>2 DEF GenOK
    <3>5. p = q
      BY <3>4 DEF Orders
    <3> QED
      BY <3>1, <3>5
  <2>2. ASSUME NEW g \in File \ {f}, ~nfile'[f].explicit, ~nfile'[g].explicit,
               NEW d \in nfile'[f].entries, NEW e \in nfile'[g].entries
        PROVE  d.trace # e.trace
    <3>1. Holds(r) /\ d.trace \in Run(r)
      BY <2>2, <1>4, <1>10, <1>11
    <3>2. e.trace \notin Run(r)
      BY <2>2, <3>1, <1>4 DEF TraceInv, Written
    <3> QED
      BY <3>1, <3>2
  <2>3. ASSUME NEW g \in File \ {f}, NEW h \in File \ {f},
               ~nfile'[g].explicit, ~nfile'[h].explicit,
               NEW d \in nfile'[g].entries, NEW e \in nfile'[h].entries, d.trace = e.trace
        PROVE  g = h /\ d = e
    BY <2>3, <1>4 DEF TraceInv, SequenceTracesUnique
  <2> QED
    BY <2>1, <2>2, <2>3 DEF SequenceTracesUnique
<1> QED
  BY <1>9, <1>12, <1>13 DEF TraceInv

\* clear-all deletes the rows of files; the numbers they used stay used.
LEMMA ClearTraces ==
    ASSUME TypeInv, TraceInv, NEW r \in Request, ClearCommit(r)
    PROVE  TraceInv'
<1>1. \A f \in File : /\ nfile'[f].entries = nfile[f].entries
                      /\ nfile'[f].explicit = nfile[f].explicit
  <2>1. nfile' = [f \in File |->
           IF f \in loc[r].doomF THEN [nfile[f] EXCEPT !.status = "deleted"] ELSE nfile[f]]
    BY DEF ClearCommit
  <2> QED
    BY <2>1 DEF TypeInv, TypeOK
<1>2. seq' = seq /\ Finish(r)
  BY DEF ClearCommit
<1> QED
  BY <1>1, <1>2, FinishKeeps, KeepTraces

LEMMA NextTraces == TypeInv /\ TraceInv /\ [Next]_vars => TraceInv'
<1> SUFFICES ASSUME TypeInv, TraceInv, [Next]_vars PROVE TraceInv'
  OBVIOUS
<1>1. ASSUME NEW r \in Request, Start(r) \/ Step(r) \/ Abort(r) PROVE TraceInv'
  <2>1. CASE \/ UploadCommit(r) \/ UploadForeignKeyError(r) \/ EditCommit(r)
             \/ GenCommitError(r) \/ Abort(r)
    <3>1. Finish(r) /\ UNCHANGED <<nfile, seq>>
      BY <2>1 DEF UploadCommit, UploadForeignKeyError, EditCommit, GenCommitError, Abort, Fail, db
    <3> QED
      BY <3>1, QuietTraces
  <2>2. CASE Start(r) \/ EditSiblings(r) \/ EditBatch(r) \/ ClearPayments(r) \/ ClearFiles(r)
    <3>1. UNCHANGED <<nfile, seq>>
      BY <2>2 DEF Start, UploadRead, EditRead, GenRead, ClearRemittances, EditSiblings, EditBatch,
         ClearPayments, ClearFiles, db
    <3>2. \E label \in Labels \ {"gen_commit"} : Goto(r, label)
      BY <2>2 DEF Start, UploadRead, EditRead, GenRead, ClearRemittances, EditSiblings, EditBatch,
         ClearPayments, ClearFiles, Labels
    <3>3. \A q \in Request \ {r} : loc'[q] = loc[q]
      BY ZenonT(30), <2>2 DEF Start, UploadRead, EditRead, GenRead, ClearRemittances, EditSiblings, EditBatch,
         ClearPayments, ClearFiles, TypeInv, LocOK
    <3> QED
      BY <3>1, <3>2, <3>3, QuietTraces
  <2>3. CASE GenVendors(r)
    <3>1. UNCHANGED <<nfile, seq>>
      BY <2>3 DEF GenVendors, Fail, db
    <3>2. Finish(r) \/ (Goto(r, "gen_alloc") /\ \A q \in Request \ {r} : loc'[q] = loc[q])
      BY <2>3 DEF GenVendors, Fail
    <3> QED
      BY <3>1, <3>2, QuietTraces DEF Labels
  <2>4. CASE GenAllocate(r)
    BY <2>4, AllocateTraces
  <2>5. CASE GenAllocateGap(r) \/ GenExplicit(r)
    BY <2>5, GapTraces
  <2>6. CASE GenCommit(r)
    BY <2>6, CommitTraces
  <2>7. CASE ClearCommit(r)
    BY <2>7, ClearTraces
  <2> QED
    BY <1>1, <2>1, <2>2, <2>3, <2>4, <2>5, <2>6, <2>7 DEF Step
<1>2. ASSUME NEW v \in Vendor, DeleteVendor(v) PROVE TraceInv'
  BY <1>2, KeepTraces DEF DeleteVendor, Holds, Run
<1>3. CASE UNCHANGED vars
  BY <1>3, KeepTraces DEF vars, Holds, Run
<1> QED
  BY <1>1, <1>2, <1>3 DEF Next

\* Among the files numbered from the sequence no trace number appears twice, in
\* one file or in two, whatever requests run at the same time, fail, or are
\* followed by a clear-all (combine_batches_and_generate_nacha).
THEOREM SequenceTracesUniqueHolds == Spec => []SequenceTracesUnique
<1>1. Init => TraceInv
  BY DEF Init, TraceInv, Reserved, Written, SequenceTracesUnique, NoFile, Holds
<1>2. Spec => [](TypeInv /\ TraceInv)
  BY <1>1, InitType, NextType, NextTraces, PTL DEF Spec
<1>3. TraceInv => SequenceTracesUnique
  BY DEF TraceInv
<1> QED
  BY <1>2, <1>3, PTL

-----------------------------------------------------------------------------
(* References between rows.                                                 *)

LEMMA UploadReferences ==
    ASSUME TypeInv, ReferencesLive, NEW r \in Request, UploadCommit(r)
    PROVE  ReferencesLive'
<1>1. PICK b \in Batch :
          /\ batch[b] = "absent" /\ batch'[b] \in {"parsed", "partially_failed", "failed"}
          /\ \A c \in Batch \ {b} : batch'[c] = batch[c]
          /\ payment' = [p \in Payment |-> IF p \in Uploaded(r)
                            THEN NewPayment(r, b, p - loc[r].base) ELSE payment[p]]
  BY UploadWrites
<1>2. /\ vendor' = [v \in Vendor |->
              IF \E i \in loc[r].kept : loc[r].sheet[i].vendor = v THEN "live" ELSE vendor[v]]
      /\ UNCHANGED <<nfile, remit>>
  BY DEF UploadCommit
<1>3. \A c \in Batch : Exists(c) => Exists(c)'
  BY <1>1 DEF Exists, Open
<1>4. \A p \in Payment : p \notin Uploaded(r) => payment'[p] = payment[p]
  BY <1>1
<1>5. \A p \in Uploaded(r) : /\ payment'[p].status = "pending" /\ payment'[p].batch = b
                             /\ payment'[p].file = None /\ vendor'[payment'[p].vendor] = "live"
  BY <1>1, UploadRows DEF Uploaded
<1>6. ASSUME NEW p \in Stored'
      PROVE  /\ payment'[p].vendor # None => vendor'[payment'[p].vendor] = "live"
             /\ payment'[p].batch # None => Exists(payment[p].batch)'
             /\ payment'[p].file # None => nfile'[payment'[p].file].status = "generated"
  <2>1. p \in Payment
    BY DEF Stored
  <2>2. CASE p \in Uploaded(r)
    BY <1>1, <1>5, <2>2 DEF Exists, Open
  <2>3. CASE p \notin Uploaded(r)
    <3>1. payment'[p] = payment[p] /\ p \in Stored /\ payment[p] \in PaymentRow
      BY <1>4, <2>1, <2>3 DEF Stored, TypeInv, TypeOK
    <3>2. payment[p].batch \in Batch \cup {None} /\ payment[p].vendor \in Vendor \cup {None}
      BY <3>1 DEF PaymentRow
    <3> QED
      BY <1>2, <1>3, <3>1, <3>2 DEF ReferencesLive
  <2> QED
    BY <2>2, <2>3
<1>7. Stored \subseteq Stored'
  BY <1>4, <1>5 DEF Stored
<1> QED
  BY <1>2, <1>6, <1>7 DEF ReferencesLive

LEMMA EditReferences ==
    ASSUME TypeInv, ReferencesLive, NEW r \in Request, EditCommit(r)
    PROVE  ReferencesLive'
<1>1. UNCHANGED <<vendor, batch, nfile, remit>>
  BY EditWrites
<1>2. \A p \in Payment :
         /\ payment'[p].status = payment[p].status /\ payment'[p].batch = payment[p].batch
         /\ payment'[p].vendor = payment[p].vendor /\ payment'[p].file = payment[p].file
  BY EditRows
<1> QED
  BY <1>1, <1>2 DEF ReferencesLive, Stored, Exists, Open

LEMMA GenReferences ==
    ASSUME TypeInv, ReferencesLive, NEW r \in Request, GenCommit(r)
    PROVE  ReferencesLive'
<1> DEFINE snap == loc[r].snap
<1>1. PICK f \in File, t \in [DOMAIN snap -> 0..MaxTrace] :
          /\ nfile[f].status = "absent" /\ nfile'[f].status = "generated"
          /\ \A g \in File \ {f} : nfile'[g] = nfile[g]
          /\ payment' = [p \in Payment |->
                IF p \in DOMAIN snap THEN Paid(payment[p], f, t[p]) ELSE payment[p]]
          /\ remit' = remit \cup {NewAdvice(snap, p, f, t[p]) : p \in Advised(snap)}
  BY GenWrites
<1>2. vendor' = vendor /\ DOMAIN snap \subseteq Stored /\ \A b \in Batch : Exists(b) => Exists(b)'
  BY DEF GenCommit, Exists, Open
<1>3. \A g \in File : nfile[g].status = "generated" => nfile'[g].status = "generated"
  BY <1>1
<1>4. ASSUME NEW p \in Payment
      PROVE  /\ payment'[p].batch = payment[p].batch /\ payment'[p].vendor = payment[p].vendor
             /\ p \in Stored <=> p \in Stored'
             /\ payment'[p].file \in {f, payment[p].file}
  <2>1. payment[p] \in PaymentRow
    BY DEF TypeInv, TypeOK
  <2>2. payment'[p] = IF p \in DOMAIN snap THEN Paid(payment[p], f, t[p]) ELSE payment[p]
    BY <1>1
  <2> QED
    BY <1>2, <2>1, <2>2, PaidRow DEF Stored
<1>5. ASSUME NEW p \in Stored'
      PROVE  /\ payment'[p].vendor # None => vendor'[payment'[p].vendor] = "live"
             /\ payment'[p].batch # None => Exists(payment[p].batch)'
             /\ payment'[p].file # None => nfile'[payment'[p].file].status = "generated"
  <2>1. p \in Payment /\ p \in Stored /\ payment[p] \in PaymentRow
    BY <1>4 DEF Stored, TypeInv, TypeOK
  <2>2. payment[p].batch \in Batch \cup {None} /\ payment[p].file \in File \cup {None}
    BY <2>1 DEF PaymentRow
  <2> QED
    BY <1>1, <1>2, <1>3, <1>4, <2>1, <2>2 DEF ReferencesLive
<1>6. ASSUME NEW x \in remit'
      PROVE  /\ x.pay # None => x.pay \in Stored'
             /\ x.file # None => nfile'[x.file].status = "generated"
  <2>1. CASE x \in remit
    <3>1. x \in Advice
      BY <2>1 DEF TypeInv, TypeOK
    <3>2. x.pay \in Payment \cup {None} /\ x.file \in File \cup {None}
      BY <3>1 DEF Advice
    <3> QED
      BY <1>3, <1>4, <2>1, <3>2 DEF ReferencesLive
  <2>2. CASE x \notin remit
    <3>1. PICK p \in Advised(snap) : x = NewAdvice(snap, p, f, t[p])
      BY <1>1, <2>2
    <3>2. x.pay = p /\ x.file = f /\ p \in Stored /\ p \in Payment
      BY <1>2, <3>1 DEF NewAdvice, Advised, Stored
    <3> QED
      BY <1>1, <1>4, <3>2
  <2> QED
    BY <2>1, <2>2
<1> QED
  BY <1>5, <1>6 DEF ReferencesLive

\* The rows clear-all did not see are those written since; their references to
\* what it deletes go with it.
LEMMA ClearReferences ==
    ASSUME TypeInv, ReferencesLive, NEW r \in Request, ClearCommit(r)
    PROVE  ReferencesLive'
<1> DEFINE doomP == loc[r].doomP
           doomF == loc[r].doomF
           doomB == {b \in Batch : Exists(b)}
<1>1. /\ vendor' = vendor
      /\ remit' = {[x EXCEPT !.pay = NullIf(x.pay, doomP), !.file = NullIf(x.file, doomF)] :
                        x \in {y \in remit : y.id \notin loc[r].doomR}}
  BY DEF ClearCommit
<1>2. \A f \in File : f \notin doomF => nfile'[f] = nfile[f]
  BY ClearFilesKept
<1> HIDE DEF doomP, doomF, doomB
<1>3. ASSUME NEW p \in Stored'
      PROVE  /\ payment'[p].vendor # None => vendor'[payment'[p].vendor] = "live"
             /\ payment'[p].batch # None => Exists(payment[p].batch)'
             /\ payment'[p].file # None => nfile'[payment'[p].file].status = "generated"
  <2>1. p \in Payment /\ payment[p] \in PaymentRow /\ p \notin doomP
    BY ClearRows DEF Stored, TypeInv, TypeOK, doomP
  <2>2. /\ payment'[p].status = payment[p].status /\ payment'[p].vendor = payment[p].vendor
        /\ payment'[p].file = NullIf(payment[p].file, doomF)
        /\ payment'[p].batch = NullIf(payment[p].batch, doomB)
    BY <2>1, ClearRows DEF doomP, doomF, doomB
  <2>3. p \in Stored
    BY <2>1, <2>2 DEF Stored
  <2>4. payment[p].batch # None => payment[p].batch \in doomB
    BY <2>1, <2>3 DEF ReferencesLive, PaymentRow, doomB
  <2>5. payment[p].file \in File \cup {None}
    BY <2>1 DEF PaymentRow
  <2> QED
    BY ZenonT(30), <1>1, <1>2, <2>2, <2>3, <2>4, <2>5 DEF ReferencesLive, NullIf
<1>4. ASSUME NEW x \in remit'
      PROVE  /\ x.pay # None => x.pay \in Stored'
             /\ x.file # None => nfile'[x.file].status = "generated"
  <2>1. PICK y \in remit :
            x = [y EXCEPT !.pay = NullIf(y.pay, doomP), !.file = NullIf(y.file, doomF)]
    BY <1>1
  <2>2. y \in Advice
    BY DEF TypeInv, TypeOK
  <2>3. /\ x.pay = NullIf(y.pay, doomP) /\ x.file = NullIf(y.file, doomF)
        /\ y.pay \in Payment \cup {None} /\ y.file \in File \cup {None}
    BY <2>1, <2>2 DEF Advice
  <2>4. ASSUME x.pay # None PROVE x.pay \in Stored'
    <3>1. x.pay = y.pay /\ y.pay \notin doomP /\ y.pay \in Payment /\ y.pay \in Stored
      BY <2>3, <2>4 DEF ReferencesLive, NullIf
    <3>2. payment'[y.pay].status = payment[y.pay].status
      BY <3>1, ClearRows DEF doomP
    <3> QED
      BY <3>1, <3>2 DEF Stored
  <2>5. ASSUME x.file # None PROVE nfile'[x.file].status = "generated"
    BY <1>2, <2>3, <2>5 DEF ReferencesLive, NullIf
  <2> QED
    BY <2>4, <2>5
<1> QED
  BY <1>3, <1>4 DEF ReferencesLive

LEMMA DeleteVendorReferences ==
    ASSUME TypeInv, ReferencesLive, NEW v \in Vendor, DeleteVendor(v)
    PROVE  ReferencesLive'
<1>1. /\ vendor' = [vendor EXCEPT ![v] = "deleted"]
      /\ UNCHANGED <<batch, nfile, remit>>
  BY DEF DeleteVendor
<1>2. \A p \in Payment :
         /\ payment'[p].status = payment[p].status /\ payment'[p].batch = payment[p].batch
         /\ payment'[p].file = payment[p].file
         /\ payment'[p].vendor = NullIf(payment[p].vendor, {v})
  BY DeleteVendorRows
<1>3. \A w \in Vendor \ {v} : vendor'[w] = vendor[w]
  BY <1>1 DEF TypeInv, TypeOK
<1>4. \A p \in Payment : payment[p].vendor \in Vendor \cup {None}
  BY DEF TypeInv, TypeOK, PaymentRow
<1> QED
  BY <1>1, <1>2, <1>3, <1>4 DEF ReferencesLive, Stored, Exists, Open, NullIf

LEMMA NextReferences == TypeInv /\ ReferencesLive /\ [Next]_vars => ReferencesLive'
<1> SUFFICES ASSUME TypeInv, ReferencesLive, [Next]_vars PROVE ReferencesLive'
  OBVIOUS
<1>1. CASE \E r \in Request : UploadCommit(r) \/ EditCommit(r) \/ GenCommit(r) \/ ClearCommit(r)
  BY <1>1, UploadReferences, EditReferences, GenReferences, ClearReferences
<1>2. CASE \E v \in Vendor : DeleteVendor(v)
  BY <1>2, DeleteVendorReferences
<1>3. CASE UNCHANGED <<vendor, batch, payment, nfile, remit>>
  BY <1>3 DEF ReferencesLive, Stored, Exists, Open
<1> QED
  BY <1>1, <1>2, <1>3, OtherSteps

\* No stored payment refers to a vendor, a batch or a file that is gone, and no
\* advice to a payment or a file that is: the deletions undo the references
\* written while they ran (delete_single_vendor, clear_all_payment_history).
THEOREM ReferencesLiveHolds == Spec => []ReferencesLive
<1>1. Init => ReferencesLive
  BY DEF Init, ReferencesLive, Stored, NoPayment
<1>2. Spec => [](TypeInv /\ ReferencesLive)
  BY <1>1, InitType, NextType, NextReferences, PTL DEF Spec
<1> QED
  BY <1>2, PTL

-----------------------------------------------------------------------------
(* Links between payments, entries of files and advices.                    *)

\* A file not yet written holds nothing: no link can point into it.
FilesStartEmpty ==
    \A f \in File : nfile[f].status = "absent" => nfile[f].entries = {} /\ nfile[f].batches = {}

LinkInv == FilesStartEmpty /\ LinksConsistent /\ AdviceAgreesWithFile

\* A step that writes no file and no advice, and no link of a stored payment.
LEMMA KeepLinks ==
    ASSUME TypeInv, LinkInv, UNCHANGED <<nfile, remit>>,
           \A p \in Stored' :
              \/ /\ p \in Stored /\ payment'[p].status = payment[p].status
                 /\ payment'[p].trace = payment[p].trace /\ payment'[p].file = payment[p].file
              \/ payment'[p].status = "pending" /\ payment'[p].trace = None /\ payment'[p].file = None
    PROVE  LinkInv'
<1>1. FilesStartEmpty' /\ AdviceAgreesWithFile'
  BY DEF LinkInv, FilesStartEmpty, AdviceAgreesWithFile
<1>2. LinksConsistent'
  BY DEF LinkInv, LinksConsistent
<1> QED
  BY <1>1, <1>2 DEF LinkInv

LEMMA GenLinks ==
    ASSUME TypeInv, LinkInv, NEW r \in Request, GenCommit(r)
    PROVE  LinkInv'
<1> DEFINE snap == loc[r].snap
<1>1. PICK f \in File, t \in [DOMAIN snap -> 0..MaxTrace] :
          /\ nfile[f].status = "absent" /\ nfile'[f].status = "generated"
          /\ nfile'[f].entries = {[pay |-> p, amount |-> snap[p].amount,
                                   inv |-> snap[p].inv, trace |-> t[p]] : p \in DOMAIN snap}
          /\ \A g \in File \ {f} : nfile'[g] = nfile[g]
          /\ payment' = [p \in Payment |->
                IF p \in DOMAIN snap THEN Paid(payment[p], f, t[p]) ELSE payment[p]]
          /\ remit' = remit \cup {NewAdvice(snap, p, f, t[p]) : p \in Advised(snap)}
  BY GenWrites
<1> DEFINE entry(p) == [pay |-> p, amount |-> snap[p].amount, inv |-> snap[p].inv, trace |-> t[p]]
<1>2. \A p \in DOMAIN snap : entry(p) \in nfile'[f].entries
  BY <1>1
<1>3. nfile[f].entries = {}
  BY <1>1 DEF LinkInv, FilesStartEmpty
<1>4. \A p \in DOMAIN snap : t[p] \in 0..MaxTrace /\ t[p] # None
  BY ConstantsAssumption
<1>5. FilesStartEmpty'
  BY <1>1 DEF LinkInv, FilesStartEmpty
<1>6. LinksConsistent'
  <2> SUFFICES ASSUME NEW p \in Stored'
               PROVE  /\ payment'[p].status = "processing" <=> payment'[p].trace # None
                      /\ payment'[p].file # None =>
                            \E e \in nfile'[payment'[p].file].entries :
                                e.pay = p /\ e.trace = payment'[p].trace
    BY DEF LinksConsistent
  <2>1. p \in Payment /\ payment[p] \in PaymentRow
    BY DEF Stored, TypeInv, TypeOK
  <2>2. CASE p \in DOMAIN snap
    <3>1. /\ payment'[p].status = "processing" /\ payment'[p].file = f
          /\ payment'[p].trace = t[p]
      BY <1>1, <2>1, <2>2, PaidRow
    <3>2. entry(p).pay = p /\ entry(p).trace = t[p]
      OBVIOUS
    <3> QED
      BY <1>2, <1>4, <2>2, <3>1, <3>2
  <2>3. CASE p \notin DOMAIN snap
    <3>1. payment'[p] = payment[p] /\ p \in Stored
      BY <1>1, <2>1, <2>3 DEF Stored
    <3>2. payment[p].file # None => payment[p].file \in File \ {f}
      BY <1>3, <2>1, <3>1 DEF LinkInv, LinksConsistent, PaymentRow
    <3>3. payment[p].file # None => nfile'[payment[p].file] = nfile[payment[p].file]
      BY <1>1, <3>2
    <3>4. /\ payment[p].status = "processing" <=> payment[p].trace # None
          /\ payment[p].file # None =>
                \E e \in nfile[payment[p].file].entries : e.pay = p /\ e.trace = payment[p].trace
      BY <3>1, Zenon DEF LinkInv, LinksConsistent
    <3> QED
      BY <3>1, <3>3, <3>4
  <2> QED
    BY <2>2, <2>3
<1>7. AdviceAgreesWithFile'
  <2> SUFFICES ASSUME NEW x \in remit'
               PROVE  \E e \in nfile'[x.id[2]].entries :
                         e.pay = x.id[1] /\ e.amount = x.amount /\ e.inv = x.inv /\ e.trace = x.trace
    BY DEF AdviceAgreesWithFile
  <2>1. CASE x \in remit
    <3>1. x \in Advice
      BY <2>1 DEF TypeInv, TypeOK
    <3>2. x.id[2] \in File \ {f}
      BY <1>3, <2>1, <3>1 DEF LinkInv, AdviceAgreesWithFile, Advice
    <3> QED
      BY <1>1, <2>1, <3>2 DEF LinkInv, AdviceAgreesWithFile
  <2>2. CASE x \notin remit
    <3>1. PICK p \in Advised(snap) : x = NewAdvice(snap, p, f, t[p])
      BY <1>1, <2>2
    <3>2. /\ x.id[1] = p /\ x.id[2] = f /\ x.amount = snap[p].amount /\ x.inv = snap[p].inv
          /\ x.trace = t[p] /\ p \in DOMAIN snap
      BY <3>1 DEF NewAdvice, Advised
    <3>3. /\ entry(p).pay = p /\ entry(p).amount = snap[p].amount /\ entry(p).inv = snap[p].inv
          /\ entry(p).trace = t[p]
      OBVIOUS
    <3> QED
      BY <1>2, <3>2, <3>3
  <2> QED
    BY <2>1, <2>2
<1> QED
  BY <1>5, <1>6, <1>7 DEF LinkInv

\* clear-all keeps the text of the files it deletes, and breaks no link it leaves.
LEMMA ClearLinks ==
    ASSUME TypeInv, LinkInv, NEW r \in Request, ClearCommit(r)
    PROVE  LinkInv'
<1> DEFINE doomP == loc[r].doomP
           doomF == loc[r].doomF
<1>1. \A f \in File : nfile'[f].entries = nfile[f].entries
  BY ClearFilesKept
<1>2. FilesStartEmpty'
  BY ClearFilesKept DEF LinkInv, FilesStartEmpty
<1>3. LinksConsistent'
  <2> SUFFICES ASSUME NEW p \in Stored'
               PROVE  /\ payment'[p].status = "processing" <=> payment'[p].trace # None
                      /\ payment'[p].file # None =>
                            \E e \in nfile'[payment'[p].file].entries :
                                e.pay = p /\ e.trace = payment'[p].trace
    BY DEF LinksConsistent
  <2>1. p \in Payment /\ payment[p] \in PaymentRow /\ p \notin doomP
    BY ClearRows DEF Stored, TypeInv, TypeOK
  <2>2. /\ payment'[p].status = payment[p].status /\ payment'[p].trace = payment[p].trace
        /\ payment'[p].file = NullIf(payment[p].file, doomF)
    BY <2>1, ClearRows
  <2>3. p \in Stored /\ payment[p].file \in File \cup {None}
    BY <2>1, <2>2 DEF Stored, PaymentRow
  <2> QED
    BY <1>1, <2>2, <2>3 DEF LinkInv, LinksConsistent, NullIf
<1>4. AdviceAgreesWithFile'
  <2> SUFFICES ASSUME NEW x \in remit'
               PROVE  \E e \in nfile'[x.id[2]].entries :
                         e.pay = x.id[1] /\ e.amount = x.amount /\ e.inv = x.inv /\ e.trace = x.trace
    BY DEF AdviceAgreesWithFile
  <2>1. PICK y \in remit : x = [y EXCEPT !.pay = NullIf(y.pay, doomP), !.file = NullIf(y.file, doomF)]
    BY DEF ClearCommit
  <2>2. y \in Advice
    BY DEF TypeInv, TypeOK
  <2>3. /\ x.id = y.id /\ x.amount = y.amount /\ x.inv = y.inv /\ x.trace = y.trace
        /\ y.id[2] \in File
    BY <2>1, <2>2 DEF Advice
  <2> QED
    BY <1>1, <2>3 DEF LinkInv, AdviceAgreesWithFile
<1> QED
  BY <1>2, <1>3, <1>4 DEF LinkInv

LEMMA NextLinks == TypeInv /\ LinkInv /\ [Next]_vars => LinkInv'
<1> SUFFICES ASSUME TypeInv, LinkInv, [Next]_vars PROVE LinkInv'
  OBVIOUS
<1>1. ASSUME NEW r \in Request, UploadCommit(r) PROVE LinkInv'
  <2>1. PICK b \in Batch : payment' = [p \in Payment |-> IF p \in Uploaded(r)
                              THEN NewPayment(r, b, p - loc[r].base) ELSE payment[p]]
    BY <1>1, UploadWrites
  <2>2. \A p \in Uploaded(r) : payment'[p].status = "pending" /\ payment'[p].trace = None
                               /\ payment'[p].file = None
    BY <1>1, <2>1, UploadRows DEF Uploaded
  <2>3. \A p \in Payment : p \notin Uploaded(r) => payment'[p] = payment[p]
    BY <2>1
  <2>4. UNCHANGED <<nfile, remit>>
    BY <1>1 DEF UploadCommit
  <2> QED
    BY <2>2, <2>3, <2>4, KeepLinks DEF Stored
<1>2. ASSUME NEW r \in Request, EditCommit(r) PROVE LinkInv'
  <2>1. \A p \in Payment : /\ payment'[p].status = payment[p].status
                           /\ payment'[p].trace = payment[p].trace
                           /\ payment'[p].file = payment[p].file
    BY <1>2, EditRows
  <2>2. UNCHANGED <<nfile, remit>>
    BY <1>2, EditWrites
  <2> QED
    BY <2>1, <2>2, KeepLinks DEF Stored
<1>3. ASSUME NEW v \in Vendor, DeleteVendor(v) PROVE LinkInv'
  <2>1. \A p \in Payment : /\ payment'[p].status = payment[p].status
                           /\ payment'[p].trace = payment[p].trace
                           /\ payment'[p].file = payment[p].file
    BY <1>3, DeleteVendorRows
  <2>2. UNCHANGED <<nfile, remit>>
    BY <1>3 DEF DeleteVendor
  <2> QED
    BY <2>1, <2>2, KeepLinks DEF Stored
<1>4. CASE UNCHANGED <<vendor, batch, payment, nfile, remit>>
  BY <1>4, KeepLinks DEF Stored
<1> QED
  BY <1>1, <1>2, <1>3, <1>4, GenLinks, ClearLinks, OtherSteps

LEMMA LinkInvHolds == Spec => []LinkInv
<1>1. Init => LinkInv
  BY DEF Init, LinkInv, FilesStartEmpty, LinksConsistent, AdviceAgreesWithFile, Stored,
     NoPayment, NoFile
<1>2. Spec => [](TypeInv /\ LinkInv)
  BY <1>1, InitType, NextType, NextLinks, PTL DEF Spec
<1> QED
  BY <1>2, PTL

\* A payment is PROCESSING exactly when it has a trace number, and the file it
\* refers to has its entry with that number, whatever requests race
\* (combine_batches_and_generate_nacha, update_payment_item, clear-all).
THEOREM LinksConsistentHolds == Spec => []LinksConsistent
<1>1. LinkInv => LinksConsistent
  BY DEF LinkInv
<1> QED
  BY <1>1, LinkInvHolds, PTL

\* What a vendor was advised of is what the file says of it, although payment
\* and file may have changed or gone since the request read them.
THEOREM AdviceAgreesWithFileHolds == Spec => []AdviceAgreesWithFile
<1>1. LinkInv => AdviceAgreesWithFile
  BY DEF LinkInv
<1> QED
  BY <1>1, LinkInvHolds, PTL

-----------------------------------------------------------------------------
(* Batches that close.                                                      *)

\* The identifiers an upload in flight has been handed are nobody else's.
Rows(r) == (loc[r].base + 1)..(loc[r].base + Len(loc[r].sheet))

Fresh ==
    /\ \A p \in Payment : payment[p].status # "absent" => p <= issued
    /\ \A r \in Request : pc[r] = "up_commit" =>
          Rows(r) \subseteq 1..issued /\ \A p \in Rows(r) : payment[p].status = "absent"
    /\ \A q, r \in Request :
          q # r /\ pc[q] = "up_commit" /\ pc[r] = "up_commit" => Rows(q) \cap Rows(r) = {}

\* A generating request holds all the payments of its batches, and no others.
Snapped ==
    \A r \in Request : pc[r] \in Generating =>
        /\ \A b \in loc[r].bids : batch[b] # "absent"
        /\ \A p \in DOMAIN loc[r].snap :
              /\ payment[p].status # "absent"
              /\ p \in Stored => payment[p].batch \in loc[r].bids \cup {None}
        /\ \A p \in Stored : payment[p].batch \in loc[r].bids => p \in DOMAIN loc[r].snap

\* What a clear-all has deleted, and not yet committed, was there.
Doomed ==
    \A r \in Request : pc[r] \in {"clr_files", "clr_commit"} =>
        \A p \in loc[r].doomP : p \in Payment /\ payment[p].status # "absent"

\* An identifier is used once: no row goes back to what it was before.
LEMMA NeverAbsentAgain ==
    ASSUME TypeInv, [Next]_vars
    PROVE  /\ \A p \in Payment : payment[p].status # "absent" => payment'[p].status # "absent"
           /\ \A b \in Batch : batch[b] # "absent" => batch'[b] # "absent"
<1>1. ASSUME NEW r \in Request, UploadCommit(r)
      PROVE  /\ \A p \in Payment : payment[p].status # "absent" => payment'[p].status # "absent"
             /\ \A b \in Batch : batch[b] # "absent" => batch'[b] # "absent"
  <2>1. PICK b \in Batch :
          /\ batch[b] = "absent" /\ \A c \in Batch \ {b} : batch'[c] = batch[c]
          /\ payment' = [p \in Payment |-> IF p \in Uploaded(r)
                            THEN NewPayment(r, b, p - loc[r].base) ELSE payment[p]]
    BY <1>1, UploadWrites
  <2>2. \A p \in Uploaded(r) : payment'[p].status # "absent"
    BY <1>1, <2>1, UploadRows DEF Uploaded
  <2>3. \A p \in Payment : p \notin Uploaded(r) => payment'[p] = payment[p]
    BY <2>1
  <2> QED
    BY <2>1, <2>2, <2>3
<1>2. ASSUME NEW r \in Request, EditCommit(r)
      PROVE  batch' = batch /\ \A p \in Payment : payment'[p].status = payment[p].status
  BY <1>2, EditWrites, EditRows
<1>3. ASSUME NEW r \in Request, GenCommit(r)
      PROVE  /\ \A p \in Payment : payment[p].status # "absent" => payment'[p].status # "absent"
             /\ \A b \in Batch : batch[b] # "absent" => batch'[b] # "absent"
  <2>1. PICK f \in File, t \in [DOMAIN loc[r].snap -> 0..MaxTrace] :
           payment' = [p \in Payment |->
               IF p \in DOMAIN loc[r].snap THEN Paid(payment[p], f, t[p]) ELSE payment[p]]
    BY <1>3, GenWrites
  <2>2. \A p \in Payment : payment'[p].status \in {payment[p].status, "processing"}
    BY <2>1, PaidRow DEF TypeInv, TypeOK
  <2> QED
    BY <1>3, <2>2 DEF GenCommit
<1>4. ASSUME NEW r \in Request, ClearCommit(r)
      PROVE  /\ \A p \in Payment : payment[p].status # "absent" => payment'[p].status # "absent"
             /\ \A b \in Batch : batch[b] # "absent" => batch'[b] # "absent"
  <2>1. \A p \in Payment : payment'[p].status \in {payment[p].status, "deleted"}
    BY <1>4, ClearRows
  <2>2. batch' = [b \in Batch |-> IF b \in {c \in Batch : Exists(c)} THEN "deleted" ELSE batch[b]]
    BY <1>4 DEF ClearCommit
  <2> QED
    BY <2>1, <2>2
<1>5. ASSUME NEW v \in Vendor, DeleteVendor(v)
      PROVE  batch' = batch /\ \A p \in Payment : payment'[p].status = payment[p].status
  BY <1>5, DeleteVendorRows DEF DeleteVendor
<1> QED
  BY <1>1, <1>2, <1>3, <1>4, <1>5, OtherSteps

LEMMA NextDoomed == TypeInv /\ Doomed /\ [Next]_vars => Doomed'
<1> SUFFICES ASSUME TypeInv, Doomed, [Next]_vars PROVE Doomed'
  OBVIOUS
<1> DEFINE Stays(q) == pc'[q] \in {"clr_files", "clr_commit"} =>
                          \/ loc'[q].doomP = Stored
                          \/ /\ pc[q] \in {"clr_files", "clr_commit"}
                             /\ loc'[q].doomP = loc[q].doomP
<1>1. ASSUME NEW r \in Request, Start(r) \/ Step(r) \/ Abort(r)
      PROVE  \A q \in Request : Stays(q)
  <2>1. CASE Finish(r)
    BY <2>1, FinishMoves
  <2>2. CASE Start(r)
    BY <2>2, StartMoves
  <2>3. CASE EditSiblings(r) \/ EditBatch(r)
    BY <2>3, EditMoves DEF Editing
  <2>4. CASE GenVendors(r) \/ GenAllocate(r) \/ GenExplicit(r)
    BY <2>4, GenMoves DEF Generating
  <2>5. CASE ClearPayments(r) \/ ClearFiles(r)
    BY <2>5, ClearMoves
  <2> QED
    BY <1>1, <2>1, <2>2, <2>3, <2>4, <2>5, CommitsFinish DEF Step
<1>2. CASE \E v \in Vendor : DeleteVendor(v)
  <2>1. \A q \in Request : Stays(q)
    BY <1>2 DEF DeleteVendor
  <2> QED
    BY <2>1, NeverAbsentAgain DEF Doomed, Stored
<1>3. CASE UNCHANGED vars
  BY <1>3 DEF vars, Doomed
<1>4. CASE \E r \in Request : Start(r) \/ Step(r) \/ Abort(r)
  BY <1>1, <1>4, NeverAbsentAgain DEF Doomed, Stored
<1> QED
  BY <1>2, <1>3, <1>4 DEF Next

LEMMA UploadedFresh ==
    ASSUME TypeInv, Fresh, NEW r \in Request, pc[r] = "up_commit", NEW p \in Uploaded(r)
    PROVE  p \in Rows(r) /\ payment[p].status = "absent"
<1>1. UploadOK(loc[r])
  BY DEF TypeInv, LocOK, RequestOK
<1>2. loc[r].base \in Nat /\ Len(loc[r].sheet) \in Nat /\ p - loc[r].base \in 1..Len(loc[r].sheet)
  BY <1>1 DEF UploadOK, Uploaded
<1>3. p \in Int
  BY ConstantsAssumption DEF Uploaded, Payment
<1>4. p \in Rows(r)
  BY <1>2, <1>3 DEF Rows
<1> QED
  BY <1>4 DEF Fresh

LEMMA KeepFresh ==
    ASSUME TypeInv, Fresh, issued' = issued,
           \A p \in Payment : payment'[p].status # "absent" => payment[p].status # "absent",
           \A q \in Request : pc'[q] = "up_commit" => pc[q] = "up_commit" /\ loc'[q] = loc[q]
    PROVE  Fresh'
<1>1. \A q \in Request : pc'[q] = "up_commit" => Rows(q)' = Rows(q)
  BY DEF Rows
<1>2. 1..issued \subseteq Payment
  BY ConstantsAssumption DEF TypeInv, TypeOK, Payment
<1> QED
  BY <1>1, <1>2 DEF Fresh

LEMMA UploadReadFresh ==
    ASSUME TypeInv, Fresh, NEW r \in Request, NEW sheet \in Sheets,
           NEW manual \in BOOLEAN, NEW override \in BOOLEAN,
           UploadRead(r, sheet, manual, override),
           \A q \in Request \ {r} : pc'[q] = pc[q] /\ loc'[q] = loc[q]
    PROVE  Fresh'
<1>1. sheet \in Seq(Row) /\ Len(sheet) \in Nat /\ issued \in Nat
  BY ConstantsAssumption DEF TypeInv, TypeOK
<1>2. issued' = issued + Len(sheet) /\ payment' = payment
  BY DEF UploadRead
<1>3. loc'[r].base = issued /\ loc'[r].sheet = sheet
  <2>1. PICK kept, marked, matched : loc' = [loc EXCEPT ![r] = [Blank EXCEPT !.base = issued,
            !.sheet = sheet, !.matched = matched, !.kept = kept, !.marked = marked]]
    BY Zenon DEF UploadRead
  <2> QED
    BY <2>1 DEF TypeInv, LocOK, Blank
<1>4. Rows(r)' = (issued + 1)..issued'
  BY <1>2, <1>3 DEF Rows
<1>5. \A q \in Request \ {r} : pc'[q] = "up_commit" => pc[q] = "up_commit" /\ Rows(q)' = Rows(q)
  BY DEF Rows
<1>6. \A p \in Rows(r)' : payment'[p].status = "absent"
  <2> SUFFICES ASSUME NEW p \in Rows(r)' PROVE payment[p].status = "absent"
    BY <1>2
  <2>1. issued' <= MaxPayment
    BY <1>2 DEF UploadRead
  <2>2. p \in Payment /\ ~(p <= issued)
    BY <1>1, <1>2, <1>4, <2>1, ConstantsAssumption DEF Payment
  <2> QED
    BY <2>2 DEF Fresh
<1>7. \A p \in Payment : payment'[p].status # "absent" => p <= issued'
  BY <1>1, <1>2, ConstantsAssumption DEF Fresh, Payment
<1>8. \A q \in Request : pc'[q] = "up_commit" =>
          Rows(q)' \subseteq 1..issued' /\ \A p \in Rows(q)' : payment'[p].status = "absent"
  <2>1. Rows(r)' \subseteq 1..issued'
    BY <1>1, <1>2, <1>4
  <2>2. 1..issued \subseteq 1..issued'
    BY <1>1, <1>2
  <2> QED
    BY <1>2, <1>5, <1>6, <2>1, <2>2 DEF Fresh
<1>9. ASSUME NEW q \in Request \ {r}, pc'[q] = "up_commit"
      PROVE  Rows(q)' \cap Rows(r)' = {}
  <2>1. Rows(q)' \subseteq 1..issued
    BY <1>5, <1>9 DEF Fresh
  <2> QED
    BY <1>1, <1>4, <2>1
<1>10. \A p, q \in Request :
          p # q /\ pc'[p] = "up_commit" /\ pc'[q] = "up_commit" => Rows(p)' \cap Rows(q)' = {}
  BY <1>5, <1>9 DEF Fresh
<1> QED
  BY <1>7, <1>8, <1>10 DEF Fresh

LEMMA UploadCommitFresh ==
    ASSUME TypeInv, Fresh, NEW r \in Request, UploadCommit(r)
    PROVE  Fresh'
<1>1. PICK b \in Batch : payment' = [p \in Payment |-> IF p \in Uploaded(r)
                            THEN NewPayment(r, b, p - loc[r].base) ELSE payment[p]]
  BY UploadWrites
<1>2. \A p \in Payment : p \notin Uploaded(r) => payment'[p] = payment[p]
  BY <1>1
<1>3. pc[r] = "up_commit" /\ issued' = issued /\ Finish(r)
  BY DEF UploadCommit
<1>4. \A q \in Request : pc'[q] = "up_commit" => q # r /\ pc[q] = "up_commit" /\ Rows(q)' = Rows(q)
  BY <1>3, FinishMoves DEF Rows
<1>5. Rows(r) \subseteq 1..issued /\ 1..issued \subseteq Payment /\ Uploaded(r) \subseteq Rows(r)
  BY <1>3, UploadedFresh, ConstantsAssumption DEF Fresh, TypeInv, TypeOK, Payment
<1>6. \A p \in Payment : payment'[p].status # "absent" => p <= issued
  BY <1>2, <1>5 DEF Fresh
<1>7. ASSUME NEW q \in Request, pc'[q] = "up_commit"
      PROVE  Rows(q)' \subseteq 1..issued /\ \A p \in Rows(q)' : payment'[p].status = "absent"
  <2>1. Rows(q)' = Rows(q) /\ Rows(q) \subseteq 1..issued /\ Rows(q) \cap Rows(r) = {}
    BY <1>3, <1>4, <1>7 DEF Fresh
  <2>2. \A p \in Rows(q) : p \in Payment /\ p \notin Uploaded(r) /\ payment[p].status = "absent"
    BY <1>4, <1>5, <1>7, <2>1 DEF Fresh
  <2> QED
    BY <1>2, <2>1, <2>2
<1> QED
  BY <1>3, <1>4, <1>6, <1>7 DEF Fresh

LEMMA NextFresh == TypeInv /\ Doomed /\ Fresh /\ [Next]_vars => Fresh'
<1> SUFFICES ASSUME TypeInv, Doomed, Fresh, [Next]_vars PROVE Fresh'
  OBVIOUS
<1> DEFINE Statuses == \A p \in Payment : payment'[p].status # "absent" => payment[p].status # "absent"
           Uploads  == \A q \in Request : pc'[q] = "up_commit" => pc[q] = "up_commit" /\ loc'[q] = loc[q]
<1>1. ASSUME NEW r \in Request, Start(r) PROVE Fresh'
  <2>1. /\ payment' = payment
        /\ \A q \in Request \ {r} : pc'[q] = pc[q] /\ loc'[q] = loc[q]
        /\ pc'[r] # "up_commit" => issued' = issued
    BY <1>1, StartMoves
  <2>2. CASE pc'[r] # "up_commit"
    BY <2>1, <2>2, KeepFresh
  <2>3. CASE pc'[r] = "up_commit"
    <3>1. PICK sheet \in Sheets, manual \in BOOLEAN, override \in BOOLEAN :
              UploadRead(r, sheet, manual, override)
      BY <1>1, <2>3, StartMoves
    <3> QED
      BY <2>1, <3>1, UploadReadFresh
  <2> QED
    BY <2>2, <2>3
<1>2. ASSUME NEW r \in Request, EditCommit(r) \/ GenCommit(r) \/ ClearCommit(r) PROVE Fresh'
  <2>1. Finish(r) /\ issued' = issued
    BY <1>2, CommitsFinish, EditWrites DEF GenCommit, ClearCommit
  <2>2. Uploads
    BY <2>1, FinishMoves
  <2>3. CASE EditCommit(r)
    BY <2>1, <2>2, <2>3, EditRows, KeepFresh
  <2>4. CASE GenCommit(r)
    <3>1. PICK f \in File, t \in [DOMAIN loc[r].snap -> 0..MaxTrace] :
             payment' = [p \in Payment |->
                 IF p \in DOMAIN loc[r].snap THEN Paid(payment[p], f, t[p]) ELSE payment[p]]
      BY <2>4, GenWrites
    <3>2. \A p \in DOMAIN loc[r].snap : payment[p].status # "absent"
      BY <2>4 DEF GenCommit, Stored
    <3>3. Statuses
      BY <3>1, <3>2
    <3> QED
      BY <2>1, <2>2, <3>3, KeepFresh
  <2>5. CASE ClearCommit(r)
    <3>1. \A p \in loc[r].doomP : payment[p].status # "absent"
      BY <2>5 DEF ClearCommit, Doomed
    <3>2. Statuses
      BY <2>5, <3>1, ClearRows
    <3> QED
      BY <2>1, <2>2, <3>2, KeepFresh
  <2> QED
    BY <1>2, <2>3, <2>4, <2>5
<1>3. ASSUME NEW r \in Request,
             \/ EditSiblings(r) \/ EditBatch(r)
             \/ GenVendors(r) \/ GenAllocate(r) \/ GenExplicit(r)
             \/ ClearPayments(r) \/ ClearFiles(r)
      PROVE  Fresh'
  <2>1. UNCHANGED db /\ Uploads
    BY <1>3, EditMoves, GenMoves, ClearMoves DEF Editing, Generating
  <2> QED
    BY <2>1, KeepFresh DEF db
<1>4. ASSUME NEW r \in Request,
             \/ UploadForeignKeyError(r) \/ GenCommitError(r) \/ GenAllocateGap(r) \/ Abort(r)
      PROVE  Fresh'
  <2>1. UNCHANGED db /\ Uploads
    BY <1>4, QuietEnds, FinishMoves
  <2> QED
    BY <2>1, KeepFresh DEF db
<1>5. ASSUME NEW v \in Vendor, DeleteVendor(v) PROVE Fresh'
  <2>1. Statuses
    BY <1>5, DeleteVendorRows
  <2>2. issued' = issued /\ Uploads
    BY <1>5 DEF DeleteVendor
  <2> QED
    BY <2>1, <2>2, KeepFresh
<1>6. CASE UNCHANGED vars
  BY <1>6, KeepFresh DEF vars
<1> QED
  BY <1>1, <1>2, <1>3, <1>4, <1>5, <1>6, UploadCommitFresh DEF Next, Step

LEMMA KeepSnapped ==
    ASSUME TypeInv, Snapped,
           \A q \in Request : pc'[q] \in Generating =>
              /\ pc[q] \in Generating
              /\ loc'[q].snap = loc[q].snap /\ loc'[q].bids = loc[q].bids,
           \A b \in Batch : batch[b] # "absent" => batch'[b] # "absent",
           \A p \in Payment : payment[p].status # "absent" =>
              /\ payment'[p].status # "absent"
              /\ p \in Stored' => p \in Stored /\ payment'[p].batch \in {payment[p].batch, None},
           \A p \in Stored' : payment'[p].batch # None =>
              \/ p \in Stored /\ payment'[p].batch = payment[p].batch
              \/ batch[payment'[p].batch] = "absent"
    PROVE  Snapped'
<1> SUFFICES ASSUME NEW q \in Request, pc'[q] \in Generating
             PROVE  /\ \A b \in loc'[q].bids : batch'[b] # "absent"
                    /\ \A p \in DOMAIN loc'[q].snap :
                          /\ payment'[p].status # "absent"
                          /\ p \in Stored' => payment'[p].batch \in loc'[q].bids \cup {None}
                    /\ \A p \in Stored' : payment'[p].batch \in loc'[q].bids => p \in DOMAIN loc'[q].snap
  BY DEF Snapped
<1>1. pc[q] \in Generating /\ loc'[q].snap = loc[q].snap /\ loc'[q].bids = loc[q].bids
  OBVIOUS
<1>2. loc[q].bids \subseteq Batch /\ DOMAIN loc[q].snap \subseteq Payment
  BY <1>1 DEF TypeInv, LocOK, RequestOK, GenOK
<1>3. /\ \A b \in loc[q].bids : batch[b] # "absent"
      /\ \A p \in DOMAIN loc[q].snap :
            payment[p].status # "absent" /\ (p \in Stored => payment[p].batch \in loc[q].bids \cup {None})
      /\ \A p \in Stored : payment[p].batch \in loc[q].bids => p \in DOMAIN loc[q].snap
  BY <1>1 DEF Snapped
<1>4. \A b \in loc[q].bids : batch'[b] # "absent"
  BY <1>2, <1>3
<1>5. \A p \in DOMAIN loc[q].snap :
         /\ payment'[p].status # "absent"
         /\ p \in Stored' => payment'[p].batch \in loc[q].bids \cup {None}
  BY <1>2, <1>3
<1>6. ASSUME NEW p \in Stored', payment'[p].batch \in loc[q].bids PROVE p \in DOMAIN loc[q].snap
  <2>1. payment'[p].batch # None
    BY <1>2, <1>6, ConstantsAssumption
  <2> QED
    BY <1>3, <1>6, <2>1
<1> QED
  BY <1>1, <1>4, <1>5, <1>6

\* What a new snapshot holds.
LEMMA GenReadSnap ==
    ASSUME TypeInv, NEW r \in Request, NEW bids \in SUBSET Batch, NEW start \in Starts,
           GenRead(r, bids, start)
    PROVE  /\ UNCHANGED db /\ \A b \in bids : Open(b)
           /\ loc'[r].bids = bids /\ DOMAIN loc'[r].snap = {p \in Stored : payment[p].batch \in bids}
           /\ \A p \in DOMAIN loc'[r].snap : /\ loc'[r].snap[p].amount = payment[p].amount
                                             /\ loc'[r].snap[p].inv = payment[p].inv
<1> DEFINE snap == [p \in UNION {InBatch(b) : b \in bids} |->
                       [batch  |-> payment[p].batch,  vendor |-> payment[p].vendor,
                        amount |-> payment[p].amount, inv    |-> payment[p].inv]]
<1>1. loc' = [loc EXCEPT ![r] = [Blank EXCEPT !.bids = bids, !.start = start, !.snap = snap]]
  BY DEF GenRead
<1>2. /\ DOMAIN snap = {p \in Stored : payment[p].batch \in bids}
      /\ \A p \in DOMAIN snap : snap[p].amount = payment[p].amount /\ snap[p].inv = payment[p].inv
  BY DEF InBatch
<1> HIDE DEF snap
<1>3. loc'[r].bids = bids /\ loc'[r].snap = snap
  BY <1>1 DEF TypeInv, LocOK, Blank
<1>4. UNCHANGED db /\ \A b \in bids : Open(b)
  BY DEF GenRead
<1> QED
  BY <1>2, <1>3, <1>4

LEMMA NextSnapped == TypeInv /\ Fresh /\ Snapped /\ [Next]_vars => Snapped'
<1> SUFFICES ASSUME TypeInv, Fresh, Snapped, [Next]_vars PROVE Snapped'
  OBVIOUS
<1> DEFINE Same == \A q \in Request : pc'[q] \in Generating =>
                      /\ pc[q] \in Generating
                      /\ loc'[q].snap = loc[q].snap /\ loc'[q].bids = loc[q].bids
<1>1. CASE Same /\ UNCHANGED <<batch, payment>>
  BY <1>1, KeepSnapped DEF Stored
<1>2. ASSUME NEW r \in Request, Start(r) PROVE Snapped'
  <2>1. /\ UNCHANGED <<batch, payment>>
        /\ \A q \in Request \ {r} : pc'[q] = pc[q] /\ loc'[q] = loc[q]
    BY <1>2, StartMoves
  <2>2. CASE pc'[r] # "gen_vendors"
    <3>1. pc'[r] \notin Generating
      BY <1>2, <2>2, StartMoves DEF Generating
    <3> QED
      BY <1>1, <2>1, <3>1
  <2>3. CASE pc'[r] = "gen_vendors"
    <3>1. PICK bids \in SUBSET Batch, start \in Starts : GenRead(r, bids, start)
      BY <1>2, <2>3, StartMoves
    <3>2. /\ UNCHANGED db /\ \A b \in bids : Open(b)
          /\ loc'[r].bids = bids /\ DOMAIN loc'[r].snap = {p \in Stored : payment[p].batch \in bids}
      BY <3>1, GenReadSnap
    <3>3. /\ \A b \in bids : batch[b] # "absent"
          /\ \A p \in DOMAIN loc'[r].snap : payment[p].status # "absent"
      BY <3>2 DEF Open, Stored
    <3>4. Stored' = Stored
      BY <2>1 DEF Stored
    <3> QED
      BY <2>1, <3>2, <3>3, <3>4 DEF Snapped
  <2> QED
    BY <2>2, <2>3
<1>3. ASSUME NEW r \in Request,
             UploadCommit(r) \/ EditCommit(r) \/ GenCommit(r) \/ ClearCommit(r)
      PROVE  Snapped'
  <2>1. Same
    BY <1>3, CommitsFinish, FinishMoves DEF Generating
  <2>2. /\ \A b \in Batch : batch[b] # "absent" => batch'[b] # "absent"
        /\ \A p \in Payment : payment[p].status # "absent" => payment'[p].status # "absent"
    BY NeverAbsentAgain
  <2>3. CASE UploadCommit(r)
    <3>1. PICK b \in Batch :
              /\ batch[b] = "absent"
              /\ payment' = [p \in Payment |-> IF p \in Uploaded(r)
                                THEN NewPayment(r, b, p - loc[r].base) ELSE payment[p]]
      BY <2>3, UploadWrites
    <3>2. pc[r] = "up_commit"
      BY <2>3 DEF UploadCommit
    <3>3. \A p \in Uploaded(r) : payment[p].status = "absent"
      BY <3>2, UploadedFresh
    <3>4. \A p \in Uploaded(r) : payment'[p].batch = b
      BY <2>3, <3>1, UploadRows DEF Uploaded
    <3>5. \A p \in Payment : p \notin Uploaded(r) => payment'[p] = payment[p]
      BY <3>1
    <3> QED
      BY <2>1, <2>2, <3>1, <3>3, <3>4, <3>5, KeepSnapped DEF Stored
  <2>4. CASE EditCommit(r)
    <3>1. \A p \in Payment : payment'[p].status = payment[p].status /\ payment'[p].batch = payment[p].batch
      BY <2>4, EditRows
    <3> QED
      BY <2>1, <2>2, <3>1, KeepSnapped DEF Stored
  <2>5. CASE GenCommit(r)
    <3>1. PICK f \in File, t \in [DOMAIN loc[r].snap -> 0..MaxTrace] :
             payment' = [p \in Payment |->
                 IF p \in DOMAIN loc[r].snap THEN Paid(payment[p], f, t[p]) ELSE payment[p]]
      BY <2>5, GenWrites
    <3>2. \A p \in Payment : payment[p] \in PaymentRow
      BY DEF TypeInv, TypeOK
    <3>3. DOMAIN loc[r].snap \subseteq Stored
      BY <2>5 DEF GenCommit
    <3>4. \A p \in Payment : payment'[p].batch = payment[p].batch /\ (p \in Stored' <=> p \in Stored)
      BY <3>1, <3>2, <3>3, PaidRow DEF Stored
    <3>5. Stored' \subseteq Payment
      BY DEF Stored
    <3> QED
      BY <2>1, <2>2, <3>4, <3>5, KeepSnapped
  <2>6. CASE ClearCommit(r)
    <3>1. ASSUME NEW p \in Stored'
          PROVE  p \in Stored /\ payment'[p].batch \in {payment[p].batch, None}
      <4>1. p \in Payment /\ payment'[p].status \in {"pending", "processing"}
        BY DEF Stored
      <4>2. p \notin loc[r].doomP
        BY <2>6, <4>1, ClearRows
      <4> QED
        BY <2>6, <4>1, <4>2, ClearRows DEF Stored, NullIf
    <3> QED
      BY <2>1, <2>2, <3>1, KeepSnapped
  <2> QED
    BY <1>3, <2>3, <2>4, <2>5, <2>6
<1>4. ASSUME NEW r \in Request,
             \/ EditSiblings(r) \/ EditBatch(r)
             \/ GenVendors(r) \/ GenAllocate(r) \/ GenExplicit(r)
             \/ ClearPayments(r) \/ ClearFiles(r)
      PROVE  Snapped'
  <2>1. UNCHANGED db /\ Same
    BY <1>4, EditMoves, GenMoves, ClearMoves DEF Editing, Generating
  <2> QED
    BY <1>1, <2>1 DEF db
<1>5. ASSUME NEW r \in Request,
             \/ UploadForeignKeyError(r) \/ GenCommitError(r) \/ GenAllocateGap(r) \/ Abort(r)
      PROVE  Snapped'
  <2>1. UNCHANGED db /\ Same
    BY <1>5, QuietEnds, FinishMoves DEF Generating
  <2> QED
    BY <1>1, <2>1 DEF db
<1>6. ASSUME NEW v \in Vendor, DeleteVendor(v) PROVE Snapped'
  <2>1. Same /\ batch' = batch
    BY <1>6 DEF DeleteVendor
  <2>2. \A p \in Payment : payment'[p].status = payment[p].status /\ payment'[p].batch = payment[p].batch
    BY <1>6, DeleteVendorRows
  <2> QED
    BY <2>1, <2>2, KeepSnapped DEF Stored
<1>7. CASE UNCHANGED vars
  BY <1>1, <1>7 DEF vars
<1> QED
  BY <1>2, <1>3, <1>4, <1>5, <1>6, <1>7 DEF Next, Step

LEMMA NextClosed ==
    TypeInv /\ Fresh /\ Snapped /\ ReferencesLive /\ ClosedIffPaid /\ [Next]_vars => ClosedIffPaid'
<1> SUFFICES ASSUME TypeInv, Fresh, Snapped, ReferencesLive, ClosedIffPaid, [Next]_vars
             PROVE  ClosedIffPaid'
  OBVIOUS
<1>1. ASSUME NEW r \in Request, UploadCommit(r) PROVE ClosedIffPaid'
  <2>1. PICK b \in Batch :
            /\ batch[b] = "absent" /\ batch'[b] \in {"parsed", "partially_failed", "failed"}
            /\ \A c \in Batch \ {b} : batch'[c] = batch[c]
            /\ payment' = [p \in Payment |-> IF p \in Uploaded(r)
                              THEN NewPayment(r, b, p - loc[r].base) ELSE payment[p]]
    BY <1>1, UploadWrites
  <2>2. ASSUME NEW p \in Stored', payment'[p].batch # None
        PROVE  payment'[p].status = "processing" <=> batch'[payment'[p].batch] = "processed"
    <3>1. p \in Payment
      BY DEF Stored
    <3>2. CASE p \in Uploaded(r)
      <4>1. payment'[p].status = "pending" /\ payment'[p].batch = b
        BY <1>1, <2>1, <3>1, <3>2, UploadRows
      <4> QED
        BY <2>1, <4>1
    <3>3. CASE p \notin Uploaded(r)
      <4>1. payment'[p] = payment[p] /\ p \in Stored /\ payment[p] \in PaymentRow
        BY <2>1, <3>1, <3>3 DEF Stored, TypeInv, TypeOK
      <4>2. payment[p].batch \in Batch \ {b}
        BY <2>1, <2>2, <4>1 DEF ReferencesLive, Exists, Open, PaymentRow
      <4> QED
        BY <2>1, <2>2, <4>1, <4>2 DEF ClosedIffPaid
    <3> QED
      BY <3>2, <3>3
  <2> QED
    BY <2>2 DEF ClosedIffPaid
<1>2. ASSUME NEW r \in Request, GenCommit(r) PROVE ClosedIffPaid'
  <2> DEFINE snap == loc[r].snap
  <2>1. PICK f \in File, t \in [DOMAIN snap -> 0..MaxTrace] :
           payment' = [p \in Payment |->
               IF p \in DOMAIN snap THEN Paid(payment[p], f, t[p]) ELSE payment[p]]
    BY <1>2, GenWrites
  <2>2. /\ pc[r] \in Generating /\ DOMAIN snap \subseteq Stored
        /\ batch' = [b \in Batch |-> IF b \in loc[r].bids THEN "processed" ELSE batch[b]]
    BY <1>2 DEF GenCommit, Generating
  <2>3. ASSUME NEW p \in Stored', payment'[p].batch # None
        PROVE  payment'[p].status = "processing" <=> batch'[payment'[p].batch] = "processed"
    <3>1. p \in Payment /\ payment[p] \in PaymentRow
      BY DEF Stored, TypeInv, TypeOK
    <3>2. payment[p].batch \in Batch \cup {None}
      BY <3>1 DEF PaymentRow
    <3>3. CASE p \in DOMAIN snap
      <4>1. payment'[p].status = "processing" /\ payment'[p].batch = payment[p].batch
        BY <2>1, <3>1, <3>3, PaidRow
      <4>2. payment[p].batch \in loc[r].bids
        BY <2>2, <2>3, <3>3, <4>1 DEF Snapped
      <4> QED
        BY <2>2, <2>3, <3>2, <4>1, <4>2
    <3>4. CASE p \notin DOMAIN snap
      <4>1. payment'[p] = payment[p] /\ p \in Stored
        BY <2>1, <3>1, <3>4 DEF Stored
      <4>2. payment[p].batch \in Batch /\ payment[p].batch \notin loc[r].bids
        BY <2>2, <2>3, <3>2, <3>4, <4>1 DEF Snapped
      <4> QED
        BY <2>2, <2>3, <4>1, <4>2 DEF ClosedIffPaid
    <3> QED
      BY <3>3, <3>4
  <2> QED
    BY <2>3 DEF ClosedIffPaid
<1>3. ASSUME NEW r \in Request, ClearCommit(r) PROVE ClosedIffPaid'
  <2>1. ASSUME NEW p \in Stored' PROVE payment'[p].batch = None
    <3>1. p \in Payment /\ payment[p] \in PaymentRow /\ payment'[p].status \in {"pending", "processing"}
      BY DEF Stored, TypeInv, TypeOK
    <3>2. p \notin loc[r].doomP
      BY <1>3, <3>1, ClearRows
    <3>3. p \in Stored /\ payment'[p].batch = NullIf(payment[p].batch, {b \in Batch : Exists(b)})
      BY <1>3, <3>1, <3>2, ClearRows DEF Stored
    <3>4. payment[p].batch # None => payment[p].batch \in {b \in Batch : Exists(b)}
      BY <3>1, <3>3 DEF ReferencesLive, PaymentRow
    <3> QED
      BY <3>3, <3>4 DEF NullIf
  <2> QED
    BY <2>1 DEF ClosedIffPaid
<1>4. ASSUME batch' = batch,
             \A p \in Payment : /\ payment'[p].status = payment[p].status
                                /\ payment'[p].batch = payment[p].batch
      PROVE  ClosedIffPaid'
  BY <1>4 DEF ClosedIffPaid, Stored
<1>5. ASSUME NEW r \in Request, EditCommit(r) PROVE ClosedIffPaid'
  BY <1>4, <1>5, EditWrites, EditRows
<1>6. ASSUME NEW v \in Vendor, DeleteVendor(v) PROVE ClosedIffPaid'
  BY <1>4, <1>6, DeleteVendorRows DEF DeleteVendor
<1> QED
  BY <1>1, <1>2, <1>3, <1>4, <1>5, <1>6, OtherSteps

CloseInv == Doomed /\ Fresh /\ Snapped /\ ReferencesLive /\ ClosedIffPaid

LEMMA CloseInvHolds == Spec => []CloseInv
<1>1. Init => CloseInv
  BY DEF Init, CloseInv, Doomed, Fresh, Snapped, ReferencesLive, ClosedIffPaid, Stored,
     NoPayment, Generating
<1>2. TypeInv /\ CloseInv /\ [Next]_vars => CloseInv'
  BY NextDoomed, NextFresh, NextSnapped, NextReferences, NextClosed DEF CloseInv
<1>3. Spec => [](TypeInv /\ CloseInv)
  BY <1>1, <1>2, InitType, NextType, PTL DEF Spec
<1> QED
  BY <1>3, PTL

\* A batch is PROCESSED exactly when its payments are in a file, whatever is
\* uploaded, edited, cleared or paid a second time between the read of a batch
\* and its commit (combine_batches_and_generate_nacha).
THEOREM ClosedIffPaidHolds == Spec => []ClosedIffPaid
<1>1. CloseInv => ClosedIffPaid
  BY DEF CloseInv
<1> QED
  BY <1>1, CloseInvHolds, PTL

-----------------------------------------------------------------------------
(* How often a batch is paid.                                               *)

\* The batches of a file are closed, and a closed batch is not opened again.
PaidAreClosed ==
    \A f \in File : \A b \in nfile[f].batches : batch[b] \in {"processed", "deleted"}

Paying(b) == {r \in Request : pc[r] \in Generating /\ b \in loc[r].bids}
PaidBy(b) == {f \in File : b \in nfile[f].batches}

\* Each request that is about to pay the batch has a payment to its credit.
Budget ==
    \A b \in Batch : /\ IsFiniteSet(PaidBy(b))
                     /\ Cardinality(PaidBy(b)) + Cardinality(Paying(b)) <= Cardinality(Request)

\* Only a generated file adds to what is paid.
LEMMA OtherStepsPayNothing ==
    ASSUME TypeInv, [Next]_vars, \A r \in Request : ~GenCommit(r), NEW f \in File
    PROVE  nfile'[f].batches = nfile[f].batches
<1>1. ASSUME NEW r \in Request, UploadCommit(r) \/ EditCommit(r) PROVE nfile' = nfile
  BY <1>1, EditWrites DEF UploadCommit
<1>2. ASSUME NEW r \in Request, ClearCommit(r) PROVE nfile'[f].batches = nfile[f].batches
  BY <1>2, ClearFilesKept
<1>3. ASSUME NEW v \in Vendor, DeleteVendor(v) PROVE nfile' = nfile
  BY <1>3 DEF DeleteVendor
<1> QED
  BY <1>1, <1>2, <1>3, OtherSteps

\* The file written, the batches it pays, and the request that wrote it.
LEMMA GenPays ==
    ASSUME TypeInv, FilesStartEmpty, NEW r \in Request, GenCommit(r)
    PROVE  \E f \in File :
              /\ nfile[f].batches = {} /\ nfile'[f].batches = loc[r].bids
              /\ \A g \in File \ {f} : nfile'[g].batches = nfile[g].batches
              /\ loc[r].bids \subseteq Batch /\ pc[r] \in Generating
              /\ \A b \in Batch : batch'[b] = IF b \in loc[r].bids THEN "processed" ELSE batch[b]
              /\ pc'[r] = "idle"
              /\ \A q \in Request \ {r} : pc'[q] = pc[q] /\ loc'[q] = loc[q]
<1>1. PICK f \in File : /\ nfile[f].status = "absent" /\ nfile'[f].batches = loc[r].bids
                        /\ \A g \in File \ {f} : nfile'[g] = nfile[g]
  BY GenWrites
<1>2. /\ pc[r] \in Generating /\ loc[r].bids \subseteq Batch
      /\ batch' = [b \in Batch |-> IF b \in loc[r].bids THEN "processed" ELSE batch[b]]
  BY DEF GenCommit, Generating, TypeInv, LocOK, RequestOK, GenOK
<1>3. /\ pc'[r] = "idle"
      /\ \A q \in Request \ {r} : pc'[q] = pc[q] /\ loc'[q] = loc[q]
  BY CommitsFinish, FinishMoves
<1>4. nfile[f].batches = {}
  BY <1>1 DEF FilesStartEmpty
<1> QED
  BY <1>1, <1>2, <1>3, <1>4

LEMMA NextPaidAreClosed ==
    TypeInv /\ FilesStartEmpty /\ PaidAreClosed /\ [Next]_vars => PaidAreClosed'
<1> SUFFICES ASSUME TypeInv, FilesStartEmpty, PaidAreClosed, [Next]_vars PROVE PaidAreClosed'
  OBVIOUS
<1>1. \A f \in File : nfile[f].batches \subseteq Batch
  BY DEF TypeInv, TypeOK
<1>2. ASSUME NEW r \in Request, GenCommit(r) PROVE PaidAreClosed'
  BY <1>1, <1>2, GenPays DEF PaidAreClosed
<1>3. CASE \A r \in Request : ~GenCommit(r)
  <2> DEFINE Closed == {"processed", "deleted"}
  <2>1. ASSUME NEW r \in Request, UploadCommit(r)
        PROVE  \A b \in Batch : batch[b] \in Closed => batch'[b] \in Closed
    BY <2>1, UploadWrites
  <2>2. ASSUME NEW r \in Request, ClearCommit(r)
        PROVE  \A b \in Batch : batch[b] \in Closed => batch'[b] \in Closed
    <3>1. batch' = [b \in Batch |-> IF b \in {c \in Batch : Exists(c)} THEN "deleted" ELSE batch[b]]
      BY <2>2 DEF ClearCommit
    <3> QED
      BY <3>1
  <2>3. ASSUME NEW r \in Request, EditCommit(r) PROVE batch' = batch
    BY <2>3, EditWrites
  <2>4. ASSUME NEW v \in Vendor, DeleteVendor(v) PROVE batch' = batch
    BY <2>4 DEF DeleteVendor
  <2>5. \A b \in Batch : batch[b] \in Closed => batch'[b] \in Closed
    BY <1>3, <2>1, <2>2, <2>3, <2>4, OtherSteps
  <2> QED
    BY <1>1, <1>3, <2>5, OtherStepsPayNothing DEF PaidAreClosed
<1> QED
  BY <1>2, <1>3

\* A step that pays nothing and promises nothing.
LEMMA KeepBudget ==
    ASSUME IsFiniteSet(Request), NEW b \in Batch,
           IsFiniteSet(PaidBy(b)),
           Cardinality(PaidBy(b)) + Cardinality(Paying(b)) <= Cardinality(Request),
           PaidBy(b)' = PaidBy(b), Paying(b)' \subseteq Paying(b)
    PROVE  /\ IsFiniteSet(PaidBy(b)')
           /\ Cardinality(PaidBy(b)') + Cardinality(Paying(b)') <= Cardinality(Request)
<1>1. IsFiniteSet(Paying(b)) /\ Cardinality(Request) \in Nat
  BY FS_Subset, FS_CardinalityType DEF Paying
<1>2. IsFiniteSet(Paying(b)') /\ Cardinality(Paying(b)') <= Cardinality(Paying(b))
  BY <1>1, FS_Subset
<1> QED
  BY <1>1, <1>2, FS_CardinalityType

LEMMA GenReadBudget ==
    ASSUME IsFiniteSet(Request), TypeInv, PaidAreClosed, Budget,
           NEW r \in Request, NEW bids \in SUBSET Batch, NEW start \in Starts,
           GenRead(r, bids, start),
           \A q \in Request \ {r} : pc'[q] = pc[q] /\ loc'[q] = loc[q]
    PROVE  Budget'
<1>1. /\ UNCHANGED nfile /\ \A b \in bids : Open(b)
      /\ loc'[r].bids = bids
  BY GenReadSnap DEF db
<1>2. \A b \in Batch : PaidBy(b)' = PaidBy(b)
  BY <1>1 DEF PaidBy
<1>3. ASSUME NEW b \in bids
      PROVE  IsFiniteSet(PaidBy(b)') /\ Cardinality(PaidBy(b)') + Cardinality(Paying(b)') <= Cardinality(Request)
  <2>1. PaidBy(b) = {}
    BY <1>1 DEF PaidAreClosed, PaidBy, Open
  <2>2. Paying(b)' \subseteq Request
    BY DEF Paying
  <2>3. IsFiniteSet(Paying(b)') /\ Cardinality(Paying(b)') <= Cardinality(Request)
    BY <2>2, FS_Subset
  <2>4. IsFiniteSet(PaidBy(b)') /\ Cardinality(PaidBy(b)') = 0
    BY <1>2, <2>1, FS_EmptySet
  <2> QED
    BY <2>3, <2>4, FS_CardinalityType
<1>4. ASSUME NEW b \in Batch, b \notin bids
      PROVE  IsFiniteSet(PaidBy(b)') /\ Cardinality(PaidBy(b)') + Cardinality(Paying(b)') <= Cardinality(Request)
  <2>1. Paying(b)' \subseteq Paying(b)
    BY <1>1, <1>4 DEF Paying
  <2> QED
    BY <1>2, <2>1, KeepBudget DEF Budget
<1> QED
  BY <1>3, <1>4 DEF Budget

LEMMA GenCommitBudget ==
    ASSUME IsFiniteSet(Request), TypeInv, FilesStartEmpty, Budget, NEW r \in Request, GenCommit(r)
    PROVE  Budget'
<1>1. PICK f \in File :
          /\ nfile[f].batches = {} /\ nfile'[f].batches = loc[r].bids
          /\ \A g \in File \ {f} : nfile'[g].batches = nfile[g].batches
          /\ pc[r] \in Generating /\ pc'[r] = "idle"
          /\ \A q \in Request \ {r} : pc'[q] = pc[q] /\ loc'[q] = loc[q]
  BY GenPays
<1>2. \A b \in Batch : Paying(b)' = Paying(b) \ {r}
  BY <1>1 DEF Paying, Generating
<1>3. ASSUME NEW b \in Batch, b \in loc[r].bids
      PROVE  IsFiniteSet(PaidBy(b)') /\ Cardinality(PaidBy(b)') + Cardinality(Paying(b)') <= Cardinality(Request)
  <2>1. PaidBy(b)' = PaidBy(b) \cup {f} /\ f \notin PaidBy(b)
    BY <1>1, <1>3 DEF PaidBy
  <2>2. r \in Paying(b) /\ IsFiniteSet(Paying(b))
    BY <1>1, <1>3, FS_Subset DEF Paying
  <2>3. Cardinality(Paying(b)') = Cardinality(Paying(b)) - 1
    BY <1>2, <2>2, FS_RemoveElement
  <2>4. IsFiniteSet(PaidBy(b)') /\ Cardinality(PaidBy(b)') = Cardinality(PaidBy(b)) + 1
    BY <2>1, FS_AddElement DEF Budget
  <2>5. /\ Cardinality(PaidBy(b)) \in Nat /\ Cardinality(Paying(b)) \in Nat /\ Cardinality(Request) \in Nat
        /\ Cardinality(PaidBy(b)) + Cardinality(Paying(b)) <= Cardinality(Request)
    BY <2>2, FS_CardinalityType DEF Budget
  <2> QED
    BY <2>3, <2>4, <2>5
<1>4. ASSUME NEW b \in Batch, b \notin loc[r].bids
      PROVE  IsFiniteSet(PaidBy(b)') /\ Cardinality(PaidBy(b)') + Cardinality(Paying(b)') <= Cardinality(Request)
  <2>1. PaidBy(b)' = PaidBy(b)
    BY <1>1, <1>4 DEF PaidBy
  <2> QED
    BY <1>2, <2>1, KeepBudget DEF Budget
<1> QED
  BY <1>3, <1>4 DEF Budget

\* A request that does not start now pays what it read when it did.
LEMMA GeneratingKeeps ==
    ASSUME TypeInv, [Next]_vars, NEW q \in Request, pc'[q] \in Generating,
           ~\E bids \in SUBSET Batch \ {{}}, start \in Starts : GenRead(q, bids, start)
    PROVE  /\ pc[q] \in Generating
           /\ loc'[q].snap = loc[q].snap /\ loc'[q].bids = loc[q].bids
<1>1. ASSUME NEW r \in Request, Start(r)
      PROVE  pc'[q] = pc[q] /\ loc'[q] = loc[q]
  BY <1>1, StartMoves DEF Generating
<1>2. ASSUME NEW r \in Request, Finish(r)
      PROVE  pc'[q] = pc[q] /\ loc'[q] = loc[q]
  BY <1>2, FinishMoves DEF Generating
<1>3. ASSUME NEW r \in Request,
             \/ EditSiblings(r) \/ EditBatch(r)
             \/ GenVendors(r) \/ GenAllocate(r) \/ GenExplicit(r)
             \/ ClearPayments(r) \/ ClearFiles(r)
      PROVE  /\ pc[q] \in Generating
             /\ loc'[q].snap = loc[q].snap /\ loc'[q].bids = loc[q].bids
  BY <1>3, EditMoves, GenMoves, ClearMoves DEF Editing, Generating
<1>4. ASSUME NEW v \in Vendor, DeleteVendor(v) PROVE pc' = pc /\ loc' = loc
  BY <1>4 DEF DeleteVendor
<1>5. CASE UNCHANGED vars
  BY <1>5 DEF vars
<1> QED
  BY <1>1, <1>2, <1>3, <1>4, <1>5, CommitsFinish DEF Next, Step

LEMMA NextBudget ==
    ASSUME IsFiniteSet(Request), TypeInv, FilesStartEmpty, PaidAreClosed, Budget, [Next]_vars
    PROVE  Budget'
<1>1. ASSUME NEW r \in Request,
             \E bids \in SUBSET Batch \ {{}}, start \in Starts : GenRead(r, bids, start)
      PROVE  Budget'
  <2>1. Start(r)
    BY <1>1 DEF Start
  <2>2. PICK bids \in SUBSET Batch, start \in Starts : GenRead(r, bids, start)
    BY <1>1
  <2> QED
    BY <2>1, <2>2, StartMoves, GenReadBudget
<1>2. ASSUME NEW r \in Request, GenCommit(r) PROVE Budget'
  BY <1>2, GenCommitBudget
<1>3. CASE /\ \A r \in Request : ~GenCommit(r)
           /\ ~\E r \in Request, bids \in SUBSET Batch \ {{}}, start \in Starts : GenRead(r, bids, start)
  <2>1. \A b \in Batch : PaidBy(b)' = PaidBy(b)
    BY <1>3, OtherStepsPayNothing DEF PaidBy
  <2>2. \A b \in Batch : Paying(b)' \subseteq Paying(b)
    BY <1>3, GeneratingKeeps DEF Paying
  <2> QED
    BY <2>1, <2>2, KeepBudget DEF Budget
<1> QED
  BY <1>1, <1>2, <1>3

LEMMA PaidAreClosedHolds == Spec => []PaidAreClosed
<1>1. Init => PaidAreClosed
  BY DEF Init, PaidAreClosed, NoFile
<1>2. LinkInv => FilesStartEmpty
  BY DEF LinkInv
<1> QED
  BY <1>1, <1>2, NextPaidAreClosed, InitType, NextType, LinkInvHolds, PTL DEF Spec

\* A batch read by several requests before the first of them commits may be in
\* several files, but never in more than there are requests: nothing reads a
\* batch again once it is PROCESSED (combine_batches_and_generate_nacha).
THEOREM PaymentsBoundedByRequestsHolds ==
    ASSUME IsFiniteSet(Request)
    PROVE  Spec => []PaymentsBoundedByRequests
<1>1. Init => Budget
  <2> SUFFICES ASSUME Init PROVE Budget
    OBVIOUS
  <2>1. \A b \in Batch : PaidBy(b) = {} /\ Paying(b) = {}
    BY DEF Init, PaidBy, Paying, NoFile, Generating
  <2>2. IsFiniteSet({}) /\ Cardinality({}) = 0 /\ Cardinality(Request) \in Nat
    BY FS_EmptySet, FS_CardinalityType
  <2> QED
    BY <2>1, <2>2 DEF Budget
<1>2. TypeInv /\ LinkInv /\ PaidAreClosed /\ Budget /\ [Next]_vars => Budget'
  BY NextBudget DEF LinkInv
<1>3. Budget => PaymentsBoundedByRequests
  <2> SUFFICES ASSUME Budget, NEW b \in Batch
               PROVE  Cardinality(PaidBy(b)) <= Cardinality(Request)
    BY DEF PaymentsBoundedByRequests, PaidBy
  <2>1. IsFiniteSet(Paying(b))
    BY FS_Subset DEF Paying
  <2> QED
    BY <2>1, FS_CardinalityType DEF Budget
<1> QED
  BY <1>1, <1>2, <1>3, InitType, NextType, LinkInvHolds, PaidAreClosedHolds, PTL DEF Spec
=============================================================================
