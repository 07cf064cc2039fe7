# A TLA+ verification of Amipi-Nacha

Amipi-Nacha is a web service that turns payment lists into NACHA (ACH) files: an
accountant uploads a spreadsheet or types a batch, corrects payments while they are
pending, and generates the file the bank executes; vendors get a remittance advice;
vendor bank details change under a maker-checker workflow. The backend is FastAPI on
PostgreSQL (`src/backend/app`), the frontend plain JavaScript (`src/frontend`).

Every request is a coroutine with a database session of its own
(`db/session.py`). It gives up control at each `await`, PostgreSQL runs at its default
READ COMMITTED, and no handler locks or versions what it reads. So the question this
project asks of each component is twofold: is it right when requests are served one at
a time, and what is left of that when they interleave?

## 1. Inventory

| Component | State | Operations | What makes it correct |
|---|---|---|---|
| NACHA file generation (`services/nacha_service.py`, `api/v1/nacha.py`) | `nacha_files`, status and links of batches and payments | combine batches and generate; history, download | a batch is paid once; ledger, file and advice agree; totals reconcile |
| Trace numbers (`allocate_trace_sequence`) | one database sequence | allocate n; preview | never two entries with one number; consecutive within a file |
| Payment intake and editing (`api/v1/payments.py`, `services/duplicate_detector.py`) | `upload_batches`, `payments` | upload, manual batch, edit, list | totals and fingerprints follow the rows; duplicates do not slip in; what was sent is frozen |
| Clear-all (`api/v1/remittances.py`) | deletes remittances, payments, files, batches | one handler, four DELETEs | no dangling reference; trace numbers not reused |
| Remittance advice (`remittances.py`, `email_service.py`) | `vendor_remittances`, vendors' addresses, the template of the process | created by generation; dispatch, resend, change address, delete | quotes the file; status and count say how often it was sent (marked so: nothing is mailed) |
| Vendor directory (`api/v1/vendors.py`) | `vendors` | create, bulk import, seed, upload, update, merge duplicates, delete | one row per name, a merge keeps what refers to its vendors |
| Bank details and change requests (`vendors.py`) | bank columns, `vendor_change_requests` | request, approve, reject, form, bulk preview and confirm, delete | details change as a whole and by an administrator; a request is decided once |
| NACHA text (`nacha/`) | none | validate and build a file | widths, hash, totals, blocking, trace numbers; what can be stored can be written |
| Spreadsheet parsing, vendor matching (`services/spreadsheet_parser.py`) | the block being read | parse row by row, match names | money stays with its vendor and none vanishes; no tie decides who is paid |
| Banking calendar (`core/business_dates.py`) | none | holidays, banking days, default date, dates accepted | weekends, observed holidays, year ends; one calendar for all |
| Sign-in and throttle (`api/v1/auth.py`) | times of failures, per worker process | login | a limit on failures in a window |
| User accounts (`users.py`, `create_user.py`, `promote_admin.py`) | `users` | create, register, activate and deactivate, reset a password, promote | an administrator remains |
| Encryption and key rotation (`core/encryption.py`, `scripts/rotate_encryption_key.py`) | keys of the environment and of each worker, ciphertexts | read, write, copy; rotate; the operator's three steps | every value stays readable, and is the last one written |
| Audit trail | `audit_logs` | append, list | append-only |
| Browser workflow (`frontend/js`) | screen state | stage, submit, generate, retry | a retry pays nothing twice |

Interaction: upload and edit write the rows generation reads; generation writes the
links, statuses and advices that edit, clear-all and the remittance screen read;
deleting a vendor or the history sets foreign keys to NULL under all of them. The
coupling is only through the database, apart from the browser, which holds a bulk
preview between two requests.

Hard behaviours: check and commit separated by awaits (the PROCESSED guard, the
"immutable" guard, the duplicate lookup, the PENDING guard of reviews); the ORM's
UPDATE of only the changed columns, which lets two commits mix; DELETEs that see
different snapshots; row locks; sequence values drawn one by one, with those of
other sessions in between; a request that fails half way. `PROJECT.json`
lists each hazard at its line, with the properties aimed at it.

## 2. Modules

| Module | Role |
|---|---|
| `PaymentLedger` | intake, editing, generation, clear-all, vendor deletion, interleaved |
| `Disbursement` | what the ledger promises, abstractly: a payment is drafted, revised, sent at most once |
| `TraceSequence` | allocation value by value: `nextval` of several sessions interleaves |
| `TraceAllocator` | what allocation promises: fresh consecutive runs that fit the field |
| `BankDetails` | the four ways to change a vendor's bank details, interleaved |
| `MakerChecker` | what they promise: a request decided once, details changed whole |
| `VendorDirectory` | every endpoint that adds or renames a vendor (form, edit form, import in one request and in two, seed, upload), merging and deletion, interleaved; the normal form of a name in Python, in SQL and in the parser are three; bank details are one value |
| `RemittanceDispatch` | sending advice as the code does, which is marking and counting: load, commit; crashes and deletions in between |
| `Accounts` | accounts, roles, tokens; requests and scripts interleaved |
| `LoginThrottle` | the throttle of each worker process, with time, restarts and attempts in flight |
| `KeyRotation` | values under keys, workers with the keys they started with, the script, the operator |
| `NachaText` | validation and the records of a file, as pure operators, with what the service derives for them |
| `BankingCalendar` | holidays, banking days, the dates computed and accepted, as pure operators |
| `VendorMatching` | `match_vendor`, as pure operators |
| `QuickBooksReport` | the report reader: one action per kind of row, on the block it accumulates |
| `Documents` | the pure operators on one input at a time, beside the report reader; the properties of both |
| `MCPaymentLedger`, `MCBankDetails`, `MCVendorDirectory`, `MCDocuments`, `MCOffice` | instances for TLC |
| `PaymentLedgerProofs`, `PaymentLedgerSerial` | theorems about the ledger: types, what each step writes, and what holds of any number of requests; one request at a time |
| `BankDetailsProofs`, `DisbursementProofs`, `VendorDirectoryProofs` | theorems about the module each is named after |
| `DocumentProofs` | theorems about `TraceSequence` and `Documents`, hence `NachaText`, `BankingCalendar`, `VendorMatching` and `QuickBooksReport` |
| `Sums` | lemmas the others cite: sums over finite sets, the least element, induction over an interval, functions defined step by step |
| `OfficeProofs` | theorems about `Accounts`, `KeyRotation`, `RemittanceDispatch` and `LoginThrottle` |

`PaymentLedger` uses the allocator as one step (`GenAllocate`, `GenAllocateGap`);
`TraceSequence` is the detailed account of that step, and shows what that step assumes:
a request that is granted a run owns all of it (`SpanCountsDraws`). `NachaText` is the
account of the text that step stores, `VendorMatching` and `QuickBooksReport` of the rows
an upload starts from, `BankingCalendar` of the dates it carries. `VendorDirectory` and
`BankDetails` are two views of one table: the first keeps names, whole rows and what
refers to them, the second the columns of the bank details and the requests to change
them. `MCOffice` explores `RemittanceDispatch`, `Accounts`, `LoginThrottle` and
`KeyRotation` in one run; they share no state, in the code as in the model, so each
behaviour is of one of them and the others rest. `MCDocuments` does the same with
`Documents` and `TraceSequence`. `Documents` gives the pure operators
one input at a time, from any sets of files, stored payments, days and names, beside the
report reader: what is checked of a few inputs in `MCDocuments` is there a property of a
specification, and can be proved of all.

### How the models follow the code

* **A handler is its reads, then one commit.** Nothing is visible to others before the
  commit of `get_async_db`, so what a handler reads goes to `loc[r]` at the read, and its
  writes are one step. Reads that nothing can distinguish are merged: batches and their
  payments are loaded together (the relationship is `lazy="selectin"`), and vendor
  matching is merged with the fingerprint lookup. `pc[r]` names the await a request is at.
* **Only changed columns are written** (`Column`, `Updated`, `Merged`). SQLAlchemy
  compares with the value this session loaded, not with what is stored now.
* **What PostgreSQL does at commit**: an UPDATE of a row that is gone fails the request
  (`GenCommitError`, the failing branch of `EditCommit`, `Lost`), an UPDATE of a row
  locked by an uncommitted clear-all waits (`Locked`), a foreign key to a deleted row
  fails (`UploadForeignKeyError`, `SubmitForeignKeyError`), `ON DELETE SET NULL` clears
  references (`NullIf`, `Orphaned`).
* **Failure**: `Abort` may end a request at any await: an exception, a client or process
  gone, a generated text that does not validate. The session rolls back; sequence values
  stay drawn.
* **Clear-all** is four DELETEs with their own snapshots and one commit. Only the locks on
  payments can make another handler wait. At most one clear-all runs at a time (bound).
* **Data**: amounts are small numbers (totals are sums), vendors, invoices, bank columns
  are model values; an effective date is part of the invoice, as both only enter the
  fingerprint. The trace field keeps the low-order digits (`TraceField`), as the
  generator formats to 7 digits.
* **History variables and fields** (never read by a guard): `vetted`, `nfile.batches`,
  `nfile.explicit`, `call.mine`, `granted`, `latest`, `applied`; `blind` and `missed`
  (what was committed while a request ran), `sent`, `shared`, `raced`, `misses`, `meant`,
  `overwritten`, `lines`, `excess`, `strays`, `via`, `edited`. They let a property say exactly
  which interleavings it excepts: `TwinsExplained`, `CountsSends`, `AdminRemains` and
  `RotationKeeps` each hold for every behaviour but those in which one named request
  missed another, and even then keep part of the promise.
* **Two executions of one handler in one process** interleave only at awaits: `Check` and
  `Wrong` of `LoginThrottle` are atomic, as no `await` is inside them; the account is read
  in between. Worker processes share nothing but the database.
* **Text** is counted, not spelled: a field is a number of leading blanks, printable,
  unprintable characters and line ends, or a number in a radix, of which the low-order
  digits are kept. Names are tuples of letters where `match_vendor` compares prefixes.
* **Mutants** are definitions commented "Mutant"; they are no part of any specification.
  Each property is tried against one of them, put in place of the definition after it,
  and found violated.

| Model | Code |
|---|---|
| `vendor`, `batch`, `tally`, `payment`, `nfile`, `remit` | tables `vendors`, `upload_batches`, `payments`, `nacha_files` (with `raw_content` as `entries`), `vendor_remittances` |
| `seq` | `nacha_trace_sequence` |
| `UploadRead/Commit` | `upload_payment_spreadsheet`, `create_manual_payment_batch`, `detect_payment_duplicates` |
| `EditRead/Siblings/Batch/Commit` | `update_payment_item` |
| `GenRead/Vendors/Allocate/Explicit/Commit` | `combine_batches_and_generate_nacha` |
| `ClearRemittances/Payments/Files/Commit` | `clear_all_payment_history` |
| `Submit*`, `Review*`, `Enter*`, `Create*`, `BulkPreview`, `Confirm*`, `DeleteVendors` | the vendor endpoints; `status`, `bank`, `change` are the tables |
| `VendorDirectory`: `Create*`, `Edit*`, `Import*`, `BulkPreview`, `ConfirmRead`, `Seed*`, `Upload*`, `Merge*`, `Delete` | `create_vendor`, `update_vendor`, `bulk_upload_vendors`, `bulk_preview_vendors` and `bulk_confirm_vendors`, `seed_sample_vendors`, `upload_payment_spreadsheet`, `deduplicate_vendors`, the two deletions; `row` is the table, `owner` the foreign keys to it |
| `FileMade`, `DispatchRead`, `ResendRead`, `SendCommit`, `Email*`, `Delete*` | `combine_batches_and_generate_nacha`, `dispatch_pending_remittances`, `bulk_resend_remittances`, `send_single_remittance`, `update_remittance_email`, the two deletions; `advice` is `vendor_remittances` |
| `SignIn`, `CreateRead`, `StatusRead`, `ResetRead`, `PromoteRead`, `Finish` | `login`, `create_user` and `register_user`, `update_user_status`, `reset_user_password`, `promote_admin.py`, the commit of each; `users` is the table |
| `Check`, `Wrong`, `Right`, `Inactive`, `failed` | `login` around its query, `_failed_logins` |
| `Start`, `Write`, `CopyRead/Commit`, `Script*`, `SetKey`, `RemoveFallbacks` | `lifespan`, `encrypt_bank_detail` and `decrypt_bank_detail` in the handlers, `rotate_encryption_key.py`, the operator |
| `ReadTotal`, `ReadRow`, `End`, `block` | the loop of `_parse_qb_excel`, its locals; `Process` is `_process_qb_vendor_block` |
| `Valid`, `Records`, `EntryFor`, `Traces`, `Blocks` | `validate_nacha_input`, `generate_nacha_file`, the entries built by `combine_batches_and_generate_nacha` |

## 3. Runs

`CHECK_DEADLOCK FALSE` is said where the identifier pools run out: the service can go
on, the instance cannot. Symmetry is used only with safety properties, on sets whose
elements the properties do not tell apart.

| Run | Instance | Shows |
|---|---|---|
| `ledger_serial` | 1 request slot, 2 batches, 2 files, payments of known and unknown vendors, all endpoints | one at a time, the ledger pays every batch once, totals and fingerprints follow, files agree and reconcile, sent payments are frozen, and it implements `Disbursement` |
| `ledger_races` | 2 request slots; upload, edit, generate, vendor deletion | what survives interleaving: links, batch status, advices |
| `ledger_clear` | 2 slots, 3 files, clear-all beside uploads and generations | references stay live, numbers are not reused after a clear-all, a batch is paid at most once per request in flight |
| `ledger_answers` | 2 slots, fairness | every request is answered, those waiting for a lock too |
| `bank_serial` | 1 session, 2 vendors, 2 change requests, all endpoints | implements `MakerChecker`; the last details given are those in force; approvals and statuses agree |
| `bank_races` | 2 sessions, 1 known vendor, 2 requests, an over-long account number | every column holds a granted value, through these endpoints; requests never point at a deleted vendor |
| `race_double_payment` | 2 slots | counterexample: a batch in two files |
| `directory` | 2 sessions, 4 requests, 3 rows, a name, the same with an accent, and what SQL makes of that, 2 accounts, one file of three rows that repeats a name and an account, two reference vendors, an edit that makes twins and one that closes a vendor | names stay unique but for the edit form, overlapping requests, and requests whose form of a name tells two apart; a merge groups exactly what shared names and accounts connect, and leaves neither twins nor orphans |
| `documents` | files of up to 20 entries and two more batches; stored payments; the days of 13 years; 6 vendors, two of one name, and 12 names, in every subset and order; reports of 4 rows; 3 sessions interleaving `nextval` | the text is well blocked and reads back; nothing stored is refused for its length; all date rules agree; a match depends on no order, but between vendors of one spelling; money stays with its vendor; fresh consecutive runs of trace numbers (`TraceAllocator`) |
| `office` | 2 senders, 2 advices, each sent twice at most; 2 requests, 3 persons; 2 attempts at once, 7 in all, over 6 ticks; 2 workers, 2 columns, 3 keys, 1 write | counts follow the requests that sent; an administrator remains; failures are bounded; rotation loses nothing |
| `report_vanishes` | as `documents` | counterexample: a TOTAL row drops money that follows no vendor's name |
| `vendor_twins` | 1 session, a name with and without a full stop | counterexample: the seed endpoint adds a vendor beside one of the same normal form |

Bounds and why they are enough. Two requests suffice for every race listed: each is one
request committing between another's read and commit, and no handler depends on three.
`PaymentsBoundedByRequests` is the exception in spirit (it counts), and is
checked with as many files as the bound can reach plus one. Two batches let a file
combine batches and let two files share one; two or three payments let a file have two
entries, a batch two rows, and an edit a sibling. Two amounts and two invoices let an
edit change either column or both. `MaxTrace` is reached, so the end of the trace field
is exercised. Two values per bank column are what mixing needs. The details users enter
(`Details`) and the sheets (`Sheets`) are chosen so that the columns change apart and
together, rows repeat, and vendors are known, unknown and deleted.

`Vendors = 3` and `Requests = 4` let two requests create twins, a third refer to one of
them, and a merge follow, or three rows be chained by a name and by an account, the least
that tells components from pairs. The names of `directory` are chosen so that the three
forms disagree both ways. Two reference vendors make the seed endpoint look up twice before
its one commit; the two edits rename a vendor into a twin and set one inactive, which is all
that the properties and the matching of an upload tell apart. Of the names, SQL misses a vendor that has the name (`accented`, to one who asks
for `plain`) and finds one that has not (to one who asks for `cut`).

`Base = 2` gives each number field its width in binary
digits, so files reach the limits of the trace, amount and hash fields that would need
millions of entries in decimal; the widths themselves are the code's. `Entries = 20` makes
the records of a file run past two blocks through every remainder modulo ten. The years
2024 to 2036 begin on every day of the week, leap and not (2037 is there so that
December looks ahead). `MaxRows = 4` is a name, lines, a change of block and a TOTAL;
each row is of any type, named or not, and one amount is negative. `Sends = 2`,
`Writes = 1`: a lost count or an overwritten value needs no more, and every reader may be
anywhere when it happens. `Window` and `Lockout` are equal, as in the code (300 s), and a second is
two ticks, so that what is left of a lockout can be less than one. The bound in
`FailuresBounded`, `MaxFailed - 1 + 2 * |Caller|`, is reached: one less is violated.

Fairness. `FairSpec` of `PaymentLedger` asks strong fairness of the steps of a request in
flight: the event loop resumes a coroutine whose query has been answered, and an UPDATE
waiting for a row lock is queued by PostgreSQL and granted when the holder ends. Strong
rather than weak because a lock can be taken again by another clear-all before the waiter
is seen to be enabled. Nothing is assumed of the users: no request need ever start, and no
fairness is asked of `Abort`.

## 4. Theorems

All are checked by TLAPS from the assumptions the modules state on their constants
(`ConstantsAssumption`, `BankAssumption`, `AccountsAssumption`, `RotationAssumption`,
`DispatchAssumption`, `ThrottleAssumption`, `DirectoryAssumption`, `TraceAssumption`,
`ReportAssumption`, `DocumentsAssumption`, `BaseAssumption`, `YearsAssumption`,
`NoDateAssumption`), for any size of every set. What a theorem supposes beyond them is
said with it.

* `DocumentProofs`, trace numbers: typing; no number is drawn twice (`DrawnOnceHolds`); the
  contiguity test (`last - first + 1 = count`) decides ownership of the run
  (`SpanCountsDrawsHolds`) by counting the numbers of an interval; allocation implements
  `TraceAllocator` (`Implements`).
* `PaymentLedgerProofs`: `TypeCorrect`. The types alone are not inductive: the strengthening
  is `LocOK`, what each step may rely on in what the earlier steps read. The module also
  has the lemmas every later proof goes through for each step: what a commit writes
  (`UploadWrites`, `EditWrites`, ..., `OtherSteps`: everything else writes none of it) and
  how a step moves the request that takes it and no other (`FinishMoves`, ...).
  For any number of interleaved requests, all endpoints and vendor deletions included, it
  shows:
  - `SequenceTracesUniqueHolds`: the runs granted to requests in flight are disjoint from one
    another and from every entry, and lie at or below `seq`.
  - `LinksConsistentHolds`, `AdviceAgreesWithFileHolds` (`LinkInv`): besides the two, only
    that a file not yet written holds nothing. A commit writes the three sides of a link
    together, and clear-all removes them together.
  - `ReferencesLiveHolds`, `ClosedIffPaidHolds` (`CloseInv`): what makes them inductive is
    `Snapped` - a request on its way to a file holds all the stored payments of its
    batches, as no operation adds a payment to a batch that exists - and `Fresh`, the
    identifiers of an upload in flight are nobody else's. A second request may pay a batch
    again, and the properties still hold.
  - `PaymentsBoundedByRequestsHolds`, for finitely many requests (`Budget`): the files that
    paid a batch and the requests about to pay it are together no more than the requests.
    It rests on `PaidAreClosed`: once a batch is paid no other request can read it as open.
* `PaymentLedgerSerial`, under `OneRequest` (requests one after the other; a vendor may be
  deleted at any moment): no batch is paid twice (`SerialBatchPaidOnce`), ledger and files
  agree, fingerprints follow, vetted payments are unique, sent payments are frozen, and
  **the ledger implements `Disbursement`** (`KeepsPromiseHolds`), hence what
  `DisbursementProofs` derives from it holds of the ledger (`BankHearsOnceAndTrue`). The
  invariant `SerialInv` adds `Reads` to those above: what a request has read of a payment is
  what is stored when it commits. For the totals (`TotalsAgreeHolds`, `FilesReconcileHolds`)
  `SumInv` adds `SumReads`: the sum an edit has made of its batch is still the sum of the
  stored rows. That is what concurrency takes away: section 5 says how these properties fail
  without `OneRequest`.
* `Sums`: a sum over a finite set depends on no order (`SumIs`), changes by what one term
  changes (`SumChange`), and is the sum of the sums of its groups (`SumByGroup`), whatever
  the size of the set. The library's induction theorems cannot be used here; a smallest
  counterexample can (`Smallest`, from the well-foundedness of inclusion). It gives
  induction up to a number (`Upwards`) and, from that, that a function defined step by step
  exists and is the only one (`Iteration`), which is what a recursive definition needs
  before anything can be said of it. Naturals add up to a natural, and some of them to no
  more than all (`SumNatural`, `SumOfFewer`, `SumOfSlice`).
* `BankDetailsProofs`: `TypeCorrect` (strengthened by `LocOK` and `ReviewsExist`: a request
  that is decided has been submitted); for any number of sessions `ColumnsGrantedHolds`
  (what a flush leaves in a column is what it wrote or what it found; of the endpoints this
  module has, see section 5) and
  `RequestsReferToVendorsHolds`; for one session `LatestWinsHolds`, `DecisionStandsHolds`
  and the refinement `Implements`, from the invariant `AllFresh`: what a session read is
  what is stored. `LatestWinsHolds` and `Implements` also assume that no account number is
  too long; without that assumption both fail, as `RefusedLeavesUnchanged` does (below).
* `OfficeProofs`, accounts: `AdminRemainsHolds`, for any number of requests, scripts and persons. The
  invariant adds `Sound`: what a change in flight was made from still holds when it commits
  (its row exists, its administrator keeps the role, as no operation takes the role away),
  and a deactivation comes from an administrator other than the one it is of. So when the
  last active administrator is deactivated, the one who did it had been deactivated
  meanwhile, which is what `raced` records.
* `OfficeProofs`, keys: `RotationKeepsHolds`, for any number of workers, tables, columns, keys
  and writes. The invariant says why the operator may remove the old keys: while the script
  runs or its clean report stands, every worker has the keys of the environment (`Agreed`),
  so what a worker holds undecrypted was lost from the beginning (`WorkerOK`); the columns
  the script is through with are under the primary key unless it rewrites them or reported a
  failure (`ScriptOK`), so a clean report means that all are (`Sealed`).
* `OfficeProofs`, advices: `CountsSendsHolds`, for any number of senders and advices. The
  invariant `Tallied` is the property, with what is sent of a row that is not there yet;
  `SenderOK` says what makes the next count right: a request to send has loaded the count as
  it stands, unless the advice was sent meanwhile, which makes it `shared`, and it has never
  loaded more than was sent.
* `OfficeProofs`, sign-in: `FailuresBoundedHolds`, for any number of workers, sign-ins at once
  and attempts, when the lockout covers the window (`LockoutCovers`: true of the code's
  300 s and 300 s, and false of a lockout much shorter, whose end would let attempts in
  again and again). The invariant: a worker forgets only failures older than the window
  (`Remembers`); from the first failure of a window on, the attempts let in before the
  closure and those in flight are counted together (`Bounded`), and once a failure is late
  (`FailedLate`), only those in flight then are left.
* `DocumentProofs`: `TyposNoticed`, the check digit (`validate_routing_checksum`) for all
  routing numbers, where TLC could try few of the 10^9: the weights 3, 7, 1 and their
  differences 4, -6, 2 leave no other multiple of ten. `MoneyStaysWithVendorHolds`, for
  reports of any length: the property is inductive with the types of the block
  (`ReportInv`); what takes work is that every way of extending the list of invoices adds
  to its sum at most what it adds to the block.
* `DocumentProofs`, the pure operators, as invariants of `DocumentsSpec`: an input given is
  one of those supposed (`GivenOK`), and for each of those the property is a theorem of its
  own, so no step needs induction.
  - `FilesWellBlockedHolds`: any header and any batches, of any number and size, in any
    radix. The batches make one sequence of records (`FlattenIs`: the library's
    `FlattenSeq` is recursive, and `Iteration` says what it is), each of 94 characters and
    none a control of the file or a filler (`BodyIs`); what is added then fills the last
    block, and only that (`BlocksFill`). `WellBlocked` supposes that the six digits of the
    control can count the blocks, which nothing in the code sees to.
  - `FilesReadBackHolds`: the same files, read. First where everything stands: batch i begins
    at record `start[i - 1] + 2 * i`, two lines of its own for each batch before it
    (`Starts`, `Placing`, `RecordsAre`), so the type of a record says which lines are headers,
    payments and controls, and there are no others (`Kinds`). Then what a reader finds: the
    records of one type, taken in order, are those at the places of that type (`SelectIs`);
    the payments are those of the batches, one after the other, numbered through
    (`PaymentsAre`, `TracesAre`); between the header and the control of number i are the
    payments of batch i, as there are no more batches than payments and so fewer than the
    seven digits count (`FewBatches`, `EntriesAre`). What is left is arithmetic of fields: a
    number that fits is written as it is (`NumberIs`), a sum of some payments fits where that
    of all does (`SumOfSlice`), and numbers less than a field apart are written differently
    wherever they begin (`ModsDiffer`). `ReadsBack` supposes fewer payments than six digits
    count and a total that twelve digits hold; the code refuses neither.
  - `StoredPassHolds`: names and references of any length, of which the code takes only as
    much as fits (`ReceiverName`, `IdField`).
  - `NamesDeterminateHolds`: any directory, with any number of vendors of one spelling. An
    order of reading keeps one vendor of each spelling (`TableIs`), and the answer is one of
    those kept, or none (`Sole`, `OnlySole`, `MatchIs`). Two orders keep vendors of the same
    spellings, hence of the same words and scores, so the candidates of each rule correspond
    one to one (`SolesAgree`, `BestAlike`, `ClosestAlike`) and the answers are spelled alike
    (`AnswersAgree`). It supposes that one upper-case spelling has one list of words
    (`DocumentsAssumption`: not so where a letter becomes two, as SS for an eszett does).
  - `HolidaysKeptHolds`: any years of the calendar. The months before a day add up to the
    usual table (`DateIs`), the holidays lie in fixed weeks of it (`HolidaysAre`), so the
    days closed are at least ten days apart and inside the year (`FarApart`), which makes
    their number that of the holidays not on a Saturday (`HowManyClosed`), and no four days
    in a row are closed (`OpenWithinFour`), across a new year too (`YearsApart`).
  - `DatesAgreeHolds`: any run of years between 1969 and 2068, the ones two digits name to
    Python. The walk of `next_banking_day` ends, and on the day that has as many banking days
    behind it as were asked for (`WalkExists`, `AfterIs`); with four days the longest wait
    (`NextOpen`) it stays within the sixty days accepted, and in the two years known.
* `VendorDirectoryProofs`, for any number of sessions, requests, vendors and imported files
  of any length:
  - `TypeCorrect`, `TwinsExplainedHolds` (`DirectoryInv`), for any three normal forms. The
    look-up a request made long ago still protects what it writes, as far as it can tell
    names apart (`Clash`): whoever bears a name that the request may yet give (`Claims`: the
    name on the form, those of the rows and updates of a preview held by the browser, the
    reference vendors not found) came by it while the request ran (`Watched`). And no request
    gives one name twice (`Distinct`), which for a file that repeats a name rests on the rows
    being taken in their order (`TakenIs`), and for the reference vendors on the list naming
    none twice, save in forms the seed endpoint cannot tell apart. Filing under 22 characters
    must keep the words of a name (`ShortNames`, true of the run's names); only
    `TwinsExplainedHolds` supposes that, and without it the property is false.
  - `GroupsAreComponentsHolds`. `Find` climbs at most as many steps as there are vendors:
    every link leads to a lesser height, and the heights are bounded by the number of vendors
    looked at (`Heights`, `FindEnds`). After the first n vendors, those among them that
    share a name or an account are in one tree, and those in one tree are connected by a
    chain of such (`Grouped`, kept by each pass: `GroupingKeeps`, `UnionSound`). The property
    is a matter of the state alone, so no invariant of the steps is needed.
  - `OwnersLiveHolds`, `MergeSettlesHolds` (`MergeInv`). A merge relies, from its reading to
    its commit, on the vendors it moves to being there - that is what the row locks of its
    UPDATEs are for (`MayDelete`) - and, as long as nobody else has committed, on its groups
    and its list of moved rows being those of the directory (`Settling`).
* `DisbursementProofs`: the abstract promise means what it says: no payment is instructed
  twice, and a sent payment shows the amount the bank was told.

Only model-checked: liveness (`EveryRequestEnds`) and ENABLED, which the prover does not
handle. Every other property of a passing run, every safety invariant and every action
property, is stated by a theorem.

## 5. Disagreements

Three have a run and are findings in `PROJECT.json`: `race_double_payment`,
`report_vanishes` and `vendor_twins`. The last needs no overlap: the seed endpoint looks a
reference vendor up by its spelling (`vendors.py:257`) and adds it beside a vendor whose name
has other punctuation or case, although "vendor identity uses a single normal form"
(`README.md:17`). The others are reproduced by adding the property to the run named, or by
giving it the constants named.

* `SentIsFrozen` in `ledger_races`: an edit that read a payment while it was pending commits
  after a file took it (`payments.py:496` "A payment already written into a generated NACHA
  file must stay immutable").
* `NoUnmarkedDuplicate` in `ledger_serial`: a sheet that repeats a payment to a vendor not yet
  in the directory stores it twice unmarked (`duplicate_detector.py:52` "and intra-batch
  rows", line 87 skips rows without a vendor).
* `NeverMixed` in `bank_races`: two approvals leave the routing number of one request with the
  account number of the other (`vendors.py:1443` "The vendor's bank details remain UNCHANGED
  until approved").
* `RefusedLeavesUnchanged` in `bank_races`: `vendors.py:951` answers "bank details left
  unchanged" when an account number is too long; line 945 has set the routing number.
* `LedgerAgreesWithFiles` and `FilesReconcile` in `ledger_races`: an edit commits between
  the moment a generation reads the payments (`nacha_service.py:197`) and its commit, or the
  other way round, and the row, the file and the batch total no longer say one amount.
* `TotalsAgree` with two requests editing one batch: the total written last adds up an
  amount that has been replaced (`payments.py:489` "Recalculates batch total amount").
* `FingerprintFollows` with two edits of one payment, one of the amount and one of the
  invoice: both columns change, the fingerprint is that of neither pair (`payments.py:531`).
* `VettedAreUnique` with two uploads: both look the fingerprint up before either commits
  (`README.md:21` "flags duplicate payments across historical batches").
* `NoUnmarkedDuplicate` with one request and edits: `update_payment_item` recomputes the
  fingerprint and looks nothing up.
* A batch committed between the DELETE of payments and the DELETE of batches of clear-all
  leaves its payments behind with `batch_id` NULL (`remittances.py:549` "All payment history
  and records successfully cleared").
* Interleaved allocations draw numbers that are not consecutive
  (`nacha_service.py:52` "Atomically reserve count consecutive trace numbers"); the check at
  `nacha_service.py:78` then refuses the file, which is what `HandsOutFreshRuns` shows.
* `DecisionStands` with two sessions approving and rejecting one request: the last commit
  wins, and a request shown as rejected may have been applied
  (`vendors.py:1566`).
* A pending request whose vendor is deleted can be neither approved nor rejected:
  `scalar_one` raises at `vendors.py:1570` and `vendors.py:1648`.

What each of the newer properties excepts is reachable too, and TLC shows it when the
exception is taken out:

* `TwinsExplained`: two requests that both look a name up before either commits insert it
  twice, and the edit form (`update_vendor`) looks nothing up. And requests one after the
  other: `create_vendor` says that "both sides now go through the same normal form"
  (`vendors.py:414`), but its query strips what is not a letter from a to z and folds no
  accents (line 420), so it misses a vendor whose name has one, and may find, and on
  confirmation rename, a vendor of another name; an upload compares word by word, and the
  seed endpoint by spelling. From then on every upload that
  names the vendor fails at `payments.py:166` (`scalar_one_or_none`) unless a match by
  spelling comes first.
* `MergeSettles`: a payment attached to a duplicate between the relinking and the deletion
  loses its vendor. The fingerprints of moved payments are not recomputed. The oldest vendor
  is kept, active or not, although `vendors.py:1175` says "prioritize active".
* `CountsSends`: two requests that send one advice at a time are counted once
  (`email_service.py:28`). What is counted is requests, not messages: nothing is handed to a
  mail server. `send_single_remittance` sets a status, a time and a count
  (`email_service.py:24-29`), as the repository's `README.md:188` says ("marks records as sent
  without dispatching mail") and its own docstring does not ("Dispatch a single remittance
  email to the recipient vendor", `email_service.py:21`). An advice shown as sent, with a
  count, has reached nobody; no property here says otherwise.
* `ColumnsGranted` speaks of the endpoints of `BankDetails`: change requests, the form, bulk
  preview and confirm, deletion. An upload creates a vendor with the account its sheet
  carries (`payments.py:170`), the seed endpoint and its script those of their list
  (`vendors.py:263`), and the script sets the routing number of a vendor that is there, with
  no change request and nobody's approval.
* `NamesDeterminate`: of vendors of one upper-case spelling, `match_vendor` is shown the last
  one read (`spreadsheet_parser.py:341`), in an order no query fixes, and such vendors can
  come to be (`TwinsExplained`). So who of them is paid is chosen by the order, although
  "genuinely ambiguous names are reported as row errors rather than guessed"
  (`README.md:16`).
* `AdminRemains`: two administrators who deactivate one another leave none (`raced`).
* `FailuresBounded`: twice the attempts in flight, since `_login_retry_after` answers none in
  the last second of a lockout; and the window, as long as the lockout, forgets failures
  that began it before the lockout counted from the last of them ends.
* `RotationKeeps`: a value committed between the script's SELECT and its UPDATE is
  overwritten with the one before it (`overwritten`).
* `MoneyStaysWithVendor` fails once lines come before the first name: a bill line with no
  TOTAL row after it is carried into the next vendor's block.

Read in the code on the way, outside what the models tell apart: the fallback search for an
amount (`spreadsheet_parser.py:536-542`) may take a numeric invoice number; amounts are made
absolute line by line, so a credit adds to its block; an upload files a new vendor under 22
characters (`payments.py:166-171`), although `vendor_identity.py` keeps that limit to the
file; a name of letters the file cannot carry passes validation and is written blank; the
trace number shown with an advice may fall back on another entry's
(`remittances.py:202-213`); a username equal to another account's e-mail
address makes `scalar_one_or_none` raise at sign-in; `promote_admin.py` leaves an inactive
account inactive and reports success; the e-mail template in force is a variable of one
process.

## 6. Not modelled, and the plan

Not modelled because there is no protocol in it: rendering, e-mail templates, start-up
checks, hashing and token libraries, reading cells out of a workbook, the tabular sheets
(each row stands alone), the text of references (`_compress_invoices`), reports and audits
of the scripts. Audit rows commit with the change they record and are left out. The account
type is a third bank column like the two modelled; one updated vendor per bulk file stands
for several in `BankDetails`, each written by the same loop. The unique index of
`scripts/enforce_unique_vendor_names.py` is an optional step by hand; without it is the
harder case, and the one the migrations leave. The browser holds no state the server
trusts: whatever its screens send is a request in some order, which is what the models
allow.

Every safety and action property the runs check is a theorem, so what could come next is
more of the system, not more about what is modelled: the bank details read for a file while
a change of them is approved (`BankDetails` and `PaymentLedger` composed), the template of
the e-mail as a variable of each process, the rows of a sheet that name one new vendor
twice. `PROJECT.json` says under its hazards what is known of each now.
