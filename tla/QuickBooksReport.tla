--------------------------- MODULE QuickBooksReport ---------------------------
(***************************************************************************)
(* Reading a QuickBooks report of payments, row by row (_parse_qb_excel    *)
(* and _process_qb_vendor_block in services/spreadsheet_parser.py).  A     *)
(* report groups lines into blocks, one for each payment; nothing but the  *)
(* order of its rows says which line belongs to which.                     *)
(*                                                                         *)
(* Dates, and the text of a reference (_compress_invoices), are left out.  *)
(***************************************************************************)
EXTENDS Integers, Sequences, FiniteSets, FiniteSetsExt

CONSTANTS
    Vendor,   \* names on the rows (of one spelling each)
    Known,    \* those match_vendor resolves
    Amount,   \* what a cell may hold: integers other than 0
    InvoiceNumber,   \* invoice numbers
    MaxRows,  \* rows of a report (a bound)
    None

ASSUME ReportAssumption ==
    /\ Known \subseteq Vendor /\ Amount \subseteq Int \ {0} /\ MaxRows \in Nat
    /\ None \notin Vendor \cup Amount \cup InvoiceNumber

\* "payment" stands for the types Bill Pmt -Check, Check and Payment, "transfer"
\* for Bill Pmt and ACH, "other" for any other text, "" for none; the number of a
\* row may be a word such as ACH (placeholder).  `amount` is the cell of the amount
\* column, `side` the rightmost other cell with a positive number.
Row == [type : {"total", "payment", "transfer", "bill", "other", ""}, name : Vendor \cup {None},
        number : InvoiceNumber \cup {"placeholder", None}, amount : Amount \cup {None},
        side : {a \in Amount : a > 0} \cup {None}]

VARIABLES
    block,     \* current_vendor, current_amount, current_invoices
    paid,      \* valid_payments: what each vendor is paid
    reported,  \* errors: what was refused, for each vendor; and orphan rows
    orphans,
    rows,      \* rows read; MaxRows + 1 at the end of the report
    lines,     \* history: what the rows of each vendor say
    excess,    \* history: what a TOTAL row says over its lines
    strays     \* history: amounts of rows that follow no vendor, and are no orphans

report == <<block, paid, reported, orphans, rows, lines, excess, strays>>

Closed == [vendor |-> None, amount |-> 0, invoices |-> <<>>]
Nothing == [v \in Vendor |-> 0]

ReportInit ==
    /\ block = Closed
    /\ paid = Nothing /\ reported = Nothing /\ lines = Nothing /\ excess = Nothing
    /\ orphans = 0 /\ rows = 0 /\ strays = 0

Plus(totals, v, n) == IF v = None THEN totals ELSE [totals EXCEPT ![v] = @ + n]
Abs(n) == IF n < 0 THEN -n ELSE n
Header(r) == r.type \in {"payment", "transfer"}

\* A vendor block is a payment, or an error: the vendor is unknown or nothing is due.
Process(v, n) ==
    /\ paid'     = IF v \in Known /\ n > 0 THEN Plus(paid, v, n) ELSE paid
    /\ reported' = IF v \in Known /\ n > 0 THEN reported ELSE Plus(reported, v, n)

\* The amount of a row: its column, or for a line the rightmost positive cell.
AmountOf(r) == IF r.amount # None \/ Header(r) THEN r.amount ELSE r.side

\* TOTAL closes the block; what it says counts if it is more than the lines.
TotalOf(r) == CASE r.amount # None -> r.amount
                [] r.amount = None /\ r.side # None -> Abs(r.side)
                [] OTHER -> 0

ReadTotal(r) ==
    LET final == Max({block.amount, TotalOf(r)})
    IN  /\ r.type = "total"
        /\ Process(block.vendor, final)
        /\ excess' = Plus(excess, block.vendor, final - block.amount)
        /\ block' = Closed
        /\ UNCHANGED <<orphans, lines, strays>>

\* A payment header, or another vendor's name, ends a block that has lines.
Flushes(r) ==
    /\ block.vendor # None
    /\ Header(r) \/ (r.name # None /\ r.name # block.vendor)
    /\ block.amount > 0 \/ block.invoices # <<>>

\* Mutant: the invoices are cleared, the amount is not.
FlushedButAmount(r) == IF Flushes(r) THEN [Closed EXCEPT !.amount = block.amount] ELSE block
Flushed(r) == IF Flushes(r) THEN Closed ELSE block

Invoice(number, n) == [number |-> number, amount |-> n]
Value(r) == IF AmountOf(r) = None THEN 0 ELSE Abs(AmountOf(r))

\* A bill is an invoice of the block unless its number is a word; its amount is due.
Billed(b, r) ==
    [b EXCEPT !.amount = @ + Value(r),
              !.invoices = IF r.number \in InvoiceNumber THEN Append(@, Invoice(r.number, Value(r))) ELSE @]

\* Another row in the block is a continuation of its last invoice.
Extended(invoices, r) ==
    LET last == Len(invoices)
    IN  CASE last > 0 -> [invoices EXCEPT ![last] = Invoice(@.number, @.amount + Value(r))]
          [] last = 0 /\ r.number # None -> <<Invoice(r.number, Value(r))>>
          [] OTHER -> invoices

Continued(b, r) ==
    [b EXCEPT !.amount = @ + Value(r), !.invoices = Extended(@, r)]

ReadRow(r) ==
    LET named == IF r.name = None THEN Flushed(r) ELSE [Flushed(r) EXCEPT !.vendor = r.name]
        continues == r.type \in {"transfer", "other", ""} /\ named.vendor # None /\ Value(r) > 0
        orphan == r.type = "" /\ named.vendor = None
        counts == r.type = "bill" \/ continues
    IN  /\ r.type # "total"
        /\ IF Flushes(r) THEN Process(block.vendor, block.amount) ELSE UNCHANGED <<paid, reported>>
        /\ block' = CASE r.type = "bill" -> Billed(named, r)
                      [] continues -> Continued(named, r)
                      [] OTHER -> named
        /\ orphans' = orphans + (IF orphan THEN Value(r) ELSE 0)
        /\ lines' = IF counts THEN Plus(lines, named.vendor, Value(r)) ELSE lines
        /\ strays' = strays + (IF named.vendor = None /\ r.type \in {"bill", "other"} THEN Value(r) ELSE 0)
        /\ UNCHANGED excess

Read ==
    /\ rows < MaxRows
    /\ rows' = rows + 1
    /\ \E r \in Row : ReadTotal(r) \/ ReadRow(r)

\* The report ends without a TOTAL row.
End ==
    /\ rows <= MaxRows
    /\ rows' = MaxRows + 1
    /\ IF block.vendor # None /\ block.amount > 0 THEN Process(block.vendor, block.amount)
       ELSE UNCHANGED <<paid, reported>>
    /\ block' = Closed
    /\ UNCHANGED <<orphans, lines, excess, strays>>

ReportNext == Read \/ End

ReportSpec == ReportInit /\ [][ReportNext]_report

-----------------------------------------------------------------------------
\* What a vendor is paid, or is refused with a message, is what its own lines
\* and TOTAL rows say: no block takes the money of another, whichever rows name
\* a vendor and whichever close a block, as long as no line comes before the
\* first name.  The invoices of its remittance advice add up to no more.
MoneyStaysWithVendor ==
    LET Due(v) == IF block.vendor = v THEN block.amount ELSE 0
    IN  /\ strays = 0 =>
              \A v \in Vendor : paid[v] + reported[v] + Due(v) = lines[v] + excess[v]
        /\ SumFunction([i \in DOMAIN block.invoices |-> block.invoices[i].amount]) <= block.amount

\* At the end of a report every amount on a line has been paid or reported.
NothingVanishes ==
    rows > MaxRows =>
        MapThenSumSet(LAMBDA v : paid[v] + reported[v], Vendor)
            >= MapThenSumSet(LAMBDA v : lines[v], Vendor) + strays
=============================================================================
