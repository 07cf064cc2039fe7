------------------------------ MODULE Documents ------------------------------
(***************************************************************************)
(* The documents that go in and out of the system: the report reader as a  *)
(* state machine, and beside it the pure algorithms, one input at a time.  *)
(* What is given is either a report, read row by row, or one input of one  *)
(* of the others, taken from any set of such inputs.                       *)
(***************************************************************************)
EXTENDS NachaText, BankingCalendar, VendorMatching, QuickBooksReport

CONSTANTS
    Files,      \* a header and batches, before validation
    Stored,     \* a payment and its vendor, as the database has them
    Directory,  \* active vendors, with their names
    Incoming    \* names on a sheet

\* What the database and the requests can hold: numbers of any size, texts of any length;
\* the columns of a vendor's name are never empty.
StoredText == [indent : Nat, chars : Nat, other : Nat, newline : BOOLEAN]
StoredPayment == [cents : Int, reference : [alnum : Nat, placeholder : BOOLEAN]]
StoredVendor == [savings : BOOLEAN, routing : Seq(0..9), account : StoredText,
                 name : {n \in StoredText : n.chars + n.other > 0}]
Entry == [code : STRING, routing : Seq(0..9), account : StoredText, cents : Int, id : StoredText,
          name : StoredText]
Figure == [length : Nat, digits : BOOLEAN]
Heading == [named : BOOLEAN, funded : BOOLEAN, effective : Figure, created : Figure, time : Figure,
            modifier : Nat, description : STRING, start : Int]
File == [header : Heading, batches : Seq(Seq(Entry))]

\* Names of one upper-case spelling have the same words (true unless a letter becomes two:
\* SS for ß).  Any number of vendors may have one spelling.
DocumentsAssumption ==
    /\ Files \subseteq File
    /\ Stored \subseteq [payment : StoredPayment, vendor : StoredVendor]
    /\ IsFiniteSet(Directory)
    /\ \A v \in Directory, name \in Directory \cup Incoming :
          v.upper = name.upper => v.words = name.words

ASSUME DocumentsAssumption

VARIABLE given

documents == <<report, given>>

DocumentsInit == ReportInit /\ given = [kind |-> "report"]

-----------------------------------------------------------------------------
Fresh == given.kind = "report" /\ rows = 0
Give(input) == given' = input /\ UNCHANGED report

GiveFile    == \E file \in Files : Give([kind |-> "file", file |-> file])
GivePayment == \E s \in Stored : Give([kind |-> "payment", payment |-> s.payment, vendor |-> s.vendor])
GiveDay ==
    \E y \in Years \ {Max(Years)}, m \in 1..12 : \E d \in 1..MonthDays(y, m) :
        /\ Date(y, m, d) - 7 >= NewYear[Min(Years)]
        /\ Give([kind |-> "day", year |-> y, month |-> m, day |-> d])
GiveName ==
    \E name \in Incoming, S \in SUBSET Directory :
        Give([kind |-> "name", name |-> name, vendors |-> SetToSeq(S)])
ReadReport == given.kind = "report" /\ ReportNext /\ UNCHANGED given

DocumentsNext == (Fresh /\ (GiveFile \/ GivePayment \/ GiveDay \/ GiveName)) \/ ReadReport

DocumentsSpec == DocumentsInit /\ [][DocumentsNext]_documents

-----------------------------------------------------------------------------
\* What is generated (generate_nacha_file) is records of 94 characters in whole blocks of
\* ten, and the file control counts the blocks, wherever the last record falls.
FilesWellBlocked == given.kind = "file" => WellBlocked(given.file)

\* What the bank reads in a file is what was to be paid: amounts in order, sums and
\* counts that confirm them, trace numbers that differ, at the limits of the fields.
FilesReadBack == given.kind = "file" => ReadsBack(given.file)

\* What the system lets be stored, combine_batches_and_generate_nacha gets through
\* validation: long names and references never hold a file up.
StoredPass == given.kind = "payment" => StoredPaymentsPass(given.payment, given.vendor)

\* The default date, the dates accepted and the banking days say the same of each day
\* (next_banking_day and its two callers).
DatesAgree == given.kind = "day" => CalendarAgrees(given.year, given.month, given.day)

\* federal_reserve_holidays loses no holiday to a weekend or to the new year, and lists
\* no day twice (federal_reserve_holidays).
HolidaysKept == given.kind = "day" /\ given.month = 12 /\ given.day = 31 => HolidaysObserved(given.year)

\* match_vendor answers the same whatever the order of the vendors, but for those of one
\* spelling, and never picks one of several that are equally good.
NamesDeterminate == given.kind = "name" => MatchDeterminate(given.name, given.vendors)
=============================================================================
