------------------------------ MODULE NachaText ------------------------------
(***************************************************************************)
(* The text of a NACHA file: what is refused, the records written, and     *)
(* what can be read back from them (nacha/generator.py, validation.py,     *)
(* id_field.py, and the use services/nacha_service.py makes of them).      *)
(*                                                                         *)
(* A record is its fields and its length.  A number is written in the      *)
(* digits of a radix Base and keeps the low-order ones that fit.  A text   *)
(* is how many characters of which kind it has: leading blanks, printable  *)
(* ones, ones that the file cannot carry, line ends.                       *)
(***************************************************************************)
EXTENDS Integers, Sequences, FiniteSets, FiniteSetsExt, SequencesExt

CONSTANT Base  \* 10 in the code

ASSUME BaseAssumption == Base \in Nat \ {0, 1}

RecordLen == 94
BlockSize == 10

\* The numbers of up to twelve digits: those below Limit[12].
Limit[width \in 0..12] == IF width = 0 THEN 1 ELSE Base * Limit[width - 1]
Least(a, b) == IF a < b THEN a ELSE b

-----------------------------------------------------------------------------
(* Fields.                                                                  *)

\* _pad_left of a number: a longer one loses its high-order digits.
Number(n, width) == n % Limit[width]

\* Text: _clean_str drops what is not printable, _pad_right the end.
Raw(text)      == text.indent + text.chars + text.other
Stripped(text) == text.chars + text.other
Written(text, width) ==
    LET indent == Least(text.indent, width)
    IN  [indent |-> indent, chars |-> Least(text.chars, width - indent)]
Plain(n) == [indent |-> 0, chars |-> n, other |-> 0, newline |-> FALSE]

\* nacha_id_field: the reference without what is not a letter or digit, else
\* the last digits of the account, else "EPAY".
IdField(reference, accountDigits) ==
    CASE ~reference.placeholder /\ reference.alnum > 0 -> Plain(Least(reference.alnum, 15))
      [] (reference.placeholder \/ reference.alnum = 0) /\ accountDigits > 0 -> Plain(Least(accountDigits, 5))
      [] OTHER -> Plain(4)

\* nacha_receiver_name: blanks collapsed and trimmed, then 22 characters.
\* Mutant: the name goes into the file as it is stored.
ReceiverNameUncut(name) == name
ReceiverName(name) ==
    LET chars == Least(name.chars, 22)
    IN  [Plain(chars) EXCEPT !.other = Least(name.other, 22 - chars)]

-----------------------------------------------------------------------------
(* Validation.                                                              *)

\* The weights 3, 7, 1 of the ABA check digit.
Weighted(d) == 3 * (d[1] + d[4] + d[7]) + 7 * (d[2] + d[5] + d[8]) + (d[3] + d[6] + d[9])
RoutingValid(d) == Len(d) = 9 /\ (\A i \in DOMAIN d : d[i] \in 0..9) /\ Weighted(d) % 10 = 0

EntryValid(e) ==
    /\ e.code \in {"22", "32"}
    /\ RoutingValid(e.routing)
    /\ Stripped(e.account) \in 1..17
    /\ ~e.account.newline /\ ~e.name.newline /\ ~e.id.newline
    /\ e.cents \in 1..(Limit[10] - 1)
    /\ Raw(e.id) <= 15
    /\ Stripped(e.name) \in 1..22

Rejected == {"PAYROLL", "REVERSAL", "NONSETTLED", "RECLAIM", "RETRY PMT", "RETURN FEE"}
Digits(n) == [length |-> n, digits |-> TRUE]

HeaderValid(h) ==
    /\ h.named /\ h.funded
    /\ h.effective = Digits(6) /\ h.created = Digits(6) /\ h.time = Digits(4)
    /\ h.modifier = 1
    /\ h.description \notin Rejected
    /\ h.start >= 1

Valid(file) ==
    /\ HeaderValid(file.header)
    /\ file.batches # <<>>
    /\ \A i \in DOMAIN file.batches :
          /\ file.batches[i] # <<>>
          /\ \A j \in DOMAIN file.batches[i] : EntryValid(file.batches[i][j])

-----------------------------------------------------------------------------
(* Records.                                                                 *)

FileHeader(h) ==
    [type |-> "1",
     length |-> 1 + 2 + 10 + 10 + h.created.length + h.time.length + h.modifier
                + 3 + 2 + 1 + 23 + 23 + 8]

BatchHeader(h, i) ==
    [type |-> "5", batch |-> Number(i, 7),
     length |-> 1 + 3 + 16 + 20 + 10 + 3 + 10 + 2 * h.effective.length + 3 + 1 + 8 + 7]

\* The first eight digits of the routing number.
Dfi(e) == FoldLeft(LAMBDA n, d : Base * n + d, 0, SubSeq(e.routing, 1, 8))

EntryDetail(e, trace) ==
    [type |-> "6", dfi |-> Dfi(e), account |-> Written(e.account, 17),
     amount |-> Number(e.cents, 10), trace |-> Number(trace, 7),
     length |-> 1 + 2 + Least(8, Len(e.routing)) + 1 + 17 + 10 + 15 + 22 + 2 + 1 + 8 + 7]

\* Sums are taken of the payments, not of the fields written.
Controls(entries) ==
    [count  |-> Len(entries),
     hash   |-> SumFunction([j \in DOMAIN entries |-> Dfi(entries[j])]),
     credit |-> SumFunction([j \in DOMAIN entries |-> entries[j].cents])]

BatchControl(entries, i) ==
    LET c == Controls(entries)
    IN  [type |-> "8", batch |-> Number(i, 7), count |-> Number(c.count, 6),
         hash |-> Number(c.hash, 10), credit |-> Number(c.credit, 12),
         length |-> 1 + 3 + 6 + 10 + 12 + 12 + 10 + 19 + 6 + 8 + 7]

FileControl(batches, blocks) ==
    LET c == Controls(FlattenSeq(batches))
    IN  [type |-> "9", batches |-> Number(Len(batches), 6), blocks |-> Number(blocks, 6),
         count |-> Number(c.count, 8), hash |-> Number(c.hash, 10), credit |-> Number(c.credit, 12),
         length |-> 1 + 6 + 6 + 8 + 10 + 12 + 12 + 39]

Filler == [type |-> "filler", length |-> RecordLen]

\* Mutant: each batch counts its traces from the start of the file.
TracesRestarted(file, i) == [j \in DOMAIN file.batches[i] |-> file.header.start + j - 1]
Traces(file, i) ==
    LET before == SumFunction([k \in 1..(i - 1) |-> Len(file.batches[k])])
    IN  [j \in DOMAIN file.batches[i] |-> file.header.start + before + j - 1]

BatchRecords(file, i) ==
    LET entries == file.batches[i]
    IN  <<BatchHeader(file.header, i)>>
        \o [j \in DOMAIN entries |-> EntryDetail(entries[j], Traces(file, i)[j])]
        \o <<BatchControl(entries, i)>>

\* Mutant: the file control itself is not counted.
BlocksBeforeControl(body) == (Len(body) + BlockSize - 1) \div BlockSize
Blocks(body) == (Len(body) + 1 + BlockSize - 1) \div BlockSize

Records(file) ==
    LET body == <<FileHeader(file.header)>>
                \o FlattenSeq([i \in DOMAIN file.batches |-> BatchRecords(file, i)])
        blocks == Blocks(body)
    IN  body \o <<FileControl(file.batches, blocks)>>
             \o [i \in 1..(BlockSize * blocks - Len(body) - 1) |-> Filler]

\* generate_nacha_file: refused, broken (a record of another length) or written.
Broken(records) == \E i \in DOMAIN records : records[i].length # RecordLen
Outcome(file) == CASE ~Valid(file) -> "refused"
                   [] Valid(file) /\ Broken(Records(file)) -> "broken"
                   [] OTHER -> "written"

\* combine_batches_and_generate_nacha: the entry for a payment of a vendor.
EntryFor(payment, vendor) ==
    [code |-> IF vendor.savings THEN "32" ELSE "22", routing |-> vendor.routing,
     account |-> vendor.account, cents |-> payment.cents,
     id |-> IdField(payment.reference, vendor.account.chars), name |-> ReceiverName(vendor.name)]

-----------------------------------------------------------------------------
(* Reading a file: by the bank, and by the service for its own records.     *)

OfType(records, type) ==
    LET taken[n \in 0..Len(records)] ==  \* from the first n lines
            IF n = 0 THEN <<>>
            ELSE IF records[n].type = type THEN Append(taken[n - 1], records[n])
            ELSE taken[n - 1]
    IN  taken[Len(records)]
HowMany(records, type) == Cardinality({i \in DOMAIN records : records[i].type = type})

\* What a record control says, against the entries before it.
Confirms(control, entries) ==
    /\ control.count = Len(entries)
    /\ control.hash = SumFunction([j \in DOMAIN entries |-> entries[j].dfi]) % Limit[10]
    /\ control.credit = SumFunction([j \in DOMAIN entries |-> entries[j].amount])

\* The entries between the i-th batch header and its control.
EntriesOf(records, i) ==
    LET at(type) == CHOOSE k \in DOMAIN records : records[k].type = type /\ records[k].batch = i
    IN  SubSeq(records, at("5") + 1, at("8") - 1)

\* A file that passed validation has lines of one length, in whole blocks of
\* ten that its control counts, with fewer than ten fillers after it: whatever
\* the number of records, a multiple of ten included.  (Six digits count the
\* blocks; nothing refuses a file that has more.)
WellBlocked(file) ==
    LET records == Records(file)
        last    == HowMany(records, "filler")
        control == records[Len(records) - last]
    IN  Valid(file) /\ Len(records) < BlockSize * Limit[6] =>
          /\ Outcome(file) = "written"
          /\ Len(records) % BlockSize = 0 /\ last < BlockSize
          /\ control.type = "9" /\ HowMany(records, "9") = 1
          /\ control.blocks * BlockSize = Len(records)

\* Read back from the text, every payment has its amount, each control agrees
\* with the entries it closes and the last with all of them, and no two
\* entries have one trace number, wherever the numbers start.  (Totals that
\* outgrow their fields are the exception: nothing refuses them.)
ReadsBack(file) ==
    LET records  == Records(file)
        entries  == OfType(records, "6")
        payments == FlattenSeq(file.batches)
    IN  Valid(file) /\ SumFunction([i \in DOMAIN payments |-> payments[i].cents]) < Limit[12]
           /\ Len(payments) < Limit[6] =>
          /\ [i \in DOMAIN entries |-> entries[i].amount] = [i \in DOMAIN payments |-> payments[i].cents]
          /\ \A i, j \in DOMAIN entries : i # j => entries[i].trace # entries[j].trace
          /\ \A i \in DOMAIN file.batches :
                Confirms(OfType(records, "8")[i], EntriesOf(records, i))
          /\ Confirms(OfType(records, "9")[1], entries)

\* One mistyped digit of a routing number, or two neighbours that differ by
\* other than five swapped, is always noticed.
TypoNoticed(d) ==
    RoutingValid(d) =>
        /\ \A i \in 1..9, x \in 0..9 : x # d[i] => ~RoutingValid([d EXCEPT ![i] = x])
        /\ \A i \in 1..8 : (d[i] - d[i + 1]) \notin {-5, 0, 5} =>
              ~RoutingValid([d EXCEPT ![i] = d[i + 1], ![i + 1] = d[i]])

\* A payment is refused at generation only for its amount or its vendor's bank
\* details: no name and no reference that the system stores is, however long;
\* an account number without blanks before it is written whole.
StoredPaymentsPass(payment, vendor) ==
    LET e == EntryFor(payment, vendor)
    IN  /\ RoutingValid(vendor.routing) /\ Stripped(vendor.account) \in 1..17
              /\ ~vendor.account.newline /\ payment.cents \in 1..(Limit[10] - 1) => EntryValid(e)
        /\ EntryValid(e) /\ vendor.account.indent = 0 =>
              EntryDetail(e, 1).account.chars = vendor.account.chars
=============================================================================
