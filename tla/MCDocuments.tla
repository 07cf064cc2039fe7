----------------------------- MODULE MCDocuments -----------------------------
(***************************************************************************)
(* Small sets of documents for TLC, and beside them the trace numbers a    *)
(* file is given, which share no state with its text.                      *)
(***************************************************************************)
EXTENDS Documents, TraceSequence, TLC

CONSTANTS Entries  \* how many entries the files have at most

MCAmount == {-1, 1, 3}

-----------------------------------------------------------------------------
(* Files.  Base is 2: fields have the widths of the code, in binary digits. *)

\* Routing numbers that pass, and one that does not.
Routings == {<<1,1,0,1,1,0,1,1,0>>, <<1,1,0,0,0,0,0,0,0>>, <<0,0,0,0,0,0,0,0,1>>}
MCEntry(routing, cents) ==
    [code |-> "22", routing |-> routing, account |-> Plain(9), cents |-> cents,
     id |-> Plain(4), name |-> Plain(12)]
Copies(n, entry) == [i \in 1..n |-> entry]
Headers ==
    LET h == [named |-> TRUE, funded |-> TRUE, effective |-> Digits(6), created |-> Digits(6),
              time |-> Digits(4), modifier |-> 1, description |-> "EPAYMNT", start |-> 1]
    IN  {h, [h EXCEPT !.start = Limit[7] - 2], [h EXCEPT !.start = 0],
         [h EXCEPT !.time = Digits(3)], [h EXCEPT !.effective = Digits(8)], [h EXCEPT !.modifier = 0]}
FirstBatches ==
    {Copies(n, MCEntry(routing, cents)) :
        n \in 0..Entries, cents \in {0, 1, Limit[10] - 1, Limit[10]}, routing \in Routings}
MoreBatches ==
    LET batch(n) == Copies(n, MCEntry(<<1,1,0,0,0,0,0,0,0>>, 5))
    IN  {<<>>, <<batch(1)>>, <<batch(2), batch(1)>>}
MCFiles == {[header |-> h, batches |-> <<first>> \o more] :
                h \in Headers, first \in FirstBatches, more \in MoreBatches}

\* Payments and vendors as stored: references up to 80 characters, names up to 120.
References == [alnum : {0, 3, 15, 16, 80}, placeholder : BOOLEAN]
Named == {[Plain(chars) EXCEPT !.other = other] : chars \in {1, 22, 23, 120}, other \in {0, 1, 22}}
MCStored ==
    {[payment |-> [cents |-> cents, reference |-> reference],
      vendor  |-> [savings |-> reference.placeholder, routing |-> <<1,1,0,0,0,0,0,0,0>>,
                   account |-> Plain(account), name |-> name]] :
        cents \in {0, 1, Limit[10] - 1, Limit[10]}, reference \in References,
        account \in {0, 1, 17, 18}, name \in Named}

-----------------------------------------------------------------------------
(* Names.                                                                   *)

MCName(upper, words, ascii) == [upper |-> upper, words |-> words, ascii |-> ascii]
KIRA == <<"K", "I", "R", "A">>
KIRAN == KIRA \o <<"N">>
GEMS == <<"G", "E", "M", "S">>
INC == <<"I", "N", "C">>
MCNames ==
    {MCName("KIRA", <<KIRA>>, TRUE), MCName("KIRAN GEMS INC", <<KIRAN, GEMS, INC>>, TRUE),
     MCName("KIRAN-GEMS", <<KIRAN, GEMS>>, TRUE), MCName("KIRAN GEMS", <<KIRAN, GEMS>>, TRUE),
     MCName("GEMS INC", <<GEMS, INC>>, TRUE)}
MCVendor(id, name) == [id |-> id, upper |-> name.upper, words |-> name.words, ascii |-> name.ascii]
\* The last is a twin: spelled like one of the others.
MCDirectory == {MCVendor(1, name) : name \in MCNames}
               \cup {MCVendor(2, MCName("KIRAN GEMS INC", <<KIRAN, GEMS, INC>>, TRUE))}
MCIncoming ==
    MCNames \cup
    {MCName("KIRAN GEMS INC.", <<KIRAN, GEMS, INC>>, TRUE), MCName("KIRAN", <<KIRAN>>, TRUE),
     MCName("KIRA GEMS INC", <<KIRA, GEMS, INC>>, TRUE), MCName("KIRA INC", <<KIRA, INC>>, TRUE), MCName("GEMS", <<GEMS>>, TRUE),
     MCName("*KIRA GEMS", <<GEMS>>, FALSE), MCName("KG", <<<<"K", "G">>>>, TRUE)}
MCAlias == "KG" :> "KIRAN GEMS INC"

-----------------------------------------------------------------------------
VARIABLE part

\* A behaviour is of one part; the other rests in its initial state.
MCInit == part \in {"documents", "traces"} /\ DocumentsInit /\ Init
MCNext ==
    /\ UNCHANGED part
    /\ \/ part = "documents" /\ DocumentsNext /\ UNCHANGED vars
       \/ part = "traces" /\ Next /\ UNCHANGED documents

MCSpec == MCInit /\ [][MCNext]_<<part, documents, vars>>

Interchangeable == Permutations(Request)
=============================================================================
