---------------------------- MODULE VendorMatching ----------------------------
(***************************************************************************)
(* Which vendor a name in a spreadsheet stands for (match_vendor and       *)
(* VENDOR_NAME_ALIASES in services/spreadsheet_parser.py).                 *)
(*                                                                         *)
(* A name is its upper-case spelling, the words of its normal form (each   *)
(* a sequence of letters) and whether it is written in ASCII.              *)
(***************************************************************************)
EXTENDS Integers, Sequences, FiniteSets, FiniteSetsExt, SequencesExt

CONSTANTS
    Alias,    \* VENDOR_NAME_ALIASES: a function from some spellings to spellings
    NoVendor

-----------------------------------------------------------------------------
(* The directory is a sequence of vendors, each a row of the table with a     *)
(* name, in the order the query returns the active ones.  vendor_map is a    *)
(* table of them keyed by spelling: of those spelled alike, which nothing    *)
(* prevents (VendorDirectory), it has the last.                              *)

Table(vendors) ==
    {i \in DOMAIN vendors : \A j \in DOMAIN vendors : vendors[j].upper = vendors[i].upper => j <= i}
Spelled(vendors, upper) == {i \in Table(vendors) : vendors[i].upper = upper}
SameWords(vendors, words) == {i \in Table(vendors) : vendors[i].words = words}

Blank == " "
Text(name) == FoldLeft(LAMBDA t, w : IF t = <<>> THEN w ELSE t \o <<Blank>> \o w, <<>>, name.words)
Common(a, b) == Len(LongestCommonPrefix({Text(a), Text(b)}))

\* The share of common words is a fraction: overlap over the longer of the two.
Overlap(a, b) == Cardinality(ToSet(a.words) \cap ToSet(b.words))
Longer(a, b)  == Max({Cardinality(ToSet(a.words)), Cardinality(ToSet(b.words))})
Scores(name, v, w) == Overlap(name, v) * Longer(name, w) - Overlap(name, w) * Longer(name, v)
AboveThreshold(name, v) == 20 * Overlap(name, v) >= 9 * Longer(name, v)  \* 0.45

\* The vendors of the best score.
Best(name, vendors) ==
    {i \in Table(vendors) : /\ Overlap(name, vendors[i]) > 0 /\ AboveThreshold(name, vendors[i])
                            /\ \A j \in Table(vendors) : Scores(name, vendors[i], vendors[j]) >= 0}

\* Among equals the longest common prefix decides.
\* Mutant: the first of them is taken.
FirstOfBest(name, vendors, best) == {Min(best)}
Closest(name, vendors, best) ==
    {i \in best : \A j \in best : Common(name, vendors[i]) >= Common(name, vendors[j])}

Match(vendor) == [vendor |-> vendor, ambiguous |-> FALSE]
Unmatched == Match(NoVendor)
Ambiguous == [vendor |-> NoVendor, ambiguous |-> TRUE]

\* One vendor, or nobody is picked.
Only(vendors, found) == IF Cardinality(found) = 1 THEN Match(vendors[Min(found)]) ELSE Ambiguous

MatchVendor(name, vendors) ==
    LET exact   == Spelled(vendors, name.upper)
        aliased == IF name.upper \in DOMAIN Alias THEN Spelled(vendors, Alias[name.upper]) ELSE {}
        same    == SameWords(vendors, name.words)
        best    == Best(name, vendors)
    IN  IF exact # {} THEN Only(vendors, exact)
        ELSE IF aliased # {} THEN Only(vendors, aliased)
        ELSE IF same # {} THEN Only(vendors, same)
        ELSE IF name.ascii /\ best # {} THEN Only(vendors, Closest(name, vendors, best))
        ELSE Unmatched

-----------------------------------------------------------------------------
Alike(v, w) == v.upper = w.upper

\* One answer and another: the same, or vendors spelled alike.
SameAnswer(vendors, a, b) ==
    /\ a.ambiguous = b.ambiguous
    /\ \/ a.vendor = b.vendor
       \/ {a.vendor, b.vendor} \subseteq ToSet(vendors) /\ Alike(a.vendor, b.vendor)

\* The order in which the directory is read chooses between vendors of one
\* upper-case spelling and decides nothing else: neither the spelling a payment
\* reaches, nor whether one is picked.  A name the directory has under another
\* spelling is never taken for a similar one; and one with foreign letters, that
\* could pass for another, never is.
MatchDeterminate(name, vendors) ==
    LET match == MatchVendor(name, vendors)
        known == {v \in ToSet(vendors) : v.words = name.words}
    IN  /\ \A order \in SetToSeqs(ToSet(vendors)) :
              SameAnswer(vendors, MatchVendor(name, order), match)
        /\ match.vendor # NoVendor /\ name.upper \notin DOMAIN Alias =>
              /\ known # {} => match.vendor \in known
              /\ ~name.ascii => match.vendor.upper = name.upper \/ match.vendor \in known
=============================================================================
