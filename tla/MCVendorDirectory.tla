-------------------------- MODULE MCVendorDirectory --------------------------
(***************************************************************************)
(* A small instance of VendorDirectory for TLC.                            *)
(***************************************************************************)
EXTENDS VendorDirectory, TLC

CONSTANTS plain, accented, cut, dotted, b1, b2, e, none

\* CAFE, CAFE with an accent on the E, and CAF, which is what SQL makes of the second.
MCName    == {plain, accented, cut}
MCKeyOf   == (plain :> e) @@ (accented :> e) @@ (cut :> none)
MCSqlKey  == (plain :> e) @@ (accented :> none) @@ (cut :> none)
MCSheets  ==
    {<<[name |-> plain, bank |-> b1], [name |-> accented, bank |-> b2], [name |-> cut, bank |-> b2]>>}
MCEdits   == {[name |-> accented, active |-> TRUE], [name |-> plain, active |-> FALSE]}
MCSamples == <<[name |-> plain, bank |-> b1], [name |-> cut, bank |-> b2]>>

\* CAFE and CAFE with a full stop, which all but the spelling take for one.
DottedName == {plain, dotted}
DottedKey  == (plain :> e) @@ (dotted :> e)
OneSample  == <<[name |-> plain, bank |-> b1]>>

Itself == [n \in Name |-> n]
Interchangeable == Permutations(Session)
=============================================================================
