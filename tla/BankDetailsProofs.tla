-------------------------- MODULE BankDetailsProofs --------------------------
(***************************************************************************)
(* Proofs about BankDetails: for any number of sessions at a time, unless  *)
(* a theorem assumes that there is one.                                    *)
(***************************************************************************)
EXTENDS BankDetails, TLAPS

Labels == {"idle", "submit", "review", "decide", "enter", "create", "preview", "confirm"}

\* The steps that follow the reading of the vendor row.
Loaded == {"decide", "enter", "confirm"}

LocRow == [change : Change \cup {None}, vendor : Vendor \cup {None},
           seen : Bank \cup {None}, new : Bank \cup {None},
           cols : SUBSET {"routing", "account"}, verdict : {"approved", "rejected", None}]

SessionOK(label, l) ==
    /\ label # "idle" => l.new \in Bank
    /\ label \in Loaded => l.vendor \in Vendor /\ l.seen \in Bank
    /\ label \in {"submit", "preview"} => l.vendor \in Vendor
    /\ label \in {"review", "decide"} => l.change \in Change /\ l.verdict \in {"approved", "rejected"}

LocOK ==
    /\ pc \in [Session -> Labels]
    /\ loc \in [Session -> LocRow]
    /\ \A s \in Session : SessionOK(pc[s], loc[s])

TypeInv == TypeOK /\ LocOK

\* A request that is being decided has been submitted.
ReviewsExist ==
    \A s \in Session : pc[s] \in {"review", "decide"} => change[loc[s].change].status # "absent"

-----------------------------------------------------------------------------
(* The columns of a row.                                                    *)

\* A flush leaves each column with the value written or the value it found.
LEMMA MergedColumns ==
    ASSUME NEW row \in Bank, NEW new \in Bank, NEW old \in Bank
    PROVE  /\ Merged(row, new, old) \in Bank
           /\ Merged(row, new, old).routing \in {new.routing, row.routing}
           /\ Merged(row, new, old).account \in {new.account, row.account}
           /\ row = old => Merged(row, new, old) = new
BY DEF Merged, Column, Bank

LEMMA ConfirmedBank ==
    ASSUME NEW l \in LocRow, l.new \in Bank, l.seen \in Bank
    PROVE  /\ Confirmed(l) \in Bank
           /\ Confirmed(l).routing \in {l.new.routing, l.seen.routing}
           /\ Confirmed(l).account \in {l.new.account, l.seen.account}
BY DEF Confirmed, Column, Bank

\* What a commit does to the bank details of each vendor.
LEMMA FlushRows ==
    ASSUME TypeOK, NEW v \in Vendor, NEW new \in Bank, NEW old \in Bank,
           Flush(v, new, old), ~Lost(v, new, old)
    PROVE  /\ bank' \in [Vendor -> Bank \cup {None}]
           /\ \A w \in Vendor \ {v} : bank'[w] = bank[w]
           /\ Live(v) => bank'[v] \in Bank
           /\ new = old => bank' = bank
           /\ new # old => Live(v) /\ bank'[v] = Merged(bank[v], new, old)
<1>1. CASE new = old
  BY <1>1 DEF Flush, TypeOK
<1>2. CASE new # old
  <2>1. Live(v) /\ bank[v] \in Bank
    BY <1>2 DEF Lost, TypeOK
  <2>2. Merged(bank[v], new, old) \in Bank
    BY <2>1, MergedColumns
  <2>3. bank' = [bank EXCEPT ![v] = Merged(bank[v], new, old)]
    BY <1>2, Zenon DEF Flush
  <2> QED
    BY <1>2, <2>1, <2>2, <2>3 DEF TypeOK
<1> QED
  BY <1>1, <1>2

-----------------------------------------------------------------------------
(* Typing.                                                                  *)

LEMMA BlankType == Blank \in LocRow
BY DEF Blank, LocRow

LEMMA FinishLoc ==
    ASSUME LocOK, NEW s \in Session, Finish(s)
    PROVE  LocOK'
BY BlankType DEF LocOK, Finish, Labels, Loaded, SessionOK

LEMMA GotoLoc ==
    ASSUME LocOK, NEW s \in Session, NEW label \in Labels, Goto(s, label),
           NEW l \in LocRow, loc' = [loc EXCEPT ![s] = l], SessionOK(label, l)
    PROVE  LocOK'
BY DEF LocOK, Goto

LEMMA GrantType ==
    ASSUME TypeOK, NEW v \in Vendor, NEW b \in Bank, Grant(v, b)
    PROVE  /\ granted' \in [Vendor -> SUBSET Bank]
           /\ latest' \in [Vendor -> Bank \cup {None}]
BY DEF TypeOK, Grant

LEMMA InitType == Init => TypeInv
<1> SUFFICES ASSUME Init PROVE TypeInv
  OBVIOUS
<1> USE BankAssumption
<1>1. TypeOK
  BY DEF Init, TypeOK, NoChange, ChangeRow, Live
<1>2. LocOK
  BY BlankType DEF Init, LocOK, Labels, Loaded, SessionOK
<1> QED
  BY <1>1, <1>2 DEF TypeInv

\* A step that only reads leaves the database as it was.
LEMMA ReadType ==
    ASSUME TypeInv, NEW s \in Session, NEW label \in Labels, Goto(s, label), NEW l \in LocRow,
           loc' = [loc EXCEPT ![s] = l], SessionOK(label, l), UNCHANGED <<db, history>>
    PROVE  TypeInv'
<1>1. TypeOK'
  BY DEF db, history, TypeInv, TypeOK, Live
<1>2. LocOK'
  BY GotoLoc DEF TypeInv
<1> QED
  BY <1>1, <1>2 DEF TypeInv

LEMMA DeleteType ==
    ASSUME TypeInv, NEW s \in Session, NEW vs \in SUBSET Vendor, DeleteVendors(s, vs)
    PROVE  TypeInv'
<1>1. \A c \in Change : /\ Orphaned(change[c], vs) \in ChangeRow
                        /\ Orphaned(change[c], vs).status = change[c].status
                        /\ Orphaned(change[c], vs).bank = change[c].bank
  BY DEF Orphaned, TypeInv, TypeOK, ChangeRow
<1>2. TypeOK'
  BY <1>1 DEF DeleteVendors, TypeInv, TypeOK, history, Live
<1>3. LocOK'
  BY DEF DeleteVendors, TypeInv, LocOK
<1> QED
  BY <1>2, <1>3 DEF TypeInv

LEMMA StartType ==
    ASSUME TypeInv, NEW s \in Session, Start(s)
    PROVE  TypeInv'
<1>b. Details \subseteq Bank
  BY BankAssumption
<1>1. ASSUME NEW v \in Vendor, NEW b \in Details, SubmitRead(s, v, b) PROVE TypeInv'
  <2> DEFINE l == [Blank EXCEPT !.vendor = v, !.new = b]
  <2>1. l \in LocRow /\ SessionOK("submit", l)
    BY <1>b DEF Blank, LocRow, SessionOK, Loaded
  <2> QED
    BY <1>1, <2>1, ReadType DEF SubmitRead, Labels
<1>2. ASSUME NEW v \in Vendor, NEW b \in Details, EnterRead(s, v, b) PROVE TypeInv'
  <2> DEFINE l == [Blank EXCEPT !.vendor = v, !.seen = bank[v], !.new = b]
  <2>1. bank[v] \in Bank
    BY <1>2 DEF EnterRead, TypeInv, TypeOK
  <2>2. l \in LocRow /\ SessionOK("enter", l)
    BY <1>b, <2>1 DEF Blank, LocRow, SessionOK, Loaded
  <2> QED
    BY <1>2, <2>2, ReadType DEF EnterRead, Labels
<1>3. ASSUME NEW v \in Vendor, NEW b \in Details, BulkPreview(s, v, b) PROVE TypeInv'
  <2> DEFINE l == [Blank EXCEPT !.vendor = v, !.new = b, !.cols = Differing(b, bank[v])]
  <2>1. l \in LocRow /\ SessionOK("preview", l)
    BY <1>b DEF Blank, LocRow, SessionOK, Loaded, Differing
  <2> QED
    BY <1>3, <2>1, ReadType DEF BulkPreview, Labels
<1>4. ASSUME NEW b \in Details, CreateRead(s, b) PROVE TypeInv'
  <2> DEFINE l == [Blank EXCEPT !.new = b]
  <2>1. l \in LocRow /\ SessionOK("create", l)
    BY <1>b DEF Blank, LocRow, SessionOK, Loaded
  <2> QED
    BY <1>4, <2>1, ReadType DEF CreateRead, Labels
<1>5. ASSUME NEW c \in Change, NEW verdict \in {"approved", "rejected"}, ReviewRead(s, c, verdict)
      PROVE  TypeInv'
  <2> DEFINE l == [Blank EXCEPT !.change = c, !.vendor = change[c].vendor,
                                !.new = change[c].bank, !.verdict = verdict]
  <2>1. change[c].vendor \in Vendor \cup {None} /\ change[c].bank \in Bank
    BY <1>5 DEF ReviewRead, Reviewable, TypeInv, TypeOK, ChangeRow
  <2>2. l \in LocRow /\ SessionOK("review", l)
    BY <2>1 DEF Blank, LocRow, SessionOK, Loaded
  <2> QED
    BY <1>5, <2>2, ReadType DEF ReviewRead, Labels
<1> QED
  BY <1>1, <1>2, <1>3, <1>4, <1>5, DeleteType DEF Start

\* The vendor row is read again by its identifier.
LEMMA LoadType ==
    ASSUME TypeInv, NEW s \in Session, ReviewVendor(s) \/ ConfirmRead(s)
    PROVE  TypeInv'
<1> USE DEF TypeInv
<1>1. TypeOK'
  BY DEF ReviewVendor, ConfirmRead, Fail, db, history, TypeOK, Live
<1>2. CASE ~Live(loc[s].vendor)
  BY <1>1, <1>2, FinishLoc DEF ReviewVendor, ConfirmRead, Fail
<1>3. CASE Live(loc[s].vendor)
  <2> DEFINE l == [loc[s] EXCEPT !.seen = bank[loc[s].vendor]]
  <2>1. bank[loc[s].vendor] \in Bank /\ loc[s].vendor \in Vendor
    BY <1>3 DEF TypeOK, Live
  <2>2. l \in LocRow /\ l.seen \in Bank /\ l.vendor \in Vendor
    BY <2>1 DEF LocOK, LocRow
  <2>3. loc' = [loc EXCEPT ![s] = l]
    BY <1>3 DEF ReviewVendor, ConfirmRead
  <2>4. CASE ReviewVendor(s)
    <3>1. SessionOK("decide", l)
      BY <2>2, <2>4 DEF ReviewVendor, LocOK, LocRow, SessionOK, Loaded
    <3> HIDE DEF l
    <3> QED
      BY <1>1, <1>3, <2>2, <2>3, <2>4, <3>1, GotoLoc DEF ReviewVendor, Labels
  <2>5. CASE ConfirmRead(s)
    <3>1. SessionOK("confirm", l)
      BY <2>2, <2>5 DEF ConfirmRead, LocOK, LocRow, SessionOK, Loaded
    <3> HIDE DEF l
    <3> QED
      BY <1>1, <1>3, <2>2, <2>3, <2>5, <3>1, GotoLoc DEF ConfirmRead, Labels
  <2> QED
    BY <2>4, <2>5
<1> QED
  BY <1>2, <1>3

\* A flush of typed details, whatever else the commit writes.
LEMMA FlushType ==
    ASSUME TypeOK, NEW v \in Vendor, NEW new \in Bank, NEW old \in Bank,
           Flush(v, new, old), ~Lost(v, new, old), UNCHANGED status
    PROVE  /\ bank' \in [Vendor -> Bank \cup {None}]
           /\ \A w \in Vendor : Live(w)' => bank'[w] \in Bank
BY FlushRows DEF TypeOK, Live

LEMMA DecidedType ==
    ASSUME TypeOK, NEW c \in Change, change[c].status # "absent",
           NEW verdict \in {"approved", "rejected"},
           change' = [change EXCEPT ![c].status = verdict]
    PROVE  /\ change' \in [Change -> ChangeRow]
           /\ \A d \in Change : change'[d].status # "absent" => change'[d].bank \in Bank
<1> DEFINE row == [change[c] EXCEPT !.status = verdict]
<1>1. row \in ChangeRow /\ row.bank = change[c].bank
  BY DEF TypeOK, ChangeRow
<1>2. change' = [change EXCEPT ![c] = row]
  OBVIOUS
<1> HIDE DEF row
<1> QED
  BY <1>1, <1>2 DEF TypeOK

LEMMA CommitType ==
    ASSUME TypeInv, ReviewsExist, NEW s \in Session,
           \/ SubmitCommit(s) \/ SubmitForeignKeyError(s) \/ ReviewCommit(s) \/ EnterCommit(s)
           \/ CreateCommit(s) \/ ConfirmCommit(s) \/ Abort(s)
    PROVE  TypeInv'
<1> USE DEF TypeInv
<1>1. LocOK'
  BY FinishLoc DEF SubmitCommit, SubmitForeignKeyError, ReviewCommit, EnterCommit, CreateCommit,
     ConfirmCommit, Abort, Fail
<1>2. CASE Fail(s)
  BY <1>1, <1>2 DEF Fail, db, history, TypeOK, Live
<1>3. CASE SubmitCommit(s)
  <2>1. loc[s].vendor \in Vendor /\ loc[s].new \in Bank
    BY <1>3 DEF SubmitCommit, LocOK, SessionOK
  <2>2. change' \in [Change -> ChangeRow]
        /\ \A c \in Change : change'[c].status # "absent" => change'[c].bank \in Bank
    BY <1>3, <2>1 DEF SubmitCommit, TypeOK, ChangeRow
  <2> QED
    BY <1>1, <1>3, <2>2 DEF SubmitCommit, history, TypeOK, Live
<1>4. CASE ReviewCommit(s) /\ ~Fail(s)
  <2> DEFINE l == loc[s]
  <2>1. l \in LocRow /\ l.vendor \in Vendor /\ l.new \in Bank /\ l.seen \in Bank /\ l.change \in Change
        /\ l.verdict \in {"approved", "rejected"}
    BY <1>4 DEF ReviewCommit, LocOK, SessionOK, Loaded
  <2>2. Reviewed(l) \in Bank
    BY <2>1 DEF Reviewed
  <2>3. /\ bank' \in [Vendor -> Bank \cup {None}]
        /\ \A w \in Vendor : Live(w)' => bank'[w] \in Bank
    BY <1>4, <2>1, <2>2, FlushType DEF ReviewCommit
  <2>4. change' = [change EXCEPT ![l.change].status = l.verdict]
    BY <1>4 DEF ReviewCommit
  <2>5. change' \in [Change -> ChangeRow]
        /\ \A c \in Change : change'[c].status # "absent" => change'[c].bank \in Bank
    <3>1. change[l.change].status # "absent"
      BY <1>4 DEF ReviewCommit, ReviewsExist
    <3> QED
      BY <2>1, <2>4, <3>1, DecidedType
  <2>6. /\ granted' \in [Vendor -> SUBSET Bank] /\ latest' \in [Vendor -> Bank \cup {None}]
        /\ applied' \subseteq Change
    BY <1>4, <2>1, GrantType DEF ReviewCommit, TypeOK, history
  <2> QED
    BY <1>1, <1>4, <2>3, <2>5, <2>6 DEF ReviewCommit, TypeOK
<1>5. CASE EnterCommit(s) /\ ~Fail(s)
  <2>1. loc[s].vendor \in Vendor /\ loc[s].new \in Bank /\ loc[s].seen \in Bank
    BY <1>5 DEF EnterCommit, LocOK, SessionOK, Loaded
  <2>2. Flush(loc[s].vendor, loc[s].new, loc[s].seen) /\ ~Lost(loc[s].vendor, loc[s].new, loc[s].seen)
        /\ Grant(loc[s].vendor, loc[s].new) /\ UNCHANGED <<status, change, applied>>
    BY <1>5 DEF EnterCommit
  <2> QED
    BY <1>1, <2>1, <2>2, FlushType, GrantType DEF TypeOK
<1>6. CASE CreateCommit(s)
  <2>1. PICK v \in Vendor : /\ status' = [status EXCEPT ![v] = "live"]
                            /\ bank' = [bank EXCEPT ![v] = loc[s].new]
                            /\ Grant(v, loc[s].new)
    BY <1>6, Zenon DEF CreateCommit, StoredAs
  <2>2. loc[s].new \in Bank
    BY <1>6 DEF CreateCommit, LocOK, SessionOK
  <2>3. UNCHANGED <<change, applied>>
    BY <1>6 DEF CreateCommit
  <2> QED
    BY <1>1, <2>1, <2>2, <2>3, GrantType DEF TypeOK, Live
<1>7. CASE ConfirmCommit(s) /\ ~Fail(s)
  <2>1. loc[s] \in LocRow /\ loc[s].vendor \in Vendor /\ loc[s].new \in Bank /\ loc[s].seen \in Bank
    BY <1>7 DEF ConfirmCommit, LocOK, SessionOK, Loaded
  <2>2. Confirmed(loc[s]) \in Bank
    BY <2>1, ConfirmedBank
  <2>3. /\ Flush(loc[s].vendor, Confirmed(loc[s]), loc[s].seen)
        /\ ~Lost(loc[s].vendor, Confirmed(loc[s]), loc[s].seen)
        /\ Grant(loc[s].vendor, loc[s].new) /\ UNCHANGED <<status, change, applied>>
    BY <1>7 DEF ConfirmCommit
  <2> QED
    BY <1>1, <2>1, <2>2, <2>3, FlushType, GrantType DEF TypeOK
<1> QED
  BY <1>2, <1>3, <1>4, <1>5, <1>6, <1>7 DEF SubmitForeignKeyError, Abort

LEMMA NextType == TypeInv /\ ReviewsExist /\ [Next]_vars => TypeInv'
<1> SUFFICES ASSUME TypeInv, ReviewsExist, [Next]_vars PROVE TypeInv'
  OBVIOUS
<1>1. ASSUME NEW s \in Session, Start(s) PROVE TypeInv'
  BY <1>1, StartType
<1>2. ASSUME NEW s \in Session, Step(s) \/ Abort(s) PROVE TypeInv'
  BY <1>2, LoadType, CommitType DEF Step
<1>3. CASE UNCHANGED vars
  BY <1>3 DEF vars, TypeInv, TypeOK, LocOK, Live
<1> QED
  BY <1>1, <1>2, <1>3 DEF Next

\* A step of one session leaves the others where they are.
LEMMA Alone ==
    ASSUME TypeInv, NEW s \in Session, Start(s) \/ Step(s) \/ Abort(s)
    PROVE  \A q \in Session \ {s} : pc'[q] = pc[q] /\ loc'[q] = loc[q]
<1> USE DEF TypeInv, LocOK
<1>1. CASE Abort(s)
  BY <1>1 DEF Abort, Fail, Finish
<1>2. CASE Start(s)
  BY <1>2 DEF Start, Goto, SubmitRead, EnterRead, BulkPreview, CreateRead, ReviewRead, DeleteVendors
<1>3. CASE Step(s)
  BY <1>3 DEF Step, Fail, Finish, Goto, SubmitCommit, SubmitForeignKeyError, ReviewVendor,
     ReviewCommit, EnterCommit, CreateCommit, ConfirmRead, ConfirmCommit
<1> QED
  BY <1>1, <1>2, <1>3

\* No request is withdrawn, and each keeps the details it asks for.
LEMMA RequestsStay ==
    ASSUME TypeInv, ReviewsExist, NEW s \in Session, Start(s) \/ Step(s) \/ Abort(s),
           NEW c \in Change, change[c].status # "absent"
    PROVE  change'[c].status # "absent" /\ change'[c].bank = change[c].bank
<1>1. CASE UNCHANGED change
  BY <1>1
<1>2. CASE SubmitCommit(s)
  BY <1>2 DEF SubmitCommit, TypeInv, TypeOK
<1>3. CASE ReviewCommit(s) /\ ~UNCHANGED change
  <2>1. loc[s].verdict \in {"approved", "rejected"}
    BY <1>3 DEF ReviewCommit, TypeInv, LocOK, SessionOK
  <2>2. change' = [change EXCEPT ![loc[s].change].status = loc[s].verdict]
    BY <1>3 DEF ReviewCommit, Fail, db
  <2> QED
    BY <2>1, <2>2 DEF TypeInv, TypeOK, ChangeRow
<1>4. ASSUME NEW vs \in SUBSET Vendor, DeleteVendors(s, vs)
      PROVE  change'[c].status # "absent" /\ change'[c].bank = change[c].bank
  BY <1>4 DEF DeleteVendors, Orphaned, TypeInv, TypeOK, ChangeRow
<1> QED
  BY <1>1, <1>2, <1>3, <1>4 DEF Start, Step, Abort, Fail, db, SubmitRead, EnterRead, BulkPreview,
     CreateRead, ReviewRead, SubmitForeignKeyError, ReviewVendor, EnterCommit, CreateCommit,
     ConfirmRead, ConfirmCommit

LEMMA NextReviews == TypeInv /\ ReviewsExist /\ [Next]_vars => ReviewsExist'
<1> SUFFICES ASSUME TypeInv, ReviewsExist, [Next]_vars PROVE ReviewsExist'
  OBVIOUS
<1>1. CASE UNCHANGED vars
  BY <1>1 DEF vars, ReviewsExist
<1>2. ASSUME NEW s \in Session, Start(s) \/ Step(s) \/ Abort(s) PROVE ReviewsExist'
  <2>1. SUFFICES ASSUME NEW q \in Session, pc'[q] \in {"review", "decide"}
                 PROVE  change'[loc'[q].change].status # "absent"
    BY DEF ReviewsExist
  <2>2. SUFFICES loc'[q].change \in Change /\ change[loc'[q].change].status # "absent"
    BY <1>2, RequestsStay
  <2>3. CASE q # s
    BY <1>2, <2>1, <2>3, Alone DEF TypeInv, LocOK, SessionOK, ReviewsExist
  <2>4. CASE q = s /\ \E c \in Change, verdict \in {"approved", "rejected"} : ReviewRead(s, c, verdict)
    BY <2>1, <2>4 DEF ReviewRead, Reviewable, TypeInv, LocOK
  <2>5. CASE q = s /\ ReviewVendor(s)
    <3>1. pc[s] = "review" /\ loc'[s].change = loc[s].change
      BY <2>1, <2>5 DEF ReviewVendor, Fail, Finish, TypeInv, LocOK, LocRow
    <3> QED
      BY <2>5, <3>1 DEF TypeInv, LocOK, SessionOK, ReviewsExist
  <2>6. CASE q = s /\ \E vs \in SUBSET Vendor : DeleteVendors(s, vs)
    BY <2>1, <2>6 DEF DeleteVendors, Starting
  <2> QED
    BY <1>2, <2>1, <2>3, <2>4, <2>5, <2>6 DEF Start, Step, Abort, Fail, Finish, Goto, TypeInv, LocOK,
       SubmitRead, EnterRead, BulkPreview, CreateRead, SubmitCommit, SubmitForeignKeyError,
       ReviewCommit, EnterCommit, CreateCommit, ConfirmRead, ConfirmCommit
<1> QED
  BY <1>1, <1>2 DEF Next

\* The tables and the sessions keep their types, whatever requests interleave.
THEOREM TypeCorrect == Spec => []TypeOK
<1>1. Init => TypeInv /\ ReviewsExist
  BY InitType DEF Init, ReviewsExist
<1>2. Spec => [](TypeInv /\ ReviewsExist)
  BY <1>1, NextType, NextReviews, PTL DEF Spec
<1>3. TypeInv => TypeOK
  BY DEF TypeInv
<1> QED
  BY <1>2, <1>3, PTL

-----------------------------------------------------------------------------
(* What interleaved requests cannot break.                                  *)

\* A commit that writes columns of granted details leaves every row made of
\* granted columns: those it writes and those it finds.
LEMMA FlushGranted ==
    ASSUME TypeInv, ColumnsGranted, NEW v \in Vendor, NEW new \in Bank, NEW old \in Bank,
           Flush(v, new, old), ~Lost(v, new, old), UNCHANGED status,
           \A w \in Vendor : granted[w] \subseteq granted'[w],
           new # old => \E g \in granted'[v] :
              /\ new.routing \in {g.routing, old.routing}
              /\ new.account \in {g.account, old.account}
    PROVE  ColumnsGranted'
<1> SUFFICES ASSUME NEW w \in Vendor, Live(w)'
             PROVE  \E g, h \in granted'[w] :
                       bank'[w].routing = g.routing /\ bank'[w].account = h.account
  BY DEF ColumnsGranted
<1>1. Live(w)
  BY DEF Live
<1>2. PICK g, h \in granted'[w] : bank[w].routing = g.routing /\ bank[w].account = h.account
  BY <1>1 DEF ColumnsGranted
<1>3. CASE new = old \/ w # v
  BY <1>2, <1>3, FlushRows DEF TypeInv
<1>4. CASE new # old /\ w = v
  <2>1. bank'[v] = Merged(bank[v], new, old) /\ bank[v] \in Bank
    BY <1>4, <1>1, FlushRows DEF TypeInv, TypeOK
  <2>2. PICK n \in granted'[v] : /\ new.routing \in {n.routing, old.routing}
                                 /\ new.account \in {n.account, old.account}
    BY <1>4
  <2>3. /\ bank'[v].routing \in {n.routing, g.routing}
        /\ bank'[v].account \in {n.account, h.account}
    BY <1>2, <1>4, <2>1, <2>2 DEF Merged, Column, Bank
  <2> QED
    BY <1>2, <1>4, <2>2, <2>3
<1> QED
  BY <1>3, <1>4

LEMMA GrantGrows ==
    ASSUME TypeInv, NEW v \in Vendor, NEW b \in Bank, Grant(v, b)
    PROVE  /\ \A w \in Vendor : granted[w] \subseteq granted'[w]
           /\ b \in granted'[v]
BY DEF TypeInv, TypeOK, Grant

LEMMA NextGranted ==
    TypeInv /\ ReviewsExist /\ ColumnsGranted /\ [Next]_vars => ColumnsGranted'
<1> SUFFICES ASSUME TypeInv, ColumnsGranted, [Next]_vars PROVE ColumnsGranted'
  OBVIOUS
<1>1. CASE UNCHANGED <<status, bank, granted>>
  BY <1>1 DEF ColumnsGranted, Live
<1>2. ASSUME NEW s \in Session, ReviewCommit(s), ~Fail(s) PROVE ColumnsGranted'
  <2> DEFINE l == loc[s]
  <2>1. l.vendor \in Vendor /\ l.new \in Bank /\ l.seen \in Bank
    BY <1>2 DEF ReviewCommit, TypeInv, LocOK, SessionOK, Loaded
  <2>2. /\ Flush(l.vendor, Reviewed(l), l.seen) /\ ~Lost(l.vendor, Reviewed(l), l.seen)
        /\ UNCHANGED status
    BY <1>2 DEF ReviewCommit
  <2>3. CASE l.verdict = "approved"
    <3>1. Grant(l.vendor, l.new)
      BY <1>2, <2>3 DEF ReviewCommit
    <3>2. Reviewed(l) = l.new
      BY <2>3 DEF Reviewed
    <3> QED
      BY <2>1, <2>2, <3>1, <3>2, GrantGrows, FlushGranted
  <2>4. CASE l.verdict # "approved"
    <3>1. granted' = granted /\ Reviewed(l) = l.seen
      BY <1>2, <2>4 DEF ReviewCommit, history, Reviewed
    <3> QED
      BY <2>1, <2>2, <3>1, FlushGranted
  <2> QED
    BY <2>3, <2>4
<1>3. ASSUME NEW s \in Session, EnterCommit(s), ~Fail(s) PROVE ColumnsGranted'
  <2>1. loc[s].vendor \in Vendor /\ loc[s].new \in Bank /\ loc[s].seen \in Bank
    BY <1>3 DEF EnterCommit, TypeInv, LocOK, SessionOK, Loaded
  <2>2. /\ Flush(loc[s].vendor, loc[s].new, loc[s].seen) /\ ~Lost(loc[s].vendor, loc[s].new, loc[s].seen)
        /\ Grant(loc[s].vendor, loc[s].new) /\ UNCHANGED status
    BY <1>3 DEF EnterCommit
  <2> QED
    BY <2>1, <2>2, GrantGrows, FlushGranted
<1>4. ASSUME NEW s \in Session, ConfirmCommit(s), ~Fail(s) PROVE ColumnsGranted'
  <2>1. loc[s] \in LocRow /\ loc[s].vendor \in Vendor /\ loc[s].new \in Bank /\ loc[s].seen \in Bank
    BY <1>4 DEF ConfirmCommit, TypeInv, LocOK, SessionOK, Loaded
  <2>2. /\ Flush(loc[s].vendor, Confirmed(loc[s]), loc[s].seen)
        /\ ~Lost(loc[s].vendor, Confirmed(loc[s]), loc[s].seen)
        /\ Grant(loc[s].vendor, loc[s].new) /\ UNCHANGED status
    BY <1>4 DEF ConfirmCommit
  <2> QED
    BY <2>1, <2>2, ConfirmedBank, GrantGrows, FlushGranted
<1>5. ASSUME NEW s \in Session, CreateCommit(s) PROVE ColumnsGranted'
  <2>1. PICK v \in Vendor : /\ status' = [status EXCEPT ![v] = "live"]
                            /\ bank' = [bank EXCEPT ![v] = loc[s].new]
                            /\ Grant(v, loc[s].new)
    BY <1>5, Zenon DEF CreateCommit, StoredAs
  <2>2. loc[s].new \in Bank
    BY <1>5 DEF CreateCommit, TypeInv, LocOK, SessionOK
  <2> QED
    BY <2>1, <2>2, GrantGrows DEF ColumnsGranted, TypeInv, TypeOK, Live
<1>6. ASSUME NEW s \in Session, NEW vs \in SUBSET Vendor, DeleteVendors(s, vs) PROVE ColumnsGranted'
  BY <1>6 DEF DeleteVendors, history, ColumnsGranted, Live
<1> QED
  BY ZenonT(30), <1>1, <1>2, <1>3, <1>4, <1>5, <1>6 DEF Next, Start, Step, Abort, Fail, vars, db, history,
     SubmitRead, EnterRead, BulkPreview, CreateRead, ReviewRead, SubmitCommit, SubmitForeignKeyError,
     ReviewVendor, ConfirmRead

\* However many requests of the endpoints modelled interleave, each column of a
\* vendor's bank details holds a value the vendor had at the start or an
\* administrator approved or entered for it (approve_vendor_change_request,
\* create_vendor, bulk_confirm_vendors).
THEOREM ColumnsGrantedHolds == Spec => []ColumnsGranted
<1>1. Init => TypeInv /\ ReviewsExist /\ ColumnsGranted
  BY InitType DEF Init, ReviewsExist, ColumnsGranted, Live
<1> QED
  BY <1>1, NextType, NextReviews, NextGranted, PTL DEF Spec

-----------------------------------------------------------------------------
LEMMA NextRefer ==
    TypeInv /\ ReviewsExist /\ RequestsReferToVendors /\ [Next]_vars => RequestsReferToVendors'
<1> SUFFICES ASSUME TypeInv, ReviewsExist, RequestsReferToVendors, [Next]_vars
             PROVE  RequestsReferToVendors'
  OBVIOUS
<1>1. CASE UNCHANGED <<status, change>>
  BY <1>1 DEF RequestsReferToVendors, Live
<1>2. ASSUME NEW s \in Session, SubmitCommit(s) PROVE RequestsReferToVendors'
  BY <1>2 DEF SubmitCommit, RequestsReferToVendors, Live, TypeInv, TypeOK
<1>3. ASSUME NEW s \in Session, ReviewCommit(s), ~Fail(s) PROVE RequestsReferToVendors'
  <2>1. \A c \in Change : change'[c].vendor = change[c].vendor
    BY <1>3 DEF ReviewCommit, TypeInv, TypeOK, ChangeRow
  <2> QED
    BY <1>3, <2>1 DEF ReviewCommit, RequestsReferToVendors, Live
<1>4. ASSUME NEW s \in Session, CreateCommit(s) PROVE RequestsReferToVendors'
  BY <1>4 DEF CreateCommit, RequestsReferToVendors, Live, TypeInv, TypeOK
<1>5. ASSUME NEW s \in Session, NEW vs \in SUBSET Vendor, DeleteVendors(s, vs)
      PROVE  RequestsReferToVendors'
  <2>1. \A c \in Change : change'[c].vendor =
           IF change[c].vendor \in vs THEN None ELSE change[c].vendor
    BY <1>5 DEF DeleteVendors, Orphaned, TypeInv, TypeOK, ChangeRow
  <2> QED
    BY <1>5, <2>1 DEF DeleteVendors, RequestsReferToVendors, Live
<1> QED
  BY ZenonT(30), <1>1, <1>2, <1>3, <1>4, <1>5 DEF Next, Start, Step, Abort, Fail, vars, db,
     SubmitRead, EnterRead, BulkPreview, CreateRead, ReviewRead, SubmitForeignKeyError,
     ReviewVendor, EnterCommit, ConfirmRead, ConfirmCommit

\* No change request refers to a vendor that has been deleted, whatever was
\* being submitted at the time.
THEOREM RequestsReferToVendorsHolds == Spec => []RequestsReferToVendors
<1>1. Init => TypeInv /\ ReviewsExist /\ RequestsReferToVendors
  BY InitType DEF Init, ReviewsExist, RequestsReferToVendors, NoChange
<1> QED
  BY <1>1, NextType, NextReviews, NextRefer, PTL DEF Spec

-----------------------------------------------------------------------------
(* What holds when requests are served one after the other, a preview and   *)
(* its confirmation included, and no account number is too long.            *)

OneSession == \A s, t \in Session : s = t

\* What a session has read is still what is stored.
Fresh(label, l) ==
    /\ label \in Loaded \cup {"preview"} => Live(l.vendor)
    /\ label \in Loaded => l.seen = bank[l.vendor]
    /\ label \in {"preview", "confirm"} => l.cols = Differing(l.new, bank[l.vendor])
    /\ label \in {"review", "decide"} =>
          change[l.change] = [status |-> "pending", vendor |-> l.vendor, bank |-> l.new]

AllFresh == \A s \in Session : Fresh(pc[s], loc[s])

Inv == TypeInv /\ ReviewsExist /\ AllFresh

LEMMA ConfirmedAll ==
    ASSUME NEW l, l.new \in Bank, l.seen \in Bank, l.cols = Differing(l.new, l.seen), LongAccount = {}
    PROVE  Confirmed(l) = l.new
BY DEF Confirmed, Refused, Differing, Column, Bank

\* A commit that saw what is stored writes its details whole.
LEMMA FreshFlush ==
    ASSUME TypeInv, NEW v \in Vendor, NEW new \in Bank, NEW old \in Bank,
           Live(v), old = bank[v], Flush(v, new, old)
    PROVE  bank' = [bank EXCEPT ![v] = new]
<1>1. CASE new = old
  BY <1>1 DEF Flush, TypeInv, TypeOK
<1>2. CASE new # old
  BY <1>2, MergedColumns, Zenon DEF Flush
<1> QED
  BY <1>1, <1>2

LEMMA FreshCommit ==
    ASSUME Inv, LongAccount = {}, NEW s \in Session, pc[s] \in Loaded,
           ReviewCommit(s) \/ EnterCommit(s) \/ ConfirmCommit(s), ~Fail(s)
    PROVE  /\ UNCHANGED status
           /\ loc[s].vendor \in Vendor /\ Live(loc[s].vendor) /\ loc[s].new \in Bank
           /\ bank' = [bank EXCEPT ![loc[s].vendor] =
                 IF loc[s].verdict = "rejected" /\ ReviewCommit(s) THEN @ ELSE loc[s].new]
<1> DEFINE l == loc[s]
<1>1. /\ l \in LocRow /\ l.vendor \in Vendor /\ l.new \in Bank /\ l.seen \in Bank
      /\ Live(l.vendor) /\ l.seen = bank[l.vendor]
  BY DEF Inv, TypeInv, LocOK, SessionOK, AllFresh, Fresh, Loaded
<1>2. CASE ReviewCommit(s)
  <2>1. Flush(l.vendor, Reviewed(l), l.seen) /\ UNCHANGED status /\ l.verdict \in {"approved", "rejected"}
    BY <1>2 DEF ReviewCommit, Inv, TypeInv, LocOK, SessionOK
  <2>2. Reviewed(l) = IF l.verdict = "rejected" THEN bank[l.vendor] ELSE l.new
    BY <1>1, <2>1 DEF Reviewed
  <2> QED
    BY <1>1, <1>2, <2>1, <2>2, FreshFlush DEF Inv
<1>3. CASE EnterCommit(s)
  <2>1. Flush(l.vendor, l.new, l.seen) /\ UNCHANGED status /\ pc[s] = "enter"
    BY <1>3 DEF EnterCommit
  <2>2. ~ReviewCommit(s)
    BY <2>1 DEF ReviewCommit
  <2> QED
    BY <1>1, <2>1, <2>2, FreshFlush DEF Inv
<1>4. CASE ConfirmCommit(s)
  <2>1. Flush(l.vendor, Confirmed(l), l.seen) /\ UNCHANGED status /\ pc[s] = "confirm"
    BY <1>4 DEF ConfirmCommit
  <2>2. ~ReviewCommit(s)
    BY <2>1 DEF ReviewCommit
  <2>3. Confirmed(l) = l.new
    <3>1. l.cols = Differing(l.new, l.seen)
      BY <1>1, <2>1 DEF Inv, AllFresh, Fresh
    <3> QED
      BY <1>1, <3>1, ConfirmedAll
  <2> QED
    BY <1>1, <2>1, <2>2, <2>3, FreshFlush DEF Inv
<1> QED
  BY <1>2, <1>3, <1>4

\* With one session nothing happens between a read and the commit it is for.
LEMMA NextFresh == Inv /\ OneSession /\ [Next]_vars => AllFresh'
<1> SUFFICES ASSUME Inv, OneSession, [Next]_vars, NEW q \in Session PROVE Fresh(pc[q], loc[q])'
  BY DEF AllFresh
<1> USE DEF Inv, TypeInv, LocOK, Loaded, Live
<1>1. CASE UNCHANGED vars
  BY <1>1 DEF vars, AllFresh, Fresh
<1>2. ASSUME NEW s \in Session, Start(s) \/ Step(s) \/ Abort(s) PROVE Fresh(pc[q], loc[q])'
  <2>1. s = q
    BY DEF OneSession
  <2>2. CASE pc'[q] \in {"idle", "submit", "create"}
    BY <2>2 DEF Fresh
  <2>3. ASSUME NEW v \in Vendor, NEW b \in Details, EnterRead(s, v, b) \/ BulkPreview(s, v, b)
        PROVE  Fresh(pc[q], loc[q])'
    <3>1. CASE EnterRead(s, v, b)
      <4>1. pc'[q] = "enter" /\ loc'[q].vendor = v /\ loc'[q].seen = bank[v]
        BY <2>1, <3>1 DEF EnterRead, Goto, Blank
      <4> QED
        BY <3>1, <4>1 DEF EnterRead, Fresh, db
    <3>2. CASE BulkPreview(s, v, b)
      <4>1. /\ pc'[q] = "preview" /\ loc'[q].vendor = v /\ loc'[q].new = b
            /\ loc'[q].cols = Differing(b, bank[v])
        BY <2>1, <3>2 DEF BulkPreview, Goto, Blank
      <4> QED
        BY <3>2, <4>1 DEF BulkPreview, Fresh, db
    <3> QED
      BY <2>3, <3>1, <3>2
  <2>4. ASSUME NEW c \in Change, NEW verdict \in {"approved", "rejected"}, ReviewRead(s, c, verdict)
        PROVE  Fresh(pc[q], loc[q])'
    BY <2>1, <2>4 DEF ReviewRead, Reviewable, Goto, Fresh, db, Blank, TypeOK, ChangeRow
  <2>5. CASE (ReviewVendor(s) \/ ConfirmRead(s)) /\ pc'[q] # "idle"
    BY SMTT(30), <2>1, <2>5 DEF ReviewVendor, ConfirmRead, Fail, Finish, Goto, AllFresh, Fresh, db, LocRow
  <2>6. CASE \E vs \in SUBSET Vendor : DeleteVendors(s, vs)
    BY <2>1, <2>2, <2>6 DEF DeleteVendors, Starting
  <2> QED
    BY <1>2, <2>1, <2>2, <2>3, <2>4, <2>5, <2>6 DEF Start, Step, Abort, Fail, Finish, Goto, SubmitRead,
       CreateRead, SubmitCommit, SubmitForeignKeyError, ReviewCommit, EnterCommit, CreateCommit, ConfirmCommit
<1> QED
  BY <1>1, <1>2 DEF Next

LEMMA InitInv == Init => Inv
BY InitType DEF Init, Inv, ReviewsExist, AllFresh, Fresh, Loaded

LEMMA NextInv == Inv /\ OneSession /\ [Next]_vars => Inv'
BY NextType, NextReviews, NextFresh DEF Inv

LEMMA NextLatest ==
    Inv /\ LatestWins /\ LongAccount = {} /\ [Next]_vars => LatestWins'
<1> SUFFICES ASSUME Inv, LatestWins, LongAccount = {}, [Next]_vars PROVE LatestWins'
  OBVIOUS
<1>1. CASE UNCHANGED <<status, bank, latest>>
  BY <1>1 DEF LatestWins, Live
<1>2. ASSUME NEW s \in Session, ReviewCommit(s) \/ EnterCommit(s) \/ ConfirmCommit(s), ~Fail(s)
      PROVE  LatestWins'
  <2> DEFINE v == loc[s].vendor
  <2>1. pc[s] \in Loaded
    BY <1>2 DEF ReviewCommit, EnterCommit, ConfirmCommit, Loaded
  <2>2. /\ UNCHANGED status /\ v \in Vendor /\ Live(v)
        /\ bank' = [bank EXCEPT ![v] =
              IF loc[s].verdict = "rejected" /\ ReviewCommit(s) THEN @ ELSE loc[s].new]
    BY <1>2, <2>1, FreshCommit
  <2>3. CASE loc[s].verdict = "rejected" /\ ReviewCommit(s)
    <3>1. latest' = latest
      BY <1>2, <2>3 DEF ReviewCommit, history
    <3>2. bank' = bank
      BY <2>2, <2>3 DEF Inv, TypeInv, TypeOK
    <3> QED
      BY <2>2, <3>1, <3>2 DEF LatestWins, Live
  <2>4. CASE ~(loc[s].verdict = "rejected" /\ ReviewCommit(s))
    <3>1. Grant(v, loc[s].new)
      BY <1>2, <2>4 DEF ReviewCommit, EnterCommit, ConfirmCommit, Inv, TypeInv, LocOK, SessionOK
    <3>2. bank' = [bank EXCEPT ![v] = loc[s].new]
      BY <2>2, <2>4
    <3> QED
      BY <2>2, <3>1, <3>2 DEF Grant, LatestWins, Live, Inv, TypeInv, TypeOK
  <2> QED
    BY <2>3, <2>4
<1>3. ASSUME NEW s \in Session, CreateCommit(s) PROVE LatestWins'
  <2>1. PICK v \in Vendor : /\ status' = [status EXCEPT ![v] = "live"]
                            /\ bank' = [bank EXCEPT ![v] = loc[s].new]
                            /\ Grant(v, loc[s].new)
    BY <1>3, Zenon DEF CreateCommit, StoredAs
  <2> QED
    BY <2>1 DEF Grant, LatestWins, Live, Inv, TypeInv, TypeOK
<1>4. ASSUME NEW s \in Session, NEW vs \in SUBSET Vendor, DeleteVendors(s, vs) PROVE LatestWins'
  BY <1>4 DEF DeleteVendors, history, LatestWins, Live
<1> QED
  BY ZenonT(30), <1>1, <1>2, <1>3, <1>4 DEF Next, Start, Step, Abort, Fail, vars, db, history,
     SubmitRead, EnterRead, BulkPreview, CreateRead, ReviewRead, SubmitCommit, SubmitForeignKeyError,
     ReviewVendor, ConfirmRead

\* Served one request at a time, a vendor is paid at the details it was given
\* last, by whichever of the four ways.
THEOREM LatestWinsHolds ==
    ASSUME OneSession, LongAccount = {}
    PROVE  Spec => []LatestWins
<1>1. Init => Inv /\ LatestWins
  BY InitInv DEF Init, LatestWins
<1>2. Inv /\ LatestWins /\ [Next]_vars => (Inv /\ LatestWins)'
  BY OneSession, LongAccount = {}, NextInv, NextLatest
<1> QED
  BY <1>1, <1>2, PTL DEF Spec

LEMMA NextDecision == Inv /\ DecisionStands /\ [Next]_vars => DecisionStands'
<1> SUFFICES ASSUME Inv, DecisionStands, [Next]_vars, NEW c \in Change
             PROVE  c \in applied' <=> change'[c].status = "approved"
  BY DEF DecisionStands
<1>1. CASE UNCHANGED <<change, applied>>
  BY <1>1 DEF DecisionStands
<1>2. ASSUME NEW s \in Session, SubmitCommit(s)
      PROVE  c \in applied' <=> change'[c].status = "approved"
  BY <1>2 DEF SubmitCommit, history, DecisionStands, Inv, TypeInv, TypeOK
<1>3. ASSUME NEW s \in Session, ReviewCommit(s), ~Fail(s)
      PROVE  c \in applied' <=> change'[c].status = "approved"
  <2> DEFINE d == loc[s].change
             verdict == loc[s].verdict
  <2>1. d \in Change /\ verdict \in {"approved", "rejected"} /\ change[d].status = "pending"
    <3>1. pc[s] = "decide"
      BY <1>3 DEF ReviewCommit
    <3>2. d \in Change /\ verdict \in {"approved", "rejected"}
      BY <3>1 DEF Inv, TypeInv, LocOK, SessionOK
    <3>3. change[d] = [status |-> "pending", vendor |-> loc[s].vendor, bank |-> loc[s].new]
      BY <3>1 DEF Inv, AllFresh, Fresh
    <3> QED
      BY <3>2, <3>3
  <2>2. change' = [change EXCEPT ![d].status = verdict]
    BY <1>3 DEF ReviewCommit
  <2>3. applied' = IF verdict = "approved" THEN applied \cup {d} ELSE applied
    BY <1>3 DEF ReviewCommit, history
  <2>4. change'[c].status = IF c = d THEN verdict ELSE change[c].status
    BY <2>1, <2>2 DEF Inv, TypeInv, TypeOK, ChangeRow
  <2> QED
    BY <2>1, <2>3, <2>4 DEF DecisionStands
<1>4. ASSUME NEW s \in Session, NEW vs \in SUBSET Vendor, DeleteVendors(s, vs)
      PROVE  c \in applied' <=> change'[c].status = "approved"
  BY <1>4 DEF DeleteVendors, history, Orphaned, DecisionStands, Inv, TypeInv, TypeOK, ChangeRow
<1> QED
  BY ZenonT(30), <1>1, <1>2, <1>3, <1>4 DEF Next, Start, Step, Abort, Fail, vars, db, history,
     SubmitRead, EnterRead, BulkPreview, CreateRead, ReviewRead, SubmitForeignKeyError,
     ReviewVendor, EnterCommit, CreateCommit, ConfirmRead, ConfirmCommit

\* Served one request at a time, a request shows approved exactly when an
\* approval of it was committed.
THEOREM DecisionStandsHolds ==
    ASSUME OneSession
    PROVE  Spec => []DecisionStands
<1>1. Init => Inv /\ DecisionStands
  BY InitInv DEF Init, DecisionStands, NoChange
<1>2. Inv /\ DecisionStands /\ [Next]_vars => (Inv /\ DecisionStands)'
  BY OneSession, NextInv, NextDecision
<1> QED
  BY <1>1, <1>2, PTL DEF Spec

-----------------------------------------------------------------------------
(* The refinement.                                                          *)

\* What the directory shows of each vendor.
Shown == [v \in Vendor |-> IF Live(v) THEN bank[v] ELSE None]

\* Giving one vendor new details changes what is shown of that vendor only.
LEMMA ShownChange ==
    ASSUME TypeOK, NEW v \in Vendor, NEW b,
           \A w \in Vendor \ {v} : status'[w] = status[w] /\ bank'[w] = bank[w],
           status'[v] = "live", bank'[v] = b
    PROVE  Shown' = [Shown EXCEPT ![v] = b]
BY DEF Shown, Live, TypeOK

LEMMA StepWorkflow ==
    Inv /\ LongAccount = {} /\ [Next]_vars => [Workflow!Next]_(Workflow!vars)
<1> SUFFICES ASSUME Inv, LongAccount = {}, [Next]_vars PROVE Workflow!Next \/ UNCHANGED <<Shown, change>>
  BY DEF Workflow!vars, Shown
<1>1. CASE UNCHANGED <<status, bank, change>>
  BY <1>1 DEF Shown, Live
<1>2. ASSUME NEW s \in Session, SubmitCommit(s) PROVE Workflow!Next
  <2>1. PICK c \in Change : /\ change[c].status = "absent"
                            /\ change' = [change EXCEPT ![c] =
                                 [status |-> "pending", vendor |-> loc[s].vendor, bank |-> loc[s].new]]
    BY <1>2, Zenon DEF SubmitCommit
  <2>2. /\ loc[s].vendor \in Vendor /\ loc[s].new \in Bank /\ Live(loc[s].vendor)
        /\ bank[loc[s].vendor] \in Bank
    BY <1>2 DEF SubmitCommit, Inv, TypeInv, TypeOK, LocOK, SessionOK
  <2>3. Shown[loc[s].vendor] # None /\ Shown' = Shown
    BY <1>2, <2>2, BankAssumption DEF SubmitCommit, Shown, Live
  <2>4. Workflow!Request(c, loc[s].vendor, loc[s].new)
    BY <2>1, <2>3 DEF Workflow!Request, Shown
  <2> QED
    BY <2>2, <2>4 DEF Workflow!Next
<1>3. ASSUME NEW s \in Session, EnterCommit(s) \/ ConfirmCommit(s), ~Fail(s) PROVE Workflow!Next
  <2>1. pc[s] \in {"enter", "confirm"} /\ UNCHANGED change
    BY <1>3 DEF EnterCommit, ConfirmCommit
  <2>2. /\ UNCHANGED status /\ loc[s].vendor \in Vendor /\ Live(loc[s].vendor) /\ loc[s].new \in Bank
        /\ bank' = [bank EXCEPT ![loc[s].vendor] =
              IF loc[s].verdict = "rejected" /\ ReviewCommit(s) THEN @ ELSE loc[s].new]
    BY <1>3, <2>1, FreshCommit DEF Loaded
  <2>3. ~ReviewCommit(s)
    BY <2>1 DEF ReviewCommit
  <2>4. Shown' = [Shown EXCEPT ![loc[s].vendor] = loc[s].new]
    BY <2>2, <2>3, ShownChange DEF Live, Inv, TypeInv, TypeOK
  <2>5. PICK v \in Vendor, b \in Bank : v = loc[s].vendor /\ b = loc[s].new
    BY <2>2
  <2>6. Workflow!Enter(v, b)
    BY <2>1, <2>4, <2>5 DEF Workflow!Enter, Shown
  <2> QED
    BY <2>6 DEF Workflow!Next
<1>4. ASSUME NEW s \in Session, ReviewCommit(s), ~Fail(s) PROVE Workflow!Next
  <2>1. pc[s] = "decide"
    BY <1>4 DEF ReviewCommit
  <2>2. PICK c \in Change, v \in Vendor, b \in Bank, verdict \in {"approved", "rejected"} :
           c = loc[s].change /\ v = loc[s].vendor /\ b = loc[s].new /\ verdict = loc[s].verdict
    BY <2>1 DEF Inv, TypeInv, LocOK, SessionOK, Loaded
  <2>3. change[c].status = "pending" /\ change[c].vendor = v /\ change[c].bank = b /\ v # None
    <3>1. change[loc[s].change] = [status |-> "pending", vendor |-> loc[s].vendor, bank |-> loc[s].new]
      BY <2>1 DEF Inv, AllFresh, Fresh
    <3>2. v # None
      BY BankAssumption
    <3> QED
      BY <2>2, <3>1, <3>2
  <2>4. change' = [change EXCEPT ![c].status = verdict]
    BY <1>4, <2>2 DEF ReviewCommit
  <2>5. /\ UNCHANGED status /\ Live(v)
        /\ bank' = [bank EXCEPT ![v] = IF verdict = "rejected" /\ ReviewCommit(s) THEN @ ELSE b]
    BY <1>4, <2>1, <2>2, FreshCommit DEF Loaded
  <2>6. CASE verdict = "approved"
    <3>1. Shown' = [Shown EXCEPT ![v] = b]
      BY <2>5, <2>6, ShownChange DEF Live, Inv, TypeInv, TypeOK
    <3>2. Workflow!Approve(c)
      BY <2>3, <2>4, <2>6, <3>1 DEF Workflow!Approve, Shown
    <3> QED
      BY <3>2 DEF Workflow!Next
  <2>7. CASE verdict = "rejected"
    <3>1. bank' = bank
      BY <1>4, <2>5, <2>7 DEF Inv, TypeInv, TypeOK
    <3>2. Workflow!Reject(c)
      BY <2>3, <2>4, <2>5, <2>7, <3>1 DEF Workflow!Reject, Live
    <3> QED
      BY <3>2 DEF Workflow!Next
  <2> QED
    BY <2>6, <2>7
<1>5. ASSUME NEW s \in Session, CreateCommit(s) PROVE Workflow!Next
  <2>1. PICK v \in Vendor : /\ status' = [status EXCEPT ![v] = "live"]
                            /\ bank' = [bank EXCEPT ![v] = loc[s].new]
    BY <1>5, Zenon DEF CreateCommit, StoredAs
  <2>2. loc[s].new \in Bank /\ UNCHANGED change
    BY <1>5 DEF CreateCommit, Inv, TypeInv, LocOK, SessionOK
  <2>3. Shown' = [Shown EXCEPT ![v] = loc[s].new]
    BY <2>1, ShownChange DEF Inv, TypeInv, TypeOK
  <2>4. PICK b \in Bank : b = loc[s].new
    BY <2>2
  <2>5. Workflow!Enter(v, b)
    BY <2>2, <2>3, <2>4 DEF Workflow!Enter, Shown
  <2> QED
    BY <2>5 DEF Workflow!Next
<1>6. ASSUME NEW s \in Session, NEW vs \in SUBSET Vendor, DeleteVendors(s, vs) PROVE Workflow!Next
  <2>1. Shown' = [v \in Vendor |-> IF v \in vs THEN None ELSE Shown[v]]
    BY <1>6 DEF DeleteVendors, history, Shown, Live, Inv, TypeInv, TypeOK
  <2>2. Workflow!Remove(vs)
    BY <1>6, <2>1 DEF DeleteVendors, Orphaned, Workflow!Remove, Shown
  <2> QED
    BY <2>2 DEF Workflow!Next
<1> QED
  BY ZenonT(30), <1>1, <1>2, <1>3, <1>4, <1>5, <1>6 DEF Next, Start, Step, Abort, Fail, vars, db,
     SubmitRead, EnterRead, BulkPreview, CreateRead, ReviewRead, SubmitForeignKeyError,
     ReviewVendor, ConfirmRead

\* Served one request at a time, the endpoints implement MakerChecker: details
\* change as a whole, on the approval of a pending request or by an
\* administrator, and a request is decided once.
THEOREM Implements ==
    ASSUME OneSession, LongAccount = {}
    PROVE  Spec => FollowsWorkflow
<1>1. Init => Workflow!Init
  BY BankAssumption DEF Init, Workflow!Init, Workflow!NoAsk, NoChange, Live
<1>2. Inv /\ [Next]_vars => [Workflow!Next]_(Workflow!vars)
  BY LongAccount = {}, StepWorkflow
<1>3. Inv /\ [Next]_vars => Inv'
  BY OneSession, NextInv
<1> QED
  BY <1>1, <1>2, <1>3, InitInv, PTL DEF Spec, FollowsWorkflow, Workflow!Spec
=============================================================================
