--------------------------- MODULE VendorDirectory ---------------------------
(***************************************************************************)
(* Who is in the vendor directory, under which name (api/v1/vendors.py,    *)
(* core/vendor_identity.py, and the vendors payments.py creates while it   *)
(* imports a batch).  A payment reaches a vendor through its name, and no  *)
(* migration makes names unique (an index is added by hand, if at all, by  *)
(* scripts/enforce_unique_vendor_names.py): every way into the directory   *)
(* looks first and writes later, and they do not look for the same thing.  *)
(* The form compares in SQL, which folds no accents; the bulk imports in   *)
(* Python; the reference vendors by spelling; an upload word by word.      *)
(* (scripts/seed_sample_vendors.py, run by hand, is left out: it looks up  *)
(* by spelling too, files the first 22 characters, and writes routing      *)
(* numbers.)                                                               *)
(*                                                                         *)
(* Sessions interleave as in BankDetails, whose subject, the columns of    *)
(* the bank details, is one value here.  E-mail and reference are left     *)
(* out.  Rows that refer to a vendor (payments, change requests,           *)
(* remittances; all ON DELETE SET NULL) are "dependents"; an upload makes  *)
(* them, the other two tables are moved and orphaned in the same way.      *)
(***************************************************************************)
EXTENDS Naturals, FiniteSets, Sequences, FiniteSetsExt, SequencesExt

CONSTANTS
    Session,
    Vendors,     \* how many rows the table may come to hold (a bound)
    Dependent,   \* pool of rows that refer to a vendor
    Name, Bank,  \* names as stored, bank details as one value
    Key,         \* normal forms of names
    KeyOf,       \* normalize_vendor_name: the normal form of each name
    SqlKeyOf,    \* what create_vendor's query makes of a stored name: accented letters are lost
    WordsOf,     \* _normalize_vendor_name of the parser: they, and punctuation, separate words
    Upper,       \* the name in upper case
    Filed,       \* the name an upload files a new vendor under: upper case, 22 characters
    Edits,       \* what the edit form sends: [name, active]
    Sheets,      \* the files imported: sequences of [name, bank] rows
    Samples,     \* SAMPLE_VENDORS: such a sequence
    Requests,    \* how many requests are served (a bound)
    None, Absent

Vendor == 1..Vendors  \* rows in the order they are inserted in

SheetRow == [name : Name, bank : Bank]

ASSUME DirectoryAssumption ==
    /\ Vendors \in Nat /\ Requests \in Nat
    /\ {KeyOf, SqlKeyOf, WordsOf} \subseteq [Name -> Key]
    /\ {Upper, Filed} \subseteq [Name -> Name]
    /\ Edits \subseteq [name : Name, active : BOOLEAN]
    /\ Sheets \cup {Samples} \subseteq Seq(SheetRow)
    /\ \A i, j \in DOMAIN Samples : Samples[i].name = Samples[j].name => i = j
    /\ {None, Absent} \cap (Vendor \cup Name \cup Bank) = {} /\ None # Absent

VARIABLES
    row,    \* the table vendors
    owner,  \* dependents: the vendor each refers to, Absent before it is inserted
    started, \* requests begun
    pc, loc,
    missed, \* history: for each request in flight, what others committed since it began
    blind   \* history: for each row, what the request that named it missed

vars == <<row, owner, started, pc, loc, missed, blind>>

\* "via" and "edited" are history: what named the vendor, and whether the edit form touched it.
NoRow == [status |-> "absent", name |-> None, bank |-> None, active |-> FALSE,
          via |-> None, edited |-> FALSE]
Gone  == [NoRow EXCEPT !.status = "deleted"]
NewRow(n, b, via) == [status |-> "live", name |-> n, bank |-> b, active |-> TRUE,
                      via |-> via, edited |-> FALSE]

Blank == [target |-> None, seen |-> NoRow, new |-> NoRow, adds |-> {}, line |-> 0, updates |-> {},
          primary |-> [v \in Vendor |-> v], to |-> [d \in Dependent |-> None],
          dependent |-> None]

Init ==
    /\ row = [v \in Vendor |-> NoRow]
    /\ owner = [d \in Dependent |-> Absent]
    /\ started = 0
    /\ pc = [s \in Session |-> "idle"]
    /\ loc = [s \in Session |-> Blank]
    /\ missed = [s \in Session |-> {}]
    /\ blind = [v \in Vendor |-> {}]

Live == {v \in Vendor : row[v].status = "live"}
KeyAt(v) == KeyOf[row[v].name]

Starting(s) == pc[s] = "idle" /\ started < Requests
Goto(s, label) == pc' = [pc EXCEPT ![s] = label]
Read(s, label, l) == /\ loc' = [loc EXCEPT ![s] = l]
                     /\ Goto(s, label)
                     /\ started' = started + (IF pc[s] = "idle" THEN 1 ELSE 0)
                     /\ UNCHANGED <<row, owner, missed, blind>>

\* The commit of s wrote these rows: the requests in flight missed that.
Finish(s, written) ==
    /\ started' = started + (IF pc[s] = "idle" THEN 1 ELSE 0)
    /\ pc' = [pc EXCEPT ![s] = "idle"]
    /\ loc' = [loc EXCEPT ![s] = Blank]
    /\ missed' = [t \in Session |-> IF t = s \/ pc[t] = "idle" THEN {} ELSE missed[t] \cup written]
Fail(s) == Finish(s, {}) /\ UNCHANGED <<row, owner, blind>>
Naming(s, vs) == [v \in Vendor |-> IF v \in vs THEN missed[s] ELSE blind[v]]

\* Rows inserted together take the next free identifiers, in any order: their
\* created_at is the same.
Free == {v \in Vendor : row[v].status = "absent"}
Places(rows) ==
    {place \in UNION {[ids -> rows] : ids \in SUBSET Free} :
        /\ IsInjective(place) /\ Range(place) = rows
        /\ \A v \in DOMAIN place, w \in Free : w < v => w \in DOMAIN place}
Inserted(place, via) ==
    [v \in Vendor |-> IF v \in DOMAIN place THEN NewRow(place[v].name, place[v].bank, via) ELSE row[v]]

-----------------------------------------------------------------------------
(* Looking a vendor up.  The tables Python builds are keyed by normal form  *)
(* or by bank details; of two rows with one key the later one read stays,   *)
(* and no query orders them: the choice is left open (pick).                *)

One(S, pick) == IF pick = "first" THEN Min(S) ELSE Max(S)

\* Mutant: names are compared as they are spelled.
NamedAsSpelled(n) == {v \in Live : row[v].name = n}
Named(n) == {v \in Live : KeyAt(v) = KeyOf[n]}
Queried(n) == {v \in Live : SqlKeyOf[row[v].name] = KeyOf[n]}  \* in SQL, by the form alone
Banked(b) == {v \in Live : row[v].bank = b}

Existing(r, pick) ==
    CASE Named(r.name) # {}  -> One(Named(r.name), pick)
      [] Named(r.name) = {} /\ Banked(r.bank) # {} -> One(Banked(r.bank), pick)
      [] OTHER -> None

-----------------------------------------------------------------------------
(* The vendor form (create_vendor).                                         *)

CreateFind(s, n, b) ==
    LET l == [Blank EXCEPT !.new = NewRow(n, b, "form")]
    IN  /\ Starting(s)
        /\ \/ /\ Queried(n) = {}
              /\ Read(s, "by bank", l)
           \/ \E v \in Queried(n) : Read(s, "apply", [l EXCEPT !.target = v, !.seen = row[v]])

\* Bank details are compared in Python, on a second SELECT of every vendor.
CreateByBank(s) ==
    LET same == Banked(loc[s].new.bank)
    IN  /\ pc[s] = "by bank"
        /\ \/ same = {} /\ Read(s, "insert", loc[s])
           \/ \E v \in same : Read(s, "apply", [loc[s] EXCEPT !.target = v, !.seen = row[v]])

CreateInsert(s) ==
    /\ pc[s] = "insert"
    /\ \E place \in Places({loc[s].new}) :
          /\ row' = Inserted(place, "form")
          /\ blind' = Naming(s, DOMAIN place)
          /\ Finish(s, DOMAIN place)
    /\ UNCHANGED owner

Column(changed, new, current) == IF changed THEN new ELSE current

\* The row of the target once a session that loaded seen and set new has
\* flushed the columns that differ; a name changes only with its normal form.
\* The query may have found a vendor of another normal form: it is renamed.
Renames(l) == KeyOf[l.new.name] # KeyOf[l.seen.name]
Rebanks(l) == l.new.bank # l.seen.bank
Way(l) == IF SqlKeyOf[l.seen.name] = KeyOf[l.new.name] THEN "misread" ELSE "form"
Applied(l) == [row[l.target] EXCEPT !.name = Column(Renames(l), l.new.name, @),
                                    !.bank = Column(Rebanks(l), l.new.bank, @),
                                    !.via  = Column(Renames(l), Way(l), @)]

\* Confirmed by the administrator: allow_update, and allow_bank_update for bank details.
CreateApply(s) ==
    LET l == loc[s]
    IN  /\ pc[s] = "apply"
        /\ IF l.target \in Live /\ (Renames(l) \/ Rebanks(l))
           THEN /\ row' = [row EXCEPT ![l.target] = Applied(l)]
                /\ blind' = Naming(s, IF Renames(l) THEN {l.target} ELSE {})
                /\ Finish(s, {l.target})
                /\ UNCHANGED owner
           ELSE Fail(s)

-----------------------------------------------------------------------------
(* The edit form (update_vendor) looks nothing up: rows it has touched are  *)
(* marked as edited.                                                        *)

EditRead(s, v, n, active) ==
    /\ Starting(s)
    /\ v \in Live
    /\ Read(s, "edit", [Blank EXCEPT !.target = v, !.seen = row[v],
                                     !.new = [row[v] EXCEPT !.name = n, !.active = active]])

Edited(l) ==
    [row[l.target] EXCEPT !.name = Column(l.new.name # l.seen.name, l.new.name, @),
                          !.active = Column(l.new.active # l.seen.active, l.new.active, @),
                          !.edited = TRUE]

EditCommit(s) ==
    LET l == loc[s]
    IN  /\ pc[s] = "edit"
        /\ IF l.target \in Live /\ l.new # l.seen
           THEN /\ row' = [row EXCEPT ![l.target] = Edited(l)]
                /\ Finish(s, {l.target})
                /\ UNCHANGED <<owner, blind>>
           ELSE Fail(s)

-----------------------------------------------------------------------------
(* Bulk import in one request (bulk_upload_vendors) and in two, with the    *)
(* preview held by the browser (bulk_preview_vendors, bulk_confirm_vendors).*)

\* The rows of a file, each with the line it stands on.
Lines(sheet) == {[line |-> i, name |-> sheet[i].name, bank |-> sheet[i].bank] : i \in DOMAIN sheet}
SameName(q, r) == KeyOf[q.name] = KeyOf[r.name]
SameBank(q, r) == q.bank = r.bank

\* Rows taken in their order, those left out that bear the name or the account
\* of one taken before.
Taken(rows) ==
    CHOOSE taken \in SUBSET rows :
        \A r \in rows : r \in taken <=>
            \A q \in taken : q.line < r.line => ~SameName(q, r) /\ ~SameBank(q, r)

\* A row whose name or account is in the directory, or was added above, is skipped.
Imported(sheet) == Taken({r \in Lines(sheet) : Existing(r, "last") = None})

ImportRead(s, sheet) ==
    /\ Starting(s)
    /\ Imported(sheet) # {}
    /\ Read(s, "import", [Blank EXCEPT !.adds = Imported(sheet)])

\* The preview: the first row of each name is new, or the update of a vendor
\* known by that name or by that account.
FirstOfName(rows) == {r \in rows : \A q \in rows : q.line < r.line => ~SameName(q, r)}
Update(v, r) == [target |-> v, new |-> r, seen |-> row[v],
                 rename |-> KeyAt(v) # KeyOf[r.name], rebank |-> row[v].bank # r.bank]

BulkPreview(s, sheet, pick) ==
    LET rows    == FirstOfName(Lines(sheet))
        adds    == {r \in rows : Existing(r, pick) = None}
        updates == {Update(Existing(r, pick), r) : r \in rows \ adds}
    IN  /\ Starting(s)
        /\ Read(s, "preview", [Blank EXCEPT !.adds = adds,
                                            !.updates = {u \in updates : u.rename \/ u.rebank}])

\* The confirmation reads the directory again: of the new rows those unknown
\* by now are inserted, and of the rest only the e-mail address is written.
\* Vendors to update are loaded one by one; one that is gone is passed over.
\* The columns to write are those the preview named.
ConfirmRead(s) ==
    /\ pc[s] = "preview"
    /\ Read(s, "import", [loc[s] EXCEPT
            !.adds = {r \in Taken(@) : Existing(r, "last") = None},
            !.updates = {[u EXCEPT !.seen = row[u.target]] : u \in {x \in @ : x.target \in Live}}])

\* Of the updates that set the name of a vendor, or its account, the last one
\* stands; it is written if it is not what was loaded.
Latest(us) == CHOOSE u \in us : \A x \in us : x.new.line <= u.new.line
Renaming(v, us)  == {u \in us : u.target = v /\ u.rename}
Rebanking(v, us) == {u \in us : u.target = v /\ u.rebank}
Renamed(v, us) == /\ Renaming(v, us) # {}
                  /\ Latest(Renaming(v, us)).new.name # Latest(Renaming(v, us)).seen.name
Rebanked(v, us) == /\ Rebanking(v, us) # {}
                   /\ Latest(Rebanking(v, us)).new.bank # Latest(Rebanking(v, us)).seen.bank
Updated(v, us) ==
    [row[v] EXCEPT !.name = IF Renamed(v, us) THEN Latest(Renaming(v, us)).new.name ELSE @,
                   !.bank = IF Rebanked(v, us) THEN Latest(Rebanking(v, us)).new.bank ELSE @,
                   !.via  = IF Renamed(v, us) THEN "import" ELSE @]

ImportCommit(s) ==
    LET updates == loc[s].updates
        targets == {u.target : u \in updates}
    IN  /\ pc[s] = "import"
        /\ \E place \in Places(loc[s].adds) :
              IF targets \subseteq Live
              THEN /\ row' = [v \in Vendor |-> IF v \in targets THEN Updated(v, updates)
                                              ELSE Inserted(place, "import")[v]]
                   /\ blind' = Naming(s, DOMAIN place \cup {v \in targets : Renamed(v, updates)})
                   /\ Finish(s, DOMAIN place \cup targets)
                   /\ UNCHANGED owner
              ELSE Fail(s)

-----------------------------------------------------------------------------
(* The reference vendors (seed_sample_vendors): one query for each, by its  *)
(* spelling, then one commit.  Nothing is flushed in between.               *)

SeedNext(s, l) ==
    LET next == l.line + 1
        new  == [line |-> next, name |-> Samples[next].name, bank |-> Samples[next].bank]
    IN  /\ next \in DOMAIN Samples
        /\ Read(s, "seed", [l EXCEPT !.line = next,
                              !.adds = IF NamedAsSpelled(new.name) = {} THEN @ \cup {new} ELSE @])

SeedRead(s) == Starting(s) /\ SeedNext(s, Blank)
SeedLookup(s) == pc[s] = "seed" /\ SeedNext(s, loc[s])

SeedCommit(s) ==
    /\ pc[s] = "seed"
    /\ loc[s].line = Len(Samples)
    /\ \E place \in Places(loc[s].adds) :
          /\ row' = Inserted(place, "seed")
          /\ blind' = Naming(s, DOMAIN place)
          /\ Finish(s, DOMAIN place)
    /\ UNCHANGED owner

-----------------------------------------------------------------------------
(* An upload of payments whose sheet carries the account to pay             *)
(* (payments.py).  Names are matched against the active vendors, then       *)
(* looked up as filed, then filed.  Aliases and the scoring of similar      *)
(* names (VendorMatching) are left out.                                     *)

\* Spelled the same up to case: any such row (a table keyed by upper-case
\* name).  Else one with the same words; of several spellings, none.
SameWords(n) == {v \in Live : row[v].active /\ WordsOf[row[v].name] = WordsOf[n]}
Matches(n) ==
    LET exact == {v \in Live : row[v].active /\ Upper[row[v].name] = Upper[n]}
    IN  IF exact # {} \/ Cardinality({Upper[row[v].name] : v \in SameWords(n)}) > 1 THEN exact
        ELSE SameWords(n)
Ambiguous(n) == Matches(n) = {} /\ SameWords(n) # {}

UploadMatch(s, n, b, d) ==
    LET l == [Blank EXCEPT !.new = NewRow(Filed[n], b, "upload"), !.dependent = d]
    IN  /\ Starting(s)
        /\ owner[d] = Absent
        /\ ~Ambiguous(n)
        /\ \/ Matches(n) = {} /\ Read(s, "lookup", l)
           \/ \E v \in Matches(n) : Read(s, "attach", [l EXCEPT !.target = v])

\* scalar_one_or_none: two rows filed under the name are an error.
UploadLookup(s) ==
    LET filed == {v \in Live : row[v].name = loc[s].new.name}
    IN  /\ pc[s] = "lookup"
        /\ CASE filed = {} -> Read(s, "attach", loc[s])
             [] Cardinality(filed) = 1 -> Read(s, "attach", [loc[s] EXCEPT !.target = Min(filed)])
             [] OTHER -> Fail(s)

UploadCommit(s) ==
    LET l == loc[s]
    IN  /\ pc[s] = "attach"
        /\ \E place \in Places(IF l.target = None THEN {l.new} ELSE {}) :
              IF (l.target # None /\ l.target \notin Live) \/ owner[l.dependent] # Absent
              THEN Fail(s)
              ELSE /\ row' = Inserted(place, "upload")
                   /\ \E v \in IF l.target = None THEN DOMAIN place ELSE {l.target} :
                         owner' = [owner EXCEPT ![l.dependent] = v]
                   /\ blind' = Naming(s, DOMAIN place)
                   /\ Finish(s, DOMAIN place \cup {l.dependent})

-----------------------------------------------------------------------------
(* Merging duplicates (deduplicate_vendors, dry_run = False).               *)

\* The union-find over the vendors in order of creation: the first vendor of
\* each name and of each account, and the parent of each vendor.
Find(parent, v) ==
    LET up[n \in 0..Vendors] == IF n = 0 THEN v ELSE parent[up[n - 1]]
    IN  up[Vendors]
Union(parent, a, b) ==
    LET ra == Find(parent, a)
        rb == Find(parent, b)
    IN  IF ra = rb THEN parent ELSE [parent EXCEPT ![rb] = ra]
FirstOf(S, v) == IF S = {} THEN v ELSE Min(S)

\* Mutant: vendors are grouped by name, or by account if their name is alone.
GroupingByName(parent, v) ==
    LET names == {w \in Live : w < v /\ KeyAt(w) = KeyAt(v)}
        banks == {w \in Live : w < v /\ row[w].bank = row[v].bank}
    IN  IF names # {} THEN Union(parent, Min(names), v) ELSE Union(parent, FirstOf(banks, v), v)
Grouping(parent, v) ==
    LET names == {w \in Live : w < v /\ KeyAt(w) = KeyAt(v)}
        banks == {w \in Live : w < v /\ row[w].bank = row[v].bank}
    IN  Union(Union(parent, FirstOf(names, v), v), FirstOf(banks, v), v)

Parents ==
    LET after[n \in 0..Vendors] ==
            IF n = 0 THEN [v \in Vendor |-> v]
            ELSE IF n \in Live THEN Grouping(after[n - 1], n) ELSE after[n - 1]
    IN  after[Vendors]

\* The oldest of each group is kept, active or not.
Primary ==
    LET parents == Parents
        Group(v) == {w \in Live : Find(parents, w) = Find(parents, v)}
    IN  [v \in Vendor |-> IF v \in Live THEN Min(Group(v)) ELSE v]

MergeRead(s) ==
    LET primary == Primary
    IN  /\ Starting(s)
        /\ \E v \in Live : primary[v] # v
        /\ Read(s, "relink", [Blank EXCEPT !.primary = primary])

Duplicates(s) == {v \in Vendor : loc[s].primary[v] # v}

\* UPDATE ... SET vendor_id: rows committed by now move, and stay locked.
\* Their new vendor must exist.
\* Mutant: nothing is moved.
MovedNone(s) == [d \in Dependent |-> None]
Moved(s) == [d \in Dependent |->
                IF owner[d] \in Duplicates(s) THEN loc[s].primary[owner[d]] ELSE None]

MovingTo(t) == {loc[t].to[d] : d \in Dependent} \ {None}
LockedBy(t) == {d \in Dependent : loc[t].to[d] # None}

MergeRelink(s) ==
    /\ pc[s] = "relink"
    /\ \A d \in Dependent : owner[d] \in Duplicates(s) =>
          \A t \in Session \ {s} : d \notin LockedBy(t)
    /\ IF \A d \in Dependent : Moved(s)[d] # None => Moved(s)[d] \in Live
       THEN Read(s, "purge", [loc[s] EXCEPT !.to = Moved(s)])
       ELSE Fail(s)

\* A DELETE waits for rows of its vendors' dependents that another request has
\* moved and not committed, and for a vendor they were moved to.
MayDelete(s, vs) ==
    \A t \in Session \ {s} :
        /\ vs \cap MovingTo(t) = {}
        /\ \A d \in LockedBy(t) : owner[d] \notin vs

Deleted(vs) == [v \in Vendor |-> IF v \in vs /\ v \in Live THEN Gone ELSE row[v]]
Forgotten(vs) == [v \in Vendor |-> IF v \in vs THEN {} ELSE blind[v]]

\* What was inserted for a duplicate since it was moved loses its vendor.
MergeCommit(s) ==
    LET to == loc[s].to
    IN  /\ pc[s] = "purge"
        /\ MayDelete(s, Duplicates(s))
        /\ row' = Deleted(Duplicates(s))
        /\ owner' = [d \in Dependent |-> CASE to[d] # None -> to[d]
                                          [] to[d] = None /\ owner[d] \in Duplicates(s) -> None
                                          [] OTHER -> owner[d]]
        /\ blind' = Forgotten(Duplicates(s))
        /\ Finish(s, Duplicates(s))

\* delete_single_vendor, bulk_delete_vendors.
Delete(s, vs) ==
    /\ Starting(s)
    /\ vs \subseteq Live /\ MayDelete(s, vs)
    /\ row' = Deleted(vs)
    /\ owner' = [d \in Dependent |-> IF owner[d] \in vs THEN None ELSE owner[d]]
    /\ blind' = Forgotten(vs)
    /\ Finish(s, vs)

Abort(s) == pc[s] # "idle" /\ Fail(s)

Start(s) ==
    \/ \E n \in Name, b \in Bank : CreateFind(s, n, b)
    \/ \E n \in Name, b \in Bank, d \in Dependent : UploadMatch(s, n, b, d)
    \/ \E v \in Vendor, form \in Edits : EditRead(s, v, form.name, form.active)
    \/ \E sheet \in Sheets : ImportRead(s, sheet)
    \/ \E sheet \in Sheets, pick \in {"first", "last"} : BulkPreview(s, sheet, pick)
    \/ SeedRead(s) \/ MergeRead(s)
    \/ \E vs \in (SUBSET Vendor) \ {{}} : Delete(s, vs)

Step(s) ==
    \/ CreateByBank(s) \/ CreateInsert(s) \/ CreateApply(s)
    \/ EditCommit(s)
    \/ ConfirmRead(s) \/ ImportCommit(s)
    \/ SeedLookup(s) \/ SeedCommit(s)
    \/ UploadLookup(s) \/ UploadCommit(s)
    \/ MergeRelink(s) \/ MergeCommit(s)

Next == \E s \in Session : Start(s) \/ Step(s) \/ Abort(s)

Spec == Init /\ [][Next]_vars

-----------------------------------------------------------------------------
\* What a way of naming a vendor n fails to see: a vendor by the name m.
Overlooks(via, n, m) ==
    \/ via = "form" /\ SqlKeyOf[m] # KeyOf[n]    \* as it stands, m has an accented letter
    \/ via = "misread"                           \* a vendor of another form was renamed
    \/ via = "seed" /\ m # n
    \/ via = "upload" /\ WordsOf[m] # WordsOf[n]

\* Two vendors bear one name only if the edit form was used on one of them, if
\* the requests that named them ran at the same time, or if one of those
\* requests compares names in a form that tells the two apart.  So one request
\* at a time, names spelled in plain letters stay unique through create, upload
\* and the imports (create_vendor, bulk_upload_vendors, bulk_confirm_vendors,
\* upload_payment_spreadsheet), files that repeat a name included.
Plain(v) == v \in Live /\ ~row[v].edited
TwinsExplained ==
    \A v, w \in Vendor :
        Plain(v) /\ Plain(w) /\ v # w /\ KeyAt(v) = KeyAt(w) =>
            \/ v \in blind[w] \/ w \in blind[v]
            \/ Overlooks(row[v].via, row[v].name, row[w].name)
            \/ Overlooks(row[w].via, row[w].name, row[v].name)

\* "One vendor per name ... case, punctuation and whitespace are ignored"
\* (README.md:17): of two vendors with one normal form, the edit form touched
\* one, or the requests that named them ran at the same time.
OneVendorPerName ==
    \A v, w \in Vendor :
        Plain(v) /\ Plain(w) /\ v # w /\ KeyAt(v) = KeyAt(w) => v \in blind[w] \/ w \in blind[v]

\* The vendors of a group are those a chain of shared names and accounts
\* connects, and no others: the merge compares nothing else before it sends the
\* payments of all of them to one account.
Linked(v, w) == KeyAt(v) = KeyAt(w) \/ row[v].bank = row[w].bank
Closed(S) == \A x \in S, y \in Live \ S : ~Linked(x, y)
GroupsAreComponents ==
    LET primary == Primary
        splits  == {S \in SUBSET Live : Closed(S)}
    IN  /\ primary \in [Vendor -> Vendor]
        /\ \A v, w \in Live : primary[v] = primary[w] <=> \A S \in splits : v \in S => w \in S

\* A merge that nothing interrupts leaves no two vendors with one name or one
\* account, and everything that referred to a duplicate refers to a vendor
\* that was there before.
MergeSettles ==
    [][\A s \in Session :
          pc[s] = "purge" /\ pc'[s] = "idle" /\ row' # row /\ missed[s] = {} =>
            /\ \A v, w \in Live' : v # w => ~Linked(v, w)'
            /\ \A d \in Dependent : owner[d] \in Vendor => owner'[d] \in Live']_vars
=============================================================================
