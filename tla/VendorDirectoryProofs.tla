------------------------ MODULE VendorDirectoryProofs ------------------------
(***************************************************************************)
(* Proofs about VendorDirectory, for any number of requests, vendors and   *)
(* imported files.                                                         *)
(***************************************************************************)
EXTENDS VendorDirectory, Sums

Via == {"form", "misread", "import", "seed", "upload", None}
Row == [status : {"absent", "live", "deleted"}, name : Name \cup {None}, bank : Bank \cup {None},
        active : BOOLEAN, via : Via, edited : BOOLEAN]
Line == [line : Nat, name : Name, bank : Bank]
VendorUpdate == [target : Vendor \cup {None}, new : Line, seen : Row, rename : BOOLEAN, rebank : BOOLEAN]
Loc == [target : Vendor \cup {None}, seen : Row, new : Row,
        adds : SUBSET Line, line : Nat, updates : SUBSET VendorUpdate,
        primary : [Vendor -> Vendor], to : [Dependent -> Vendor \cup {None}],
        dependent : Dependent \cup {None}]
Label == {"idle", "by bank", "insert", "apply", "edit", "preview", "import", "seed", "lookup",
          "attach", "relink", "purge"}
Written == SUBSET (Vendor \cup Dependent \cup {None})

TypeOK ==
    /\ row \in [Vendor -> Row]
    /\ owner \in [Dependent -> Vendor \cup {None, Absent}]
    /\ pc \in [Session -> Label] /\ loc \in [Session -> Loc]
    /\ missed \in [Session -> Written] /\ blind \in [Vendor -> Written]

\* Who names a vendor n in this way should have seen one by the name m.
Clash(via, n, m) == KeyOf[n] = KeyOf[m] /\ ~Overlooks(via, n, m)

\* A request that is at "at" and holds l may name a vendor so that it clashes
\* with one by the name m.
Claims(at, l, m) ==
    \/ at \in {"by bank", "insert"} /\ Clash("form", l.new.name, m)
    \/ at = "apply" /\ Renames(l) /\ Clash(Way(l), l.new.name, m)
    \/ at = "lookup" /\ Clash("upload", l.new.name, m)
    \/ at = "attach" /\ l.target = None /\ Clash("upload", l.new.name, m)
    \/ /\ at \in {"preview", "import"}
       /\ \/ \E r \in l.adds : KeyOf[m] = KeyOf[r.name]
          \/ \E u \in l.updates : u.rename /\ KeyOf[m] = KeyOf[u.new.name]
    \/ at = "seed" /\ \E r \in l.adds : m = r.name

\* The reference vendor that stands on a line of the list.
Sample(i) == [line |-> i, name |-> Samples[i].name, bank |-> Samples[i].bank]

\* A file has an end, and no two vendors get one name from it; the reference
\* vendors to add are on the list, as far as it was read.
Distinct(at, l) ==
    /\ at \in {"preview", "import"} =>
        /\ \A q, r \in l.adds : q # r => ~SameName(q, r)
        /\ \A r \in l.adds, u \in l.updates : ~SameName(r, u.new)
        /\ \A t, u \in l.updates : t.target # u.target => ~SameName(t.new, u.new)
        /\ \E n \in Nat : /\ \A r \in l.adds : r.line <= n
                          /\ \A u \in l.updates : u.new.line <= n
    /\ at = "seed" => \A r \in l.adds : r.line \in DOMAIN Samples /\ r = Sample(r.line)

\* Filing a vendor under upper case and 22 characters keeps the words of its name.
ShortNames == \A n \in Name : WordsOf[Filed[n]] = WordsOf[n]
Explained == ShortNames => TwinsExplained

\* Who bears a name a request would clash with has come by it while the request ran.
Watched(s) ==
    ShortNames =>
        \A v \in Vendor : Plain(v) /\ Claims(pc[s], loc[s], row[v].name) => v \in missed[s]

DirectoryInv ==
    /\ TypeOK /\ Explained
    /\ \A v \in Vendor : Plain(v) => row[v].active
    /\ \A s \in Session : Watched(s) /\ Distinct(pc[s], loc[s])

-----------------------------------------------------------------------------
(* The two ways a request moves on.                                         *)

\* s goes on, or begins; only what it holds changes.
Proceeds(s) ==
    /\ UNCHANGED <<row, owner, missed, blind>>
    /\ pc' = [pc EXCEPT ![s] = pc'[s]] /\ loc' = [loc EXCEPT ![s] = loc'[s]]

\* s ends, and the requests in flight miss what it changed.
Ends(s) ==
    /\ pc' = [pc EXCEPT ![s] = "idle"] /\ loc' = [loc EXCEPT ![s] = Blank]
    /\ missed' \in [Session -> Written]
    /\ \A t \in Session : t # s /\ pc[t] # "idle" =>
          missed[t] \subseteq missed'[t] /\ \A v \in Vendor : row'[v] # row[v] => v \in missed'[t]

LEMMA Blanks == Blank \in Loc /\ Blank.new = NoRow /\ NoRow \in Row
  BY DEF Blank, Loc, NoRow, Row, Via

LEMMA ReadProceeds ==
    ASSUME TypeOK, NEW s \in Session, NEW at, NEW l, Read(s, at, l)
    PROVE  Proceeds(s) /\ pc'[s] = at /\ loc'[s] = l
  BY DEF Read, Goto, Proceeds, TypeOK

LEMMA ProceedsKeeps ==
    ASSUME DirectoryInv, NEW s \in Session, Proceeds(s),
           pc'[s] \in Label, loc'[s] \in Loc, Distinct(pc'[s], loc'[s]),
           ShortNames => \A v \in Vendor : Plain(v) /\ Claims(pc'[s], loc'[s], row[v].name) => v \in missed[s]
    PROVE  DirectoryInv'
<1>1. TypeOK'
  BY DEF DirectoryInv, TypeOK, Proceeds
<1>2. Explained'
  BY DEF DirectoryInv, Proceeds, Explained, TwinsExplained, Live, KeyAt, Plain
<1>3. \A v \in Vendor : Plain(v)' => row'[v].active
  BY DEF DirectoryInv, Proceeds, Plain, Live
<1>4. ASSUME NEW t \in Session PROVE Watched(t)' /\ Distinct(pc[t], loc[t])'
  <2>1. CASE t = s
    BY <2>1 DEF Watched, Plain, Live, Proceeds
  <2>2. CASE t # s
    <3>1. pc'[t] = pc[t] /\ loc'[t] = loc[t] /\ Watched(t) /\ Distinct(pc[t], loc[t])
      BY <2>2 DEF DirectoryInv, TypeOK, Proceeds
    <3> QED
      BY <3>1 DEF Watched, Plain, Live, Proceeds
  <2> QED
    BY <2>1, <2>2
<1> QED
  BY <1>1, <1>2, <1>3, <1>4 DEF DirectoryInv

LEMMA EndsKeeps ==
    ASSUME DirectoryInv, NEW s \in Session, Ends(s),
           row' \in [Vendor -> Row], owner' \in [Dependent -> Vendor \cup {None, Absent}],
           blind' \in [Vendor -> Written], Explained',
           \A v \in Vendor : Plain(v)' => row'[v].active
    PROVE  DirectoryInv'
<1>1. TypeOK'
  BY Blanks DEF DirectoryInv, TypeOK, Ends, Label
<1>2. ASSUME NEW t \in Session PROVE Watched(t)' /\ Distinct(pc[t], loc[t])'
  <2>1. CASE t = s \/ pc[t] = "idle"
    <3>1. pc'[t] = "idle"
      BY <2>1 DEF DirectoryInv, TypeOK, Ends
    <3> QED
      BY <3>1 DEF Watched, Claims, Distinct
  <2>2. CASE t # s /\ pc[t] # "idle"
    <3>1. /\ pc'[t] = pc[t] /\ loc'[t] = loc[t] /\ Watched(t) /\ Distinct(pc[t], loc[t])
          /\ missed[t] \subseteq missed'[t] /\ \A v \in Vendor : row'[v] # row[v] => v \in missed'[t]
      BY <2>2 DEF DirectoryInv, TypeOK, Ends
    <3> QED
      BY <3>1 DEF Watched, Plain, Live
  <2> QED
    BY <2>1, <2>2
<1> QED
  BY <1>1, <1>2 DEF DirectoryInv

\* A commit that names the vendors of "named", none of which clashes with
\* another, or with a name the request did not claim.
LEMMA NamingKeepsTwins ==
    ASSUME DirectoryInv, NEW s \in Session, NEW named \in SUBSET Vendor,
           \A v \in Vendor \ named : Plain(v)' =>
              /\ Plain(v) /\ blind'[v] = blind[v]
              /\ row'[v].name = row[v].name /\ row'[v].via = row[v].via,
           \A v \in named : blind'[v] = missed[s] /\
              \A m : Clash(row'[v].via, row'[v].name, m) => Claims(pc[s], loc[s], m),
           \A v, w \in named : v # w => ~Clash(row'[v].via, row'[v].name, row'[w].name)
    PROVE  Explained'
<1> SUFFICES ASSUME ShortNames, NEW v \in Vendor, NEW w \in Vendor, Plain(v)', Plain(w)', v # w,
                    KeyOf[row'[v].name] = KeyOf[row'[w].name]
             PROVE  \/ v \in blind'[w] \/ w \in blind'[v]
                    \/ Overlooks(row'[v].via, row'[v].name, row'[w].name)
                    \/ Overlooks(row'[w].via, row'[w].name, row'[v].name)
  BY DEF Explained, TwinsExplained, KeyAt
<1>1. CASE v \notin named /\ w \notin named
  <2>1. /\ Plain(v) /\ blind'[v] = blind[v] /\ row'[v].name = row[v].name /\ row'[v].via = row[v].via
        /\ Plain(w) /\ blind'[w] = blind[w] /\ row'[w].name = row[w].name /\ row'[w].via = row[w].via
    BY <1>1
  <2>2. TwinsExplained
    BY DEF DirectoryInv, Explained
  <2> QED
    BY <2>1, <2>2 DEF TwinsExplained, KeyAt
<1>2. ASSUME NEW x \in named, NEW y \in Vendor \ named, Plain(y)',
             Clash(row'[x].via, row'[x].name, row'[y].name)
      PROVE  y \in blind'[x]
  <2>1. Plain(y) /\ Claims(pc[s], loc[s], row[y].name) /\ Watched(s)
    BY <1>2 DEF DirectoryInv
  <2> QED
    BY <1>2, <2>1 DEF Watched
<1>3. CASE v \in named /\ w \notin named
  BY <1>2, <1>3 DEF Clash
<1>4. CASE w \in named /\ v \notin named
  BY <1>2, <1>4 DEF Clash
<1>5. CASE v \in named /\ w \in named
  BY <1>5 DEF Clash
<1> QED
  BY <1>1, <1>3, <1>4, <1>5

-----------------------------------------------------------------------------
(* What the look-ups return.                                                *)

LEMMA Least == ASSUME NEW S \in SUBSET Vendor, S # {}
               PROVE  Min(S) \in S /\ \A x \in S : Min(S) <= x
<1>1. S \in SUBSET Nat
  BY DirectoryAssumption DEF Vendor
<1>2. \E m \in S : \A x \in S : m <= x
  BY <1>1, LeastNumber
<1> QED
  BY <1>2 DEF Min

\* A bounded set of numbers has a greatest one.
LEMMA GreatestNumber ==
    ASSUME NEW n \in Nat, NEW S \in SUBSET (0..n), S # {}
    PROVE  \E m \in S : \A x \in S : x <= m
<1> DEFINE T == {k \in 0..n : n - k \in S}
<1>1. T # {}
  <2>1. PICK x \in S : TRUE
    OBVIOUS
  <2>2. n - x \in 0..n /\ n - (n - x) = x
    BY <2>1
  <2> QED
    BY <2>2
<1>2. PICK k \in T : \A j \in T : k <= j
  <2>1. T \in SUBSET Nat
    OBVIOUS
  <2> HIDE DEF T
  <2> QED
    BY <1>1, <2>1, LeastNumber
<1>3. ASSUME NEW x \in S PROVE x <= n - k
  <2>1. x \in 0..n /\ n - x \in 0..n /\ n - (n - x) = x
    BY <1>3
  <2>2. k <= n - x
    BY <1>2, <2>1
  <2> QED
    BY <1>2, <2>1, <2>2
<1> QED
  BY <1>2, <1>3

LEMMA OneIn == ASSUME NEW S \in SUBSET Vendor, S # {}, NEW pick
               PROVE  One(S, pick) \in S
<1>1. Min(S) \in S
  BY Least
<1>2. Max(S) \in S
  <2>1. Vendors \in Nat /\ S \in SUBSET (0..Vendors)
    BY DirectoryAssumption DEF Vendor
  <2>2. \E m \in S : \A x \in S : m >= x
    <3>1. PICK m \in S : \A x \in S : x <= m
      BY <2>1, GreatestNumber
    <3> QED
      BY <2>1, <3>1
  <2> QED
    BY <2>2 DEF Max
<1> QED
  BY <1>1, <1>2 DEF One

\* A row is known by its name if one bears it.
LEMMA ExistingIs ==
    ASSUME NEW r, NEW pick
    PROVE  /\ Existing(r, pick) \in Vendor \cup {None}
           /\ Existing(r, pick) = None => Named(r.name) = {}
           /\ Named(r.name) # {} => Existing(r, pick) \in Named(r.name)
<1>1. Named(r.name) \in SUBSET Vendor /\ Banked(r.bank) \in SUBSET Vendor /\ None \notin Vendor
  BY DirectoryAssumption DEF Named, Banked, Live
<1>2. CASE Named(r.name) # {}
  <2>1. Existing(r, pick) = One(Named(r.name), pick)
    BY <1>2 DEF Existing
  <2> QED
    BY <1>1, <1>2, <2>1, OneIn
<1>3. CASE Named(r.name) = {} /\ Banked(r.bank) # {}
  <2>1. Existing(r, pick) = One(Banked(r.bank), pick)
    BY <1>3 DEF Existing
  <2> QED
    BY <1>1, <1>3, <2>1, OneIn
<1>4. CASE Named(r.name) = {} /\ Banked(r.bank) = {}
  BY <1>4 DEF Existing
<1> QED
  BY <1>2, <1>3, <1>4

LEMMA LinesAre ==
    ASSUME NEW sheet \in Sheets
    PROVE  /\ Lines(sheet) \in SUBSET Line
           /\ \A q, r \in Lines(sheet) : q.line = r.line => q = r
           /\ \E n \in Nat : \A r \in Lines(sheet) : r.line <= n
<1>1. sheet \in Seq(SheetRow)
  BY DirectoryAssumption
<1>2. Len(sheet) \in Nat /\ DOMAIN sheet = 1..Len(sheet) /\ \A i \in DOMAIN sheet : sheet[i] \in SheetRow
  BY <1>1
<1> QED
  BY <1>2 DEF Lines, Line, SheetRow

\* Taking rows in order comes to an end.
LEMMA TakenIs ==
    ASSUME NEW rows \in SUBSET Line, NEW n \in Nat, \A r \in rows : r.line <= n
    PROVE  /\ Taken(rows) \in SUBSET rows
           /\ \A q, r \in Taken(rows) : q.line < r.line => ~SameName(q, r)
<1> DEFINE Up(k) == {r \in rows : r.line < k}
           Fair(T, k) == \A r \in Up(k) : r \in T <=>
                            \A q \in T : q.line < r.line => ~SameName(q, r) /\ ~SameBank(q, r)
           Good == {k \in Nat : \E T \in SUBSET Up(k) : Fair(T, k)}
<1>1. \A r \in rows : r.line \in Nat
  BY DEF Line
<1>2. 0 \in Good
  <2>1. Up(0) = {}
    BY <1>1
  <2> QED
    BY <2>1
<1>3. ASSUME NEW k \in Good PROVE k + 1 \in Good
  <2>1. PICK T \in SUBSET Up(k) : Fair(T, k)
    OBVIOUS
  <2> DEFINE N == {r \in rows : r.line = k /\ \A q \in T : ~SameName(q, r) /\ ~SameBank(q, r)}
  <2>2. T \cup N \in SUBSET Up(k + 1)
    BY <1>1
  <2>3. ASSUME NEW r \in Up(k + 1), NEW q \in T \cup N, q.line < r.line PROVE q \in T
    BY <1>1, <2>3
  <2>4. ASSUME NEW r \in Up(k + 1)
        PROVE  r \in T \cup N <=>
                  \A q \in T \cup N : q.line < r.line => ~SameName(q, r) /\ ~SameBank(q, r)
    <3>1. CASE r.line < k
      <4>1. r \in Up(k) /\ r \notin N
        BY <1>1, <3>1
      <4> QED
        BY <2>1, <2>3, <4>1
    <3>2. CASE r.line = k
      <4>1. r \notin T /\ \A q \in T : q.line < r.line
        BY <1>1, <3>2
      <4> QED
        BY <2>3, <3>2, <4>1
    <3> QED
      BY <1>1, <3>1, <3>2
  <2>5. k + 1 \in Nat /\ Fair(T \cup N, k + 1)
    BY <2>4
  <2> HIDE DEF Fair, Up, N
  <2> QED
    BY <2>2, <2>5
<1>4. n + 1 \in Good
  <2> DEFINE S == Nat \ Good
  <2> HIDE DEF Good
  <2> SUFFICES ASSUME n + 1 \in S PROVE FALSE
    OBVIOUS
  <2>1. PICK m \in S : \A j \in S : m <= j
    BY LeastNumber
  <2>2. m # 0 /\ m - 1 \in Nat /\ m - 1 \in Good
    BY <1>2, <2>1
  <2>3. (m - 1) + 1 = m
    BY <2>1
  <2> QED
    BY <1>3, <2>1, <2>2, <2>3
<1>5. PICK T \in SUBSET rows : Fair(T, n + 1)
  BY <1>4
<1>6. \A r \in rows : r \in Up(n + 1)
  BY <1>1
<1>7. \A r \in rows : r \in T <=> \A q \in T : q.line < r.line => ~SameName(q, r) /\ ~SameBank(q, r)
  BY <1>5, <1>6
<1>8. /\ Taken(rows) \in SUBSET rows
      /\ \A r \in rows : r \in Taken(rows) <=>
            \A q \in Taken(rows) : q.line < r.line => ~SameName(q, r) /\ ~SameBank(q, r)
  BY <1>7 DEF Taken
<1> QED
  BY <1>8

-----------------------------------------------------------------------------
(* Requests that read.                                                      *)

LEMMA CreateFindInv ==
    ASSUME DirectoryInv, NEW s \in Session, NEW n \in Name, NEW b \in Bank, CreateFind(s, n, b)
    PROVE  DirectoryInv'
<1> DEFINE l == [Blank EXCEPT !.new = NewRow(n, b, "form")]
<1>1. l \in Loc /\ l.new.name = n
  BY Blanks DEF Blank, Loc, NewRow, Row, Via
<1>2. TypeOK
  BY DEF DirectoryInv
<1>3. CASE Queried(n) = {} /\ Read(s, "by bank", l)
  <2> HIDE DEF l
  <2>1. Proceeds(s) /\ pc'[s] = "by bank" /\ loc'[s] = l
    BY <1>2, <1>3, ReadProceeds
  <2>2. ASSUME NEW v \in Vendor, Plain(v), Claims("by bank", l, row[v].name) PROVE FALSE
    <3>1. SqlKeyOf[row[v].name] = KeyOf[n]
      BY <1>1, <2>2 DEF Claims, Clash, Overlooks
    <3> QED
      BY <1>3, <2>2, <3>1 DEF Queried, Plain
  <2>3. Distinct("by bank", l) /\ "by bank" \in Label
    BY DEF Distinct, Label
  <2> QED
    BY <1>1, <2>1, <2>2, <2>3, ProceedsKeeps
<1>4. ASSUME NEW v \in Queried(n), Read(s, "apply", [l EXCEPT !.target = v, !.seen = row[v]])
      PROVE  DirectoryInv'
  <2>1. Proceeds(s) /\ pc'[s] = "apply" /\ loc'[s] = [l EXCEPT !.target = v, !.seen = row[v]]
    <3> HIDE DEF l
    <3> QED
      BY <1>2, <1>4 DEF Read, Goto, Proceeds, TypeOK
  <2> HIDE DEF l
  <2>2. v \in Vendor /\ row[v] \in Row /\ SqlKeyOf[row[v].name] = KeyOf[n]
    BY <1>2 DEF Queried, Live, TypeOK
  <2>3. loc'[s] \in Loc /\ loc'[s].seen = row[v] /\ loc'[s].new.name = n
    BY <1>1, <2>1, <2>2 DEF Loc
  <2>4. ASSUME NEW w \in Vendor, Claims("apply", loc'[s], row[w].name) PROVE FALSE
    <3>1. Way(loc'[s]) = "misread"
      BY <2>2, <2>3 DEF Way
    <3> QED
      BY <2>4, <3>1 DEF Claims, Clash, Overlooks
  <2>5. Distinct("apply", loc'[s]) /\ "apply" \in Label
    BY DEF Distinct, Label
  <2> QED
    BY <2>1, <2>3, <2>4, <2>5, ProceedsKeeps
<1> QED
  BY <1>3, <1>4 DEF CreateFind

LEMMA CreateByBankInv ==
    ASSUME DirectoryInv, NEW s \in Session, CreateByBank(s)
    PROVE  DirectoryInv'
<1>1. TypeOK /\ Watched(s) /\ loc[s] \in Loc /\ pc[s] = "by bank"
  BY DEF DirectoryInv, TypeOK, CreateByBank
<1>2. CASE Read(s, "insert", loc[s])
  <2>1. Proceeds(s) /\ pc'[s] = "insert" /\ loc'[s] = loc[s]
    BY <1>1, <1>2 DEF Read, Goto, Proceeds, TypeOK
  <2>2. \A k : Claims("insert", loc[s], k) => Claims("by bank", loc[s], k)
    BY DEF Claims
  <2>3. Distinct("insert", loc[s]) /\ "insert" \in Label
    BY DEF Distinct, Label
  <2> QED
    BY <1>1, <2>1, <2>2, <2>3, ProceedsKeeps DEF Watched
<1>3. ASSUME NEW v \in Banked(loc[s].new.bank),
             Read(s, "apply", [loc[s] EXCEPT !.target = v, !.seen = row[v]])
      PROVE  DirectoryInv'
  <2>1. Proceeds(s) /\ pc'[s] = "apply" /\ loc'[s] = [loc[s] EXCEPT !.target = v, !.seen = row[v]]
    BY <1>1, <1>3 DEF Read, Goto, Proceeds, TypeOK
  <2>2. v \in Vendor /\ row[v] \in Row
    BY <1>1 DEF Banked, Live, TypeOK
  <2>3. loc'[s] \in Loc /\ loc'[s].new = loc[s].new
    BY <1>1, <2>1, <2>2 DEF Loc
  <2>4. \A k : Claims("apply", loc'[s], k) => Claims("by bank", loc[s], k)
    BY <2>3 DEF Claims, Clash, Overlooks, Way
  <2>5. Distinct("apply", loc'[s]) /\ "apply" \in Label
    BY DEF Distinct, Label
  <2> QED
    BY <1>1, <2>1, <2>3, <2>4, <2>5, ProceedsKeeps DEF Watched
<1> QED
  BY <1>2, <1>3 DEF CreateByBank

LEMMA EditReadInv ==
    ASSUME DirectoryInv, NEW s \in Session, NEW v \in Vendor, NEW n \in Name, NEW active \in BOOLEAN,
           EditRead(s, v, n, active)
    PROVE  DirectoryInv'
<1> DEFINE new == [row[v] EXCEPT !.name = n, !.active = active]
<1>1. TypeOK /\ row[v] \in Row /\ new \in Row
  BY DEF DirectoryInv, TypeOK, Row
<1> HIDE DEF new
<1>2. /\ Proceeds(s) /\ pc'[s] = "edit"
      /\ loc'[s] = [Blank EXCEPT !.target = v, !.seen = row[v], !.new = new]
  BY <1>1 DEF EditRead, Read, Goto, Proceeds, TypeOK, new
<1>3. loc'[s] \in Loc
  BY <1>1, <1>2, Blanks DEF Loc
<1>4. Distinct("edit", loc'[s]) /\ "edit" \in Label /\ \A k : ~Claims("edit", loc'[s], k)
  BY DEF Distinct, Claims, Label
<1> QED
  BY <1>2, <1>3, <1>4, ProceedsKeeps

LEMMA UploadMatchInv ==
    ASSUME DirectoryInv, NEW s \in Session, NEW n \in Name, NEW b \in Bank, NEW d \in Dependent,
           UploadMatch(s, n, b, d)
    PROVE  DirectoryInv'
<1> DEFINE l == [Blank EXCEPT !.new = NewRow(Filed[n], b, "upload"), !.dependent = d]
<1>1. l \in Loc /\ l.new.name = Filed[n]
  BY Blanks, DirectoryAssumption DEF Loc, NewRow, Row, Via
<1> HIDE DEF l
<1>2. TypeOK
  BY DEF DirectoryInv
<1>3. CASE Matches(n) = {} /\ Read(s, "lookup", l)
  <2>1. Proceeds(s) /\ pc'[s] = "lookup" /\ loc'[s] = l
    BY <1>2, <1>3, ReadProceeds
  <2>2. ASSUME ShortNames, NEW v \in Vendor, Plain(v), Claims("lookup", l, row[v].name) PROVE FALSE
    <3>1. WordsOf[row[v].name] = WordsOf[n]
      BY <1>1, <2>2 DEF Claims, Clash, Overlooks, ShortNames
    <3>2. row[v].active /\ v \in Live
      BY <2>2 DEF DirectoryInv, Plain
    <3> QED
      BY <1>3, <3>1, <3>2 DEF UploadMatch, Ambiguous, SameWords
  <2>3. Distinct("lookup", l) /\ "lookup" \in Label
    BY DEF Distinct, Label
  <2> QED
    BY <1>1, <2>1, <2>2, <2>3, ProceedsKeeps
<1>4. ASSUME NEW v \in Matches(n), Read(s, "attach", [l EXCEPT !.target = v])
      PROVE  DirectoryInv'
  <2>1. Proceeds(s) /\ pc'[s] = "attach" /\ loc'[s] = [l EXCEPT !.target = v]
    BY <1>2, <1>4, ReadProceeds
  <2>2. v \in Vendor /\ v # None
    BY DirectoryAssumption DEF Matches, SameWords, Live
  <2>3. loc'[s] \in Loc /\ loc'[s].target = v
    BY <1>1, <2>1, <2>2 DEF Loc
  <2>4. \A k : ~Claims("attach", loc'[s], k)
    BY <2>2, <2>3 DEF Claims
  <2>5. Distinct("attach", loc'[s]) /\ "attach" \in Label
    BY DEF Distinct, Label
  <2> QED
    BY <2>1, <2>3, <2>4, <2>5, ProceedsKeeps
<1> QED
  BY <1>3, <1>4 DEF UploadMatch, l

LEMMA UploadLookupInv ==
    ASSUME DirectoryInv, NEW s \in Session, UploadLookup(s), ~Fail(s)
    PROVE  DirectoryInv'
<1> DEFINE filed == {v \in Live : row[v].name = loc[s].new.name}
<1>1. TypeOK /\ Watched(s) /\ loc[s] \in Loc /\ pc[s] = "lookup"
  BY DEF DirectoryInv, TypeOK, UploadLookup
<1>2. CASE Read(s, "attach", loc[s])
  <2>1. Proceeds(s) /\ pc'[s] = "attach" /\ loc'[s] = loc[s]
    BY <1>1, <1>2 DEF Read, Goto, Proceeds, TypeOK
  <2>2. \A k : Claims("attach", loc[s], k) => Claims("lookup", loc[s], k)
    BY DEF Claims
  <2>3. Distinct("attach", loc[s]) /\ "attach" \in Label
    BY DEF Distinct, Label
  <2> QED
    BY <1>1, <2>1, <2>2, <2>3, ProceedsKeeps DEF Watched
<1>3. CASE filed # {} /\ Read(s, "attach", [loc[s] EXCEPT !.target = Min(filed)])
  <2>1. Min(filed) \in Vendor
    <3>1. filed \in SUBSET Vendor
      BY DEF Live
    <3> HIDE DEF filed
    <3> QED
      BY <1>3, <3>1, Least
  <2> HIDE DEF filed
  <2>2. Proceeds(s) /\ pc'[s] = "attach" /\ loc'[s] = [loc[s] EXCEPT !.target = Min(filed)]
    BY <1>1, <1>3 DEF Read, Goto, Proceeds, TypeOK
  <2>3. loc'[s] \in Loc /\ loc'[s].new = loc[s].new
    BY <1>1, <2>1, <2>2 DEF Loc
  <2>4. \A k : Claims("attach", loc'[s], k) => Claims("lookup", loc[s], k)
    BY <2>3 DEF Claims
  <2>5. Distinct("attach", loc'[s]) /\ "attach" \in Label
    BY DEF Distinct, Label
  <2> QED
    BY <1>1, <2>2, <2>3, <2>4, <2>5, ProceedsKeeps DEF Watched
<1>4. CASE filed = {}
  <2>1. Cardinality(filed) # 1
    BY <1>4, FS_EmptySet
  <2>2. Read(s, "attach", loc[s])
    BY <1>4, <2>1, Zenon DEF UploadLookup
  <2> QED
    BY <1>2, <2>2
<1>5. CASE filed # {}
  <2>1. Read(s, "attach", [loc[s] EXCEPT !.target = Min(filed)])
    BY <1>5, Zenon DEF UploadLookup
  <2> QED
    BY <1>3, <1>5, <2>1
<1> QED
  BY <1>4, <1>5

\* Of two rows of a file that bear one name, only the first is kept.
LEMMA OneLineEach ==
    ASSUME NEW sheet \in Sheets, NEW rows \in SUBSET Lines(sheet),
           \A q, r \in rows : q.line < r.line => ~SameName(q, r)
    PROVE  \A q, r \in rows : q # r => ~SameName(q, r)
<1> SUFFICES ASSUME NEW q \in rows, NEW r \in rows, q # r PROVE ~SameName(q, r)
  OBVIOUS
<1>1. q.line \in Nat /\ r.line \in Nat /\ q.line # r.line
  BY LinesAre DEF Line
<1>2. CASE q.line < r.line
  BY <1>2
<1>3. CASE r.line < q.line
  BY <1>3 DEF SameName
<1> QED
  BY <1>1, <1>2, <1>3

LEMMA ImportReadInv ==
    ASSUME DirectoryInv, NEW s \in Session, NEW sheet \in Sheets, ImportRead(s, sheet)
    PROVE  DirectoryInv'
<1> DEFINE new == {r \in Lines(sheet) : Existing(r, "last") = None}
<1>1. PICK n \in Nat : \A r \in Lines(sheet) : r.line <= n
  BY LinesAre
<1>2. /\ Imported(sheet) \in SUBSET new
      /\ \A q, r \in Imported(sheet) : q.line < r.line => ~SameName(q, r)
  <2>1. new \in SUBSET Line /\ \A r \in new : r.line <= n
    BY <1>1, LinesAre
  <2>2. Imported(sheet) = Taken(new)
    BY DEF Imported
  <2> HIDE DEF new
  <2> QED
    BY <2>1, <2>2, TakenIs
<1>3. PICK adds : adds = Imported(sheet)
  OBVIOUS
<1>4. adds \in SUBSET Lines(sheet) /\ \A r \in adds : Named(r.name) = {}
  BY <1>2, <1>3, ExistingIs
<1>5. \A q, r \in adds : q # r => ~SameName(q, r)
  BY <1>2, <1>3, <1>4, OneLineEach
<1> HIDE DEF new
<1>6. TypeOK
  BY DEF DirectoryInv
<1>7. Proceeds(s) /\ pc'[s] = "import" /\ loc'[s] = [Blank EXCEPT !.adds = adds]
  BY <1>3, <1>6 DEF ImportRead, Read, Goto, Proceeds, TypeOK
<1>8. adds \in SUBSET Line
  BY <1>4, LinesAre
<1>9. loc'[s] \in Loc /\ loc'[s].adds = adds /\ loc'[s].updates = {}
  BY <1>7, <1>8, Blanks DEF Loc, Blank
<1>10. Distinct("import", loc'[s]) /\ "import" \in Label
  BY <1>1, <1>4, <1>5, <1>9 DEF Distinct, Label
<1>11. ASSUME NEW v \in Vendor, Plain(v), Claims("import", loc'[s], row[v].name) PROVE FALSE
  <2>1. PICK r \in adds : KeyAt(v) = KeyOf[r.name]
    BY <1>9, <1>11 DEF Claims, KeyAt
  <2> QED
    BY <1>4, <1>11, <2>1 DEF Named, Plain
<1> QED
  BY <1>7, <1>9, <1>10, <1>11, ProceedsKeeps

LEMMA BulkPreviewInv ==
    ASSUME DirectoryInv, NEW s \in Session, NEW sheet \in Sheets, NEW pick, BulkPreview(s, sheet, pick)
    PROVE  DirectoryInv'
<1> DEFINE rows == FirstOfName(Lines(sheet))
           adds == {r \in rows : Existing(r, pick) = None}
           updates == {u \in {Update(Existing(r, pick), r) : r \in rows \ adds} : u.rename \/ u.rebank}
           l == [Blank EXCEPT !.adds = adds, !.updates = updates]
<1>1. TypeOK /\ rows \in SUBSET Lines(sheet) /\ rows \in SUBSET Line
  BY LinesAre DEF DirectoryInv, FirstOfName
<1>2. \A q, r \in rows : q # r => ~SameName(q, r)
  <2>1. \A q, r \in rows : q.line < r.line => ~SameName(q, r)
    BY DEF FirstOfName
  <2> HIDE DEF rows
  <2> QED
    BY <1>1, <2>1, OneLineEach
<1>3. ASSUME NEW u \in updates
      PROVE  /\ u \in VendorUpdate
             /\ u.new \in rows \ adds /\ u.target = Existing(u.new, pick)
             /\ u.rename => Named(u.new.name) = {}
  <2>1. PICK r \in rows \ adds : u = Update(Existing(r, pick), r)
    OBVIOUS
  <2>2. Existing(r, pick) \in Vendor
    BY <2>1, ExistingIs
  <2> HIDE DEF rows, adds, updates
  <2>3. u.new = r /\ u.target = Existing(r, pick)
    BY <2>1 DEF Update
  <2>4. u \in VendorUpdate
    <3>1. row[Existing(r, pick)] \in Row /\ r \in Line
      BY <1>1, <2>2 DEF TypeOK
    <3> QED
      BY <2>1, <2>2, <3>1 DEF Update, VendorUpdate
  <2>5. u.rename => KeyAt(Existing(r, pick)) # KeyOf[r.name]
    BY <2>1, Zenon DEF Update
  <2>6. Named(r.name) # {} => KeyAt(Existing(r, pick)) = KeyOf[r.name]
    BY ExistingIs DEF Named
  <2> QED
    BY <2>1, <2>3, <2>4, <2>5, <2>6
<1>4. PICK n \in Nat : \A r \in Lines(sheet) : r.line <= n
  BY LinesAre
<1>5. ASSUME NEW r \in adds PROVE r \in rows /\ Named(r.name) = {}
  BY ExistingIs
<1>6. Proceeds(s) /\ pc'[s] = "preview" /\ loc'[s] = l
  <2>1. Read(s, "preview", l)
    BY DEF BulkPreview
  <2> HIDE DEF l
  <2> QED
    BY <1>1, <2>1 DEF Read, Goto, Proceeds, TypeOK
<1>7. adds \cap (rows \ adds) = {}
  OBVIOUS
<1> HIDE DEF rows, adds, updates
<1>8. loc'[s] \in Loc /\ loc'[s].adds = adds /\ loc'[s].updates = updates
  <2>1. adds \in SUBSET Line /\ updates \in SUBSET VendorUpdate
    BY <1>1, <1>3, <1>5
  <2> QED
    BY <1>6, <2>1, Blanks DEF Loc, Blank
<1>9. Distinct("preview", loc'[s]) /\ "preview" \in Label
  <2>1. \A q, r \in adds : q # r => ~SameName(q, r)
    BY <1>2, <1>5
  <2>2. \A r \in adds, u \in updates : ~SameName(r, u.new)
    BY <1>2, <1>3, <1>5, <1>7
  <2>3. \A t, u \in updates : t.target # u.target => ~SameName(t.new, u.new)
    BY <1>2, <1>3
  <2>4. (\A r \in adds : r.line <= n) /\ \A u \in updates : u.new.line <= n
    BY <1>1, <1>3, <1>4, <1>5
  <2> QED
    BY <1>8, <2>1, <2>2, <2>3, <2>4 DEF Distinct, Label
<1>10. ASSUME NEW v \in Vendor, Plain(v), Claims("preview", loc'[s], row[v].name) PROVE FALSE
  <2>1. PICK r : KeyAt(v) = KeyOf[r.name] /\ Named(r.name) = {}
    BY <1>3, <1>5, <1>8, <1>10 DEF Claims, KeyAt
  <2> QED
    BY <1>10, <2>1 DEF Named, Plain
<1> QED
  BY <1>6, <1>8, <1>9, <1>10, ProceedsKeeps

LEMMA ConfirmReadInv ==
    ASSUME DirectoryInv, NEW s \in Session, ConfirmRead(s)
    PROVE  DirectoryInv'
<1> DEFINE adds == {r \in Taken(loc[s].adds) : Existing(r, "last") = None}
           updates == {[u EXCEPT !.seen = row[u.target]] : u \in {x \in loc[s].updates : x.target \in Live}}
           l == [loc[s] EXCEPT !.adds = adds, !.updates = updates]
<1>1. TypeOK /\ Watched(s) /\ Distinct("preview", loc[s]) /\ loc[s] \in Loc /\ pc[s] = "preview"
  BY DEF DirectoryInv, TypeOK, ConfirmRead
<1>2. PICK n \in Nat : (\A r \in loc[s].adds : r.line <= n) /\ \A u \in loc[s].updates : u.new.line <= n
  BY <1>1 DEF Distinct
<1>3. loc[s].adds \in SUBSET Line /\ loc[s].updates \in SUBSET VendorUpdate
  BY <1>1 DEF Loc
<1>4. adds \in SUBSET loc[s].adds
  BY <1>2, <1>3, TakenIs
<1>5. ASSUME NEW u \in updates
      PROVE  /\ u \in VendorUpdate
             /\ \E x \in loc[s].updates : x.target = u.target /\ x.new = u.new /\ x.rename = u.rename
  <2>1. PICK x \in loc[s].updates : x.target \in Live /\ u = [x EXCEPT !.seen = row[x.target]]
    OBVIOUS
  <2>2. x \in VendorUpdate /\ row[x.target] \in Row
    BY <1>1, <1>3, <2>1 DEF TypeOK, Live
  <2> HIDE DEF updates
  <2>3. x.target = u.target /\ x.new = u.new /\ x.rename = u.rename
    BY <2>1, <2>2 DEF VendorUpdate
  <2> QED
    BY <2>1, <2>2, <2>3 DEF VendorUpdate
<1>6. Proceeds(s) /\ pc'[s] = "import" /\ loc'[s] = l
  <2>1. Read(s, "import", l)
    BY DEF ConfirmRead
  <2> HIDE DEF l
  <2> QED
    BY <1>1, <2>1 DEF Read, Goto, Proceeds, TypeOK
<1> HIDE DEF adds, updates
<1>7. loc'[s] \in Loc /\ loc'[s].adds = adds /\ loc'[s].updates = updates
  <2>1. adds \in SUBSET Line /\ updates \in SUBSET VendorUpdate
    BY <1>3, <1>4, <1>5
  <2> QED
    BY <1>1, <1>6, <2>1 DEF Loc
<1>8. Distinct("import", loc'[s]) /\ "import" \in Label
  <2>1. \A q, r \in adds : q # r => ~SameName(q, r)
    BY <1>1, <1>4 DEF Distinct
  <2>2. \A r \in adds, u \in updates : ~SameName(r, u.new)
    BY <1>1, <1>4, <1>5 DEF Distinct
  <2>3. \A t, u \in updates : t.target # u.target => ~SameName(t.new, u.new)
    BY <1>1, <1>5 DEF Distinct
  <2>4. (\A r \in adds : r.line <= n) /\ \A u \in updates : u.new.line <= n
    BY <1>2, <1>4, <1>5
  <2> QED
    BY <1>7, <2>1, <2>2, <2>3, <2>4 DEF Distinct, Label
<1>9. \A k : Claims("import", loc'[s], k) => Claims("preview", loc[s], k)
  BY <1>4, <1>5, <1>7 DEF Claims
<1> QED
  BY <1>1, <1>6, <1>7, <1>8, <1>9, ProceedsKeeps DEF Watched

LEMMA SampleIs ==
    ASSUME NEW i \in DOMAIN Samples
    PROVE  Sample(i) \in Line /\ Sample(i).line = i /\ Sample(i).name = Samples[i].name
<1>1. Samples \in Seq(SheetRow)
  BY DirectoryAssumption
<1>2. Samples[i] \in SheetRow /\ i \in Nat
  BY <1>1
<1> QED
  BY <1>2 DEF Sample, Line, SheetRow

\* One more reference vendor is looked up.
LEMMA SeedNextInv ==
    ASSUME DirectoryInv, NEW s \in Session, NEW l \in Loc, Distinct("seed", l), SeedNext(s, l),
           ShortNames => \A v \in Vendor : Plain(v) /\ Claims("seed", l, row[v].name) => v \in missed[s]
    PROVE  DirectoryInv'
<1> DEFINE next == l.line + 1
           adds == IF NamedAsSpelled(Sample(next).name) = {} THEN l.adds \cup {Sample(next)} ELSE l.adds
<1>1. TypeOK /\ next \in DOMAIN Samples /\ next \in Nat /\ l.adds \in SUBSET Line
  BY DEF DirectoryInv, SeedNext, Loc
<1>2. Sample(next) \in Line /\ Sample(next).line = next
  BY <1>1, SampleIs
<1>3. Read(s, "seed", [l EXCEPT !.line = next, !.adds = adds])
  BY DEF SeedNext, Sample
<1> HIDE DEF adds, next
<1>4. Proceeds(s) /\ pc'[s] = "seed" /\ loc'[s] = [l EXCEPT !.line = next, !.adds = adds]
  BY <1>1, <1>3 DEF Read, Goto, Proceeds, TypeOK
<1>5. adds \in SUBSET Line
  BY <1>1, <1>2 DEF adds
<1>6. loc'[s] \in Loc /\ loc'[s].adds = adds
  BY <1>1, <1>4, <1>5 DEF Loc
<1>7. Distinct("seed", loc'[s]) /\ "seed" \in Label
  BY <1>1, <1>2, <1>6 DEF Distinct, Label, adds
<1>8. ASSUME ShortNames, NEW v \in Vendor, Plain(v), Claims("seed", loc'[s], row[v].name)
      PROVE  v \in missed[s]
  <2>1. PICK r \in adds : row[v].name = r.name
    BY <1>6, <1>8 DEF Claims
  <2>2. CASE r \in l.adds
    BY <1>8, <2>1, <2>2 DEF Claims
  <2>3. CASE r \notin l.adds
    <3>1. r = Sample(next) /\ NamedAsSpelled(Sample(next).name) = {}
      BY <2>1, <2>3 DEF adds
    <3> QED
      BY <1>8, <2>1, <3>1 DEF NamedAsSpelled, Plain
  <2> QED
    BY <2>2, <2>3
<1> QED
  BY <1>4, <1>6, <1>7, <1>8, ProceedsKeeps

LEMMA SeedReadInv ==
    ASSUME DirectoryInv, NEW s \in Session, SeedRead(s)
    PROVE  DirectoryInv'
<1>1. Blank \in Loc /\ Blank.adds = {}
  BY Blanks DEF Blank
<1>2. Distinct("seed", Blank) /\ \A m : ~Claims("seed", Blank, m)
  BY <1>1 DEF Distinct, Claims
<1> QED
  BY <1>1, <1>2, SeedNextInv DEF SeedRead

LEMMA SeedLookupInv ==
    ASSUME DirectoryInv, NEW s \in Session, SeedLookup(s)
    PROVE  DirectoryInv'
<1>1. loc[s] \in Loc /\ pc[s] = "seed" /\ Watched(s) /\ Distinct("seed", loc[s])
  BY DEF DirectoryInv, TypeOK, SeedLookup
<1> QED
  BY <1>1, SeedNextInv DEF SeedLookup, Watched

LEMMA PrimaryType == Primary \in [Vendor -> Vendor]
<1> DEFINE Group(v) == {w \in Live : Find(Parents, w) = Find(Parents, v)}
<1>1. ASSUME NEW v \in Live PROVE Min(Group(v)) \in Vendor
  <2>1. v \in Group(v) /\ Group(v) \in SUBSET Vendor
    BY DEF Live
  <2> HIDE DEF Group
  <2> QED
    BY <2>1, Least
<1>2. Primary = [v \in Vendor |-> IF v \in Live THEN Min(Group(v)) ELSE v]
  BY DEF Primary
<1> HIDE DEF Group
<1> QED
  BY <1>1, <1>2

LEMMA MergeReadInv ==
    ASSUME DirectoryInv, NEW s \in Session, MergeRead(s)
    PROVE  DirectoryInv'
<1>1. TypeOK
  BY DEF DirectoryInv
<1>2. Proceeds(s) /\ pc'[s] = "relink" /\ loc'[s] = [Blank EXCEPT !.primary = Primary]
  BY <1>1 DEF MergeRead, Read, Goto, Proceeds, TypeOK
<1>3. loc'[s] \in Loc
  BY <1>2, PrimaryType, Blanks DEF Loc
<1>4. Distinct("relink", loc'[s]) /\ "relink" \in Label /\ \A k : ~Claims("relink", loc'[s], k)
  BY DEF Distinct, Claims, Label
<1> QED
  BY <1>2, <1>3, <1>4, ProceedsKeeps

LEMMA MergeRelinkInv ==
    ASSUME DirectoryInv, NEW s \in Session, MergeRelink(s), ~Fail(s)
    PROVE  DirectoryInv'
<1>1. TypeOK /\ loc[s] \in Loc
  BY DEF DirectoryInv, TypeOK
<1>2. Proceeds(s) /\ pc'[s] = "purge" /\ loc'[s] = [loc[s] EXCEPT !.to = Moved(s)]
  BY <1>1 DEF MergeRelink, Read, Goto, Proceeds, TypeOK
<1>3. Moved(s) \in [Dependent -> Vendor \cup {None}]
  BY <1>1 DEF Moved, Duplicates, Loc
<1>4. loc'[s] \in Loc
  BY <1>1, <1>2, <1>3 DEF Loc
<1>5. Distinct("purge", loc'[s]) /\ "purge" \in Label /\ \A k : ~Claims("purge", loc'[s], k)
  BY DEF Distinct, Claims, Label
<1> QED
  BY <1>2, <1>4, <1>5, ProceedsKeeps

-----------------------------------------------------------------------------
(* Requests that commit.                                                    *)

LEMMA FailInv ==
    ASSUME DirectoryInv, NEW s \in Session, Fail(s)
    PROVE  DirectoryInv'
<1>1. Ends(s)
  BY DEF DirectoryInv, TypeOK, Fail, Finish, Ends, Written
<1>2. Explained'
  BY DEF DirectoryInv, Fail, Explained, TwinsExplained, Live, KeyAt, Plain
<1> QED
  BY <1>1, <1>2, EndsKeeps DEF DirectoryInv, TypeOK, Fail, Plain, Live

LEMMA PlacesAre ==
    ASSUME NEW rows, NEW place \in Places(rows)
    PROVE  /\ DOMAIN place \in SUBSET Vendor
           /\ \A v \in DOMAIN place : row[v].status = "absent" /\ place[v] \in rows
           /\ \A v, w \in DOMAIN place : v # w => place[v] # place[w]
  BY DEF Places, Free, IsInjective

\* Vendors come in under names the request claims, none of which clash.
LEMMA InsertInv ==
    ASSUME DirectoryInv, NEW s \in Session, NEW rows, NEW via \in Via, NEW place \in Places(rows),
           \A r \in rows : /\ r.name \in Name \cup {None} /\ r.bank \in Bank \cup {None}
                           /\ \A m : Clash(via, r.name, m) => Claims(pc[s], loc[s], m),
           \A q, r \in rows : q # r => ~Clash(via, q.name, r.name),
           row' = Inserted(place, via), blind' = Naming(s, DOMAIN place), Ends(s),
           owner' \in [Dependent -> Vendor \cup {None, Absent}]
    PROVE  DirectoryInv'
<1>1. TypeOK
  BY DEF DirectoryInv
<1>2. ASSUME NEW v \in DOMAIN place
      PROVE  /\ v \in Vendor /\ row'[v] = NewRow(place[v].name, place[v].bank, via)
             /\ blind'[v] = missed[s] /\ place[v] \in rows
  BY <1>2, PlacesAre DEF Inserted, Naming
<1>3. ASSUME NEW v \in Vendor \ DOMAIN place PROVE row'[v] = row[v] /\ blind'[v] = blind[v]
  BY DEF Inserted, Naming
<1>4. ASSUME NEW v \in DOMAIN place
      PROVE  row'[v].name = place[v].name /\ row'[v].active /\ row'[v].via = via
  <2>1. row'[v] = NewRow(place[v].name, place[v].bank, via)
    BY <1>2
  <2> QED
    BY <2>1 DEF NewRow
<1>5. Explained'
  <2>1. DOMAIN place \in SUBSET Vendor
    BY PlacesAre
  <2>2. \A v \in Vendor \ DOMAIN place : Plain(v)' =>
           /\ Plain(v) /\ blind'[v] = blind[v]
           /\ row'[v].name = row[v].name /\ row'[v].via = row[v].via
    BY <1>3 DEF Plain, Live
  <2>3. \A v \in DOMAIN place : blind'[v] = missed[s] /\
           \A m : Clash(row'[v].via, row'[v].name, m) => Claims(pc[s], loc[s], m)
    BY <1>2, <1>4
  <2>4. \A v, w \in DOMAIN place : v # w => ~Clash(row'[v].via, row'[v].name, row'[w].name)
    BY <1>2, <1>4, PlacesAre
  <2> QED
    BY <2>1, <2>2, <2>3, <2>4, NamingKeepsTwins
<1>6. row' \in [Vendor -> Row]
  <2>1. \A v \in DOMAIN place : NewRow(place[v].name, place[v].bank, via) \in Row
    BY <1>2 DEF NewRow, Row
  <2> QED
    BY <1>1, <2>1 DEF Inserted, TypeOK
<1>7. blind' \in [Vendor -> Written]
  BY <1>1 DEF Naming, TypeOK
<1>8. \A v \in Vendor : Plain(v)' => row'[v].active
  BY <1>3, <1>4 DEF DirectoryInv, Plain, Live
<1> QED
  BY <1>5, <1>6, <1>7, <1>8, EndsKeeps

\* The rows of vs go, if they are there.
LEMMA RemovalInv ==
    ASSUME DirectoryInv, NEW s \in Session, NEW vs \in SUBSET Vendor,
           row' = Deleted(vs), blind' = Forgotten(vs), Ends(s),
           owner' \in [Dependent -> Vendor \cup {None, Absent}]
    PROVE  DirectoryInv'
<1>1. TypeOK
  BY DEF DirectoryInv
<1>2. \A v \in Vendor : Plain(v)' => row'[v] = row[v] /\ blind'[v] = blind[v]
  BY DEF Deleted, Forgotten, Plain, Gone, NoRow, Live
<1>3. Explained'
  <2>1. PICK named \in SUBSET Vendor : named = {}
    OBVIOUS
  <2>2. \A v \in Vendor \ named : Plain(v)' =>
           /\ Plain(v) /\ blind'[v] = blind[v]
           /\ row'[v].name = row[v].name /\ row'[v].via = row[v].via
    BY <1>2 DEF Plain, Live
  <2> QED
    BY <2>1, <2>2, NamingKeepsTwins
<1>4. row' \in [Vendor -> Row] /\ blind' \in [Vendor -> Written]
  BY <1>1 DEF Deleted, Forgotten, TypeOK, Gone, NoRow, Row, Via, Written
<1>5. \A v \in Vendor : Plain(v)' => row'[v].active
  BY <1>2 DEF DirectoryInv, Plain, Live
<1> QED
  BY <1>3, <1>4, <1>5, EndsKeeps

LEMMA MergeCommitInv ==
    ASSUME DirectoryInv, NEW s \in Session, MergeCommit(s)
    PROVE  DirectoryInv'
<1>1. TypeOK /\ loc[s] \in Loc
  BY DEF DirectoryInv, TypeOK
<1>2. Duplicates(s) \in SUBSET Vendor
  BY DEF Duplicates
<1>3. PICK vs \in SUBSET Vendor : vs = Duplicates(s)
  BY <1>2
<1>4. row' = Deleted(vs) /\ blind' = Forgotten(vs)
  BY <1>3 DEF MergeCommit
<1>5. Ends(s)
  <2>1. \A v \in Vendor : row'[v] # row[v] => v \in vs
    BY <1>4 DEF Deleted
  <2> QED
    BY <1>1, <1>3, <2>1 DEF MergeCommit, Finish, Ends, Written, TypeOK
<1>6. owner' \in [Dependent -> Vendor \cup {None, Absent}]
  <2>1. \A d \in Dependent : loc[s].to[d] # None => loc[s].to[d] \in Vendor
    BY <1>1 DEF Loc
  <2>2. \A d \in Dependent : owner'[d] \in {loc[s].to[d], None, owner[d]} /\ (owner'[d] = loc[s].to[d] => loc[s].to[d] \in Vendor \cup {None})
    BY <1>1, <2>1 DEF MergeCommit, Loc
  <2>3. \A d \in Dependent : owner[d] \in Vendor \cup {None, Absent}
    BY <1>1 DEF TypeOK
  <2>4. DOMAIN owner' = Dependent /\ owner' = [d \in Dependent |-> owner'[d]]
    BY DEF MergeCommit
  <2> QED
    BY <2>2, <2>3, <2>4
<1> QED
  BY <1>4, <1>5, <1>6, RemovalInv

LEMMA DeleteInv ==
    ASSUME DirectoryInv, NEW s \in Session, NEW vs \in SUBSET Vendor, Delete(s, vs)
    PROVE  DirectoryInv'
<1>1. TypeOK
  BY DEF DirectoryInv
<1>2. Ends(s)
  <2>1. \A v \in Vendor : row'[v] # row[v] => v \in vs
    BY DEF Delete, Deleted
  <2> QED
    BY <1>1, <2>1 DEF Delete, Finish, Ends, Written, TypeOK
<1>3. owner' \in [Dependent -> Vendor \cup {None, Absent}]
  BY <1>1 DEF Delete, TypeOK
<1> QED
  BY <1>2, <1>3, RemovalInv DEF Delete

LEMMA CreateInsertInv ==
    ASSUME DirectoryInv, NEW s \in Session, CreateInsert(s)
    PROVE  DirectoryInv'
<1>1. TypeOK /\ loc[s].new \in Row
  BY DEF DirectoryInv, TypeOK, Loc
<1>2. PICK r : r = loc[s].new
  OBVIOUS
<1>3. PICK place \in Places({r}) : row' = Inserted(place, "form") /\ blind' = Naming(s, DOMAIN place) /\ Finish(s, DOMAIN place)
  BY <1>2 DEF CreateInsert
<1>4. Ends(s)
  <2>1. \A v \in Vendor : row'[v] # row[v] => v \in DOMAIN place
    BY <1>3 DEF Inserted
  <2>2. DOMAIN place \in SUBSET Vendor
    BY <1>3, PlacesAre
  <2> QED
    BY <1>1, <1>3, <2>1, <2>2 DEF Finish, Ends, Written, TypeOK
<1>5. \A m : Clash("form", r.name, m) => Claims(pc[s], loc[s], m)
  BY <1>2 DEF CreateInsert, Claims
<1>6. r.name \in Name \cup {None} /\ r.bank \in Bank \cup {None}
  BY <1>1, <1>2 DEF Row
<1>7. owner' = owner
  BY DEF CreateInsert
<1>8. \A q \in {r} : /\ q.name \in Name \cup {None} /\ q.bank \in Bank \cup {None}
                     /\ \A m : Clash("form", q.name, m) => Claims(pc[s], loc[s], m)
  BY <1>5, <1>6
<1>9. PICK rows : rows = {r} /\ "form" \in Via
  BY DEF Via
<1>10. place \in Places(rows)
  BY <1>3, <1>9
<1> QED
  BY <1>1, <1>3, <1>4, <1>7, <1>8, <1>9, <1>10, InsertInv DEF TypeOK

LEMMA CreateApplyInv ==
    ASSUME DirectoryInv, NEW s \in Session, CreateApply(s), ~Fail(s)
    PROVE  DirectoryInv'
<1> DEFINE l == loc[s]
<1>1. TypeOK /\ l \in Loc /\ l.new \in Row /\ l.seen \in Row
  BY DEF DirectoryInv, TypeOK, Loc
<1>2. /\ pc[s] = "apply" /\ l.target \in Live /\ row' = [row EXCEPT ![l.target] = Applied(l)]
      /\ blind' = Naming(s, IF Renames(l) THEN {l.target} ELSE {})
      /\ Finish(s, {l.target}) /\ owner' = owner
  BY DEF CreateApply
<1>3. PICK t \in Vendor : t = l.target
  BY <1>2 DEF Live
<1>4. /\ Applied(l) \in Row /\ Applied(l).status = row[t].status
      /\ Applied(l).active = row[t].active /\ Applied(l).edited = row[t].edited
      /\ Applied(l).name = IF Renames(l) THEN l.new.name ELSE row[t].name
      /\ Applied(l).via = IF Renames(l) THEN Way(l) ELSE row[t].via
  <2>1. row[t] \in Row
    BY <1>1 DEF TypeOK
  <2>2. Way(l) \in Via
    BY DEF Way, Via
  <2> HIDE DEF l
  <2> QED
    BY <1>1, <1>3, <2>1, <2>2 DEF Applied, Column, Row
<1>5. Ends(s)
  <2>1. \A v \in Vendor : row'[v] # row[v] => v \in {l.target}
    BY <1>1, <1>2 DEF TypeOK
  <2> HIDE DEF l
  <2> QED
    BY <1>1, <1>2, <1>3, <2>1 DEF Finish, Ends, Written, TypeOK
<1>6. row' = [row EXCEPT ![t] = Applied(l)]
  BY <1>2, <1>3
<1>7. /\ row' \in [Vendor -> Row] /\ blind' \in [Vendor -> Written]
      /\ row'[t] = Applied(l) /\ \A v \in Vendor : v # t => row'[v] = row[v]
  <2> HIDE DEF l
  <2> QED
    BY <1>1, <1>2, <1>4, <1>6 DEF TypeOK, Naming
<1>8. \A v \in Vendor : Plain(v)' => Plain(v) /\ row'[v].active
  BY <1>4, <1>7 DEF DirectoryInv, Plain, Live
<1>9. PICK named \in SUBSET Vendor : named = IF Renames(l) THEN {t} ELSE {}
  BY <1>3
<1> HIDE DEF l
<1>10. \A v \in Vendor \ named : Plain(v)' =>
          /\ Plain(v) /\ blind'[v] = blind[v]
          /\ row'[v].name = row[v].name /\ row'[v].via = row[v].via
  <2> SUFFICES ASSUME NEW v \in Vendor \ named
               PROVE  /\ blind'[v] = blind[v]
                      /\ row'[v].name = row[v].name /\ row'[v].via = row[v].via
    BY <1>8
  <2>1. row'[v].name = row[v].name /\ row'[v].via = row[v].via
    BY <1>4, <1>7, <1>9
  <2> QED
    BY <1>2, <1>3, <1>9, <2>1 DEF Naming
<1>11. \A v \in named : blind'[v] = missed[s] /\
          \A m : Clash(row'[v].via, row'[v].name, m) => Claims(pc[s], loc[s], m)
  <2> SUFFICES ASSUME NEW v \in named
               PROVE  blind'[v] = missed[s] /\
                      \A m : Clash(row'[v].via, row'[v].name, m) => Claims(pc[s], loc[s], m)
    OBVIOUS
  <2>1. v = t /\ Renames(l)
    BY <1>9
  <2>2. row'[v].name = l.new.name /\ row'[v].via = Way(l)
    BY <1>4, <1>7, <2>1
  <2>3. \A m : Clash(Way(l), l.new.name, m) => Claims(pc[s], loc[s], m)
    BY <1>2, <2>1 DEF Claims, l
  <2>4. blind'[v] = missed[s]
    BY <1>2, <1>3, <2>1 DEF Naming
  <2> QED
    BY <2>2, <2>3, <2>4
<1>12. \A v, w \in named : v = w
  BY <1>9
<1>13. Explained'
  BY <1>10, <1>11, <1>12, NamingKeepsTwins
<1>14. owner' \in [Dependent -> Vendor \cup {None, Absent}]
  BY <1>1, <1>2 DEF TypeOK
<1> QED
  BY <1>5, <1>7, <1>8, <1>13, <1>14, EndsKeeps

LEMMA EditCommitInv ==
    ASSUME DirectoryInv, NEW s \in Session, EditCommit(s), ~Fail(s)
    PROVE  DirectoryInv'
<1> DEFINE l == loc[s]
           new == Edited(l)
<1>1. TypeOK /\ l \in Loc /\ l.new \in Row
  BY DEF DirectoryInv, TypeOK, Loc
<1>2. /\ l.target \in Live /\ row' = [row EXCEPT ![l.target] = new]
      /\ Finish(s, {l.target}) /\ owner' = owner /\ blind' = blind
  BY DEF EditCommit
<1>3. PICK t \in Vendor : t = l.target
  BY <1>2 DEF Live
<1>4. new \in Row /\ new.edited
  <2>1. row[t] \in Row
    BY <1>1 DEF TypeOK
  <2>2. l.new.name \in Name \cup {None} /\ l.new.active \in BOOLEAN
    BY <1>1 DEF Row
  <2> HIDE DEF l
  <2> QED
    BY <1>3, <2>1, <2>2 DEF Edited, Column, Row
<1> HIDE DEF new
<1>5. Ends(s)
  <2>1. \A v \in Vendor : row'[v] # row[v] => v \in {l.target}
    BY <1>1, <1>2 DEF TypeOK
  <2> HIDE DEF l
  <2> QED
    BY <1>1, <1>2, <1>3, <2>1 DEF Finish, Ends, Written, TypeOK
<1>6. row' = [row EXCEPT ![t] = new]
  BY <1>2, <1>3
<1>7. row' \in [Vendor -> Row] /\ row'[t] = new /\ \A v \in Vendor : v # t => row'[v] = row[v]
  BY <1>1, <1>4, <1>6 DEF TypeOK
<1>8. \A v \in Vendor : Plain(v)' => row'[v] = row[v] /\ row'[v].active
  BY <1>4, <1>7 DEF DirectoryInv, Plain, Live
<1>9. Explained'
  <2>1. PICK named \in SUBSET Vendor : named = {}
    OBVIOUS
  <2>2. \A v \in Vendor \ named : Plain(v)' =>
           /\ Plain(v) /\ blind'[v] = blind[v]
           /\ row'[v].name = row[v].name /\ row'[v].via = row[v].via
    BY <1>2, <1>8 DEF Plain, Live
  <2> QED
    BY <2>1, <2>2, NamingKeepsTwins
<1>10. owner' \in [Dependent -> Vendor \cup {None, Absent}] /\ blind' \in [Vendor -> Written]
  BY <1>1, <1>2 DEF TypeOK
<1> QED
  BY <1>5, <1>7, <1>8, <1>9, <1>10, EndsKeeps

LEMMA UploadCommitInv ==
    ASSUME DirectoryInv, NEW s \in Session, UploadCommit(s), ~Fail(s)
    PROVE  DirectoryInv'
<1> DEFINE l == loc[s]
<1>1. TypeOK /\ l \in Loc /\ l.new \in Row
  BY DEF DirectoryInv, TypeOK, Loc
<1>2. PICK rows : rows = IF l.target = None THEN {l.new} ELSE {}
  OBVIOUS
<1>3. PICK place \in Places(rows) :
         /\ l.target = None \/ l.target \in Live
         /\ row' = Inserted(place, "upload") /\ blind' = Naming(s, DOMAIN place)
         /\ Finish(s, DOMAIN place \cup {l.dependent})
         /\ \E v \in IF l.target = None THEN DOMAIN place ELSE {l.target} : owner' = [owner EXCEPT ![l.dependent] = v]
  BY <1>2 DEF UploadCommit
<1>4. DOMAIN place \in SUBSET Vendor
  BY <1>3, PlacesAre
<1>5. pc[s] = "attach"
  BY DEF UploadCommit
<1>6. PICK d : d = l.dependent
  OBVIOUS
<1> HIDE DEF l
<1>7. Ends(s)
  <2>1. \A v \in Vendor : row'[v] # row[v] => v \in DOMAIN place
    BY <1>3 DEF Inserted
  <2>2. missed' \in [Session -> Written]
    <3>1. missed' = [t \in Session |-> IF t = s \/ pc[t] = "idle" THEN {} ELSE missed[t] \cup (DOMAIN place \cup {d})]
      BY <1>3, <1>6 DEF Finish
    <3>2. d \in Dependent \cup {None}
      BY <1>1, <1>6 DEF Loc
    <3> QED
      BY <1>1, <1>4, <3>1, <3>2 DEF TypeOK, Written
  <2> QED
    BY <1>1, <1>3, <2>1, <2>2 DEF Finish, Ends, Written, TypeOK
<1>8. \A r \in rows : /\ r.name \in Name \cup {None} /\ r.bank \in Bank \cup {None}
                      /\ \A m : Clash("upload", r.name, m) => Claims(pc[s], loc[s], m)
  BY <1>1, <1>2, <1>5 DEF Claims, Row, l
<1>9. owner' \in [Dependent -> Vendor \cup {None, Absent}]
  <2>1. PICK v : /\ v \in IF l.target = None THEN DOMAIN place ELSE {l.target}
                 /\ owner' = [owner EXCEPT ![l.dependent] = v]
    BY <1>3
  <2>2. v \in Vendor
    BY <1>3, <1>4, <2>1 DEF Live
  <2> QED
    BY <1>1, <2>1, <2>2 DEF TypeOK
<1>10. \A q, r \in rows : q = r
  BY <1>2
<1>11. "upload" \in Via
  BY DEF Via
<1> QED
  BY <1>3, <1>7, <1>8, <1>9, <1>10, <1>11, InsertInv

\* The update that stands is one of those of the vendor.
LEMMA LatestIn ==
    ASSUME NEW us \in SUBSET VendorUpdate, us # {}, NEW n \in Nat, \A u \in us : u.new.line <= n
    PROVE  Latest(us) \in us
<1> DEFINE S == {u.new.line : u \in us}
<1>1. \A u \in us : u.new.line \in 0..n
  BY DEF VendorUpdate, Line
<1>2. \E m \in S : \A x \in S : x <= m
  <2>1. S \in SUBSET (0..n) /\ S # {}
    BY <1>1
  <2> HIDE DEF S
  <2> QED
    BY <2>1, GreatestNumber
<1>3. \E u \in us : \A x \in us : x.new.line <= u.new.line
  BY <1>2
<1> QED
  BY <1>3 DEF Latest

LEMMA ImportCommitInv ==
    ASSUME DirectoryInv, NEW s \in Session, ImportCommit(s), ~Fail(s)
    PROVE  DirectoryInv'
<1> DEFINE l == loc[s]
<1>1. TypeOK /\ l \in Loc /\ Distinct("import", l) /\ pc[s] = "import"
  BY DEF DirectoryInv, TypeOK, ImportCommit
<1>2. PICK us \in SUBSET VendorUpdate : us = l.updates
  BY <1>1 DEF Loc
<1>3. PICK rows \in SUBSET Line : rows = l.adds
  BY <1>1 DEF Loc
<1>4. PICK targets : targets = {u.target : u \in us}
  OBVIOUS
<1>5. PICK place \in Places(rows) :
         /\ targets \subseteq Live
         /\ row' = [v \in Vendor |-> IF v \in targets THEN Updated(v, us) ELSE Inserted(place, "import")[v]]
         /\ blind' = Naming(s, DOMAIN place \cup {v \in targets : Renamed(v, us)})
         /\ Finish(s, DOMAIN place \cup targets) /\ owner' = owner
  BY <1>2, <1>3, <1>4 DEF ImportCommit
<1>6. PICK n \in Nat : \A u \in us : u.new.line <= n
  BY <1>1, <1>2 DEF Distinct
<1>7. DOMAIN place \in SUBSET Vendor /\ targets \in SUBSET Vendor /\ DOMAIN place \cap targets = {}
  BY <1>5, PlacesAre DEF Live
<1>8. PICK named \in SUBSET Vendor : named = DOMAIN place \cup {v \in targets : Renamed(v, us)}
  BY <1>7
<1> HIDE DEF l
<1>9. ASSUME NEW v \in DOMAIN place
      PROVE  /\ row'[v] = NewRow(place[v].name, place[v].bank, "import") /\ place[v] \in rows
             /\ row'[v].name = place[v].name /\ row'[v].active /\ row'[v].via = "import"
  <2>1. v \in Vendor /\ v \notin targets /\ place[v] \in rows
    BY <1>7, <1>5, PlacesAre
  <2>2. row'[v] = NewRow(place[v].name, place[v].bank, "import")
    BY <1>5, <2>1 DEF Inserted
  <2> QED
    BY <2>1, <2>2 DEF NewRow
<1>10. ASSUME NEW v \in targets, Renaming(v, us) # {}
       PROVE  LET u == Latest(Renaming(v, us)) IN u \in us /\ u.target = v /\ u.rename
  <2>1. Renaming(v, us) \in SUBSET VendorUpdate /\ \A u \in Renaming(v, us) : u.new.line <= n
    BY <1>6 DEF Renaming
  <2>2. Latest(Renaming(v, us)) \in Renaming(v, us)
    BY <1>10, <2>1, LatestIn
  <2> QED
    BY <2>2 DEF Renaming
<1>11. ASSUME NEW v \in targets, Rebanking(v, us) # {} PROVE Latest(Rebanking(v, us)) \in us
  <2>1. Rebanking(v, us) \in SUBSET VendorUpdate /\ \A u \in Rebanking(v, us) : u.new.line <= n
    BY <1>6 DEF Rebanking
  <2>2. Latest(Rebanking(v, us)) \in Rebanking(v, us)
    BY <1>11, <2>1, LatestIn
  <2> QED
    BY <2>2 DEF Rebanking
<1>12. ASSUME NEW v \in targets
       PROVE  /\ row'[v] \in Row /\ row'[v].status = row[v].status
              /\ row'[v].active = row[v].active /\ row'[v].edited = row[v].edited
              /\ row'[v].name = IF Renamed(v, us) THEN Latest(Renaming(v, us)).new.name ELSE row[v].name
              /\ row'[v].via = IF Renamed(v, us) THEN "import" ELSE row[v].via
  <2>1. v \in Vendor /\ row[v] \in Row /\ row'[v] = Updated(v, us)
    BY <1>1, <1>5, <1>7 DEF TypeOK
  <2>2. Renamed(v, us) => Latest(Renaming(v, us)).new.name \in Name
    BY <1>10 DEF Renamed, VendorUpdate, Line
  <2>3. Rebanked(v, us) => Latest(Rebanking(v, us)).new.bank \in Bank
    BY <1>11 DEF Rebanked, VendorUpdate, Line
  <2> QED
    BY <2>1, <2>2, <2>3 DEF Updated, Row, Via
<1>13. ASSUME NEW v \in Vendor, v \notin DOMAIN place, v \notin targets PROVE row'[v] = row[v]
  BY <1>5, <1>13 DEF Inserted
<1>14. row' \in [Vendor -> Row]
  <2>1. ASSUME NEW v \in DOMAIN place PROVE row'[v] \in Row
    <3>1. place[v].name \in Name /\ place[v].bank \in Bank
      BY <1>9 DEF Line
    <3>2. NewRow(place[v].name, place[v].bank, "import") \in Row
      BY <3>1 DEF NewRow, Row, Via
    <3> QED
      BY <1>9, <3>2
  <2>2. \A v \in Vendor : row'[v] \in Row
    BY <1>1, <1>12, <1>13, <2>1 DEF TypeOK
  <2>3. row' = [v \in Vendor |-> row'[v]]
    BY <1>5
  <2> QED
    BY <2>2, <2>3
<1>15. \A v \in Vendor : Plain(v)' => row'[v].active
  BY <1>9, <1>12, <1>13 DEF DirectoryInv, Plain, Live
<1>16. Ends(s)
  <2>1. \A v \in Vendor : row'[v] # row[v] => v \in DOMAIN place \cup targets
    BY <1>13
  <2> QED
    BY <1>1, <1>5, <1>7, <2>1 DEF Finish, Ends, Written, TypeOK
<1>17. \A v \in Vendor \ named : Plain(v)' =>
          /\ Plain(v) /\ blind'[v] = blind[v]
          /\ row'[v].name = row[v].name /\ row'[v].via = row[v].via
  <2> SUFFICES ASSUME NEW v \in Vendor \ named 
               PROVE  Plain(v)' => /\ Plain(v) /\ blind'[v] = blind[v]
                                   /\ row'[v].name = row[v].name /\ row'[v].via = row[v].via
    OBVIOUS
  <2>1. blind'[v] = blind[v]
    BY <1>5, <1>8 DEF Naming
  <2>2. row'[v].name = row[v].name /\ row'[v].status = row[v].status /\ row'[v].edited = row[v].edited
        /\ row'[v].via = row[v].via
    BY <1>8, <1>12, <1>13
  <2> QED
    BY <2>1, <2>2 DEF Plain, Live
<1>18. ASSUME NEW v \in named
       PROVE  /\ blind'[v] = missed[s] /\ row'[v].via = "import"
              /\ \/ v \in DOMAIN place /\ place[v] \in rows /\ row'[v].name = place[v].name
                 \/ \E u \in us : u.target = v /\ u.rename /\ row'[v].name = u.new.name
  <2>1. blind'[v] = missed[s]
    BY <1>5, <1>8 DEF Naming
  <2>2. CASE v \in DOMAIN place
    BY <1>9, <2>1, <2>2
  <2>3. CASE v \in targets /\ Renamed(v, us)
    BY <1>10, <1>12, <2>1, <2>3 DEF Renamed
  <2> QED
    BY <1>8, <2>2, <2>3
<1>19. \A v \in named : blind'[v] = missed[s] /\
          \A m : Clash(row'[v].via, row'[v].name, m) => Claims(pc[s], loc[s], m)
  BY <1>1, <1>2, <1>3, <1>18 DEF Claims, Clash, l
<1>20. ASSUME NEW v \in named, NEW w \in named, v # w
       PROVE  ~Clash(row'[v].via, row'[v].name, row'[w].name)
  <2>1. /\ \A q, r \in rows : q # r => KeyOf[q.name] # KeyOf[r.name]
        /\ \A r \in rows, u \in us : KeyOf[r.name] # KeyOf[u.new.name]
        /\ \A t, u \in us : t.target # u.target => KeyOf[t.new.name] # KeyOf[u.new.name]
    BY <1>1, <1>2, <1>3 DEF Distinct, SameName
  <2>2. v \in DOMAIN place /\ w \in DOMAIN place => place[v] # place[w]
    BY <1>20, <1>5, PlacesAre
  <2> QED
    BY <1>18, <1>20, <2>1, <2>2 DEF Clash
<1>21. Explained'
  BY <1>17, <1>19, <1>20, NamingKeepsTwins
<1>22. owner' \in [Dependent -> Vendor \cup {None, Absent}] /\ blind' \in [Vendor -> Written]
  BY <1>1, <1>5 DEF TypeOK, Naming
<1> QED
  BY <1>14, <1>15, <1>16, <1>21, <1>22, EndsKeeps

\* Two reference vendors to add differ in their names.
LEMMA SeedCommitInv ==
    ASSUME DirectoryInv, NEW s \in Session, SeedCommit(s)
    PROVE  DirectoryInv'
<1>1. TypeOK /\ loc[s] \in Loc /\ pc[s] = "seed" /\ Distinct("seed", loc[s]) /\ "seed" \in Via
  BY DEF DirectoryInv, TypeOK, SeedCommit, Via
<1>2. PICK rows \in SUBSET Line : rows = loc[s].adds
  BY <1>1 DEF Loc
<1>3. PICK place \in Places(rows) :
         row' = Inserted(place, "seed") /\ blind' = Naming(s, DOMAIN place) /\ Finish(s, DOMAIN place)
  BY <1>2 DEF SeedCommit
<1>4. owner' \in [Dependent -> Vendor \cup {None, Absent}]
  BY <1>1 DEF SeedCommit, TypeOK
<1>5. Ends(s)
  <2>1. \A v \in Vendor : row'[v] # row[v] => v \in DOMAIN place
    BY <1>3 DEF Inserted
  <2>2. DOMAIN place \in SUBSET Vendor
    BY <1>3, PlacesAre
  <2> QED
    BY <1>1, <1>3, <2>1, <2>2 DEF Finish, Ends, Written, TypeOK
<1>6. \A r \in rows : /\ r.name \in Name \cup {None} /\ r.bank \in Bank \cup {None}
                      /\ \A m : Clash("seed", r.name, m) => Claims(pc[s], loc[s], m)
  BY <1>1, <1>2 DEF Line, Clash, Overlooks, Claims
<1>7. ASSUME NEW q \in rows, NEW r \in rows, q # r PROVE ~Clash("seed", q.name, r.name)
  <2>1. /\ q.line \in DOMAIN Samples /\ q = Sample(q.line)
        /\ r.line \in DOMAIN Samples /\ r = Sample(r.line)
    BY <1>1, <1>2 DEF Distinct
  <2>2. q.line # r.line /\ q.name = Samples[q.line].name /\ r.name = Samples[r.line].name
    BY <1>7, <2>1, SampleIs
  <2>3. q.name # r.name
    BY <2>1, <2>2, DirectoryAssumption
  <2> QED
    BY <2>3 DEF Clash, Overlooks
<1> QED
  BY <1>1, <1>3, <1>4, <1>5, <1>6, <1>7, InsertInv

-----------------------------------------------------------------------------
(* The groups a merge makes.                                                *)

\* Following the links from v ends after h[v] of them, at most n.
Heights(p, h, n) ==
    /\ h \in [Vendor -> 0..n]
    /\ \A v \in Vendor : IF p[v] = v THEN h[v] = 0 ELSE h[p[v]] < h[v]
Forest(p, n) == p \in [Vendor -> Vendor] /\ \E h : Heights(p, h, n)

LEMMA VendorsAre == Vendors \in Nat /\ \A v \in Vendor : v \in 1..Vendors
  BY DirectoryAssumption DEF Vendor

\* Find follows one link after the other.
LEMMA FindWay ==
    ASSUME NEW p \in [Vendor -> Vendor], NEW v \in Vendor
    PROVE  \E up \in [0..Vendors -> Vendor] :
              /\ up[0] = v /\ \A n \in 1..Vendors : up[n] = p[up[n - 1]]
              /\ Find(p, v) = up[Vendors]
<1> DEFINE Ups(up) == up = [n \in 0..Vendors |-> IF n = 0 THEN v ELSE p[up[n - 1]]]
<1>1. PICK g \in [1..Vendors -> [Vendor -> Vendor]] : g = [n \in 1..Vendors |-> p]
  OBVIOUS
<1>2. PICK up \in [0..Vendors -> Vendor] :
         Iterates(up, Vendors, v, g) /\ \A e : Iterates(e, Vendors, v, g) => e = up
  <2>1. Vendors \in Nat
    BY VendorsAre
  <2> QED
    BY <2>1, Iteration
<1>3. ASSUME NEW e PROVE Ups(e) <=> Iterates(e, Vendors, v, g)
  <2>1. \A n \in 0..Vendors : (IF n = 0 THEN v ELSE p[e[n - 1]]) = (IF n = 0 THEN v ELSE g[n][e[n - 1]])
    BY <1>1, VendorsAre
  <2> QED
    BY <2>1 DEF Iterates
<1>4. Ups(up) /\ \A e : Ups(e) => e = up
  <2> HIDE DEF Ups
  <2> QED
    BY <1>2, <1>3
<1>5. Find(p, v) = (CHOOSE e : Ups(e))[Vendors]
  BY DEF Find
<1>6. (CHOOSE e : Ups(e)) = up
  <2> HIDE DEF Ups
  <2> QED
    BY <1>4
<1>7. up[0] = v /\ \A n \in 1..Vendors : up[n] = p[up[n - 1]]
  <2>1. Vendors \in Nat /\ 0 \in 0..Vendors /\ \A n \in 1..Vendors : n \in 0..Vendors /\ n # 0
    BY VendorsAre
  <2> QED
    BY <1>4, <2>1
<1> QED
  BY <1>5, <1>6, <1>7

\* Find returns where the links from v end.
LEMMA FindEnds ==
    ASSUME NEW p, Forest(p, Vendors), NEW v \in Vendor
    PROVE  /\ Find(p, v) \in Vendor /\ p[Find(p, v)] = Find(p, v)
           /\ p[v] = v => Find(p, v) = v
           /\ Find(p, p[v]) = Find(p, v)
           /\ \A root : /\ \A w \in Vendor : root[p[w]] = root[w]
                        /\ \A w \in Vendor : p[w] = w => root[w] = w
                        => Find(p, v) = root[v]
<1>1. p \in [Vendor -> Vendor] /\ p[v] \in Vendor /\ Vendors \in Nat
  BY VendorsAre DEF Forest
<1>2. PICK h : Heights(p, h, Vendors)
  BY DEF Forest
<1>3. PICK up \in [0..Vendors -> Vendor] :
         up[0] = v /\ (\A n \in 1..Vendors : up[n] = p[up[n - 1]]) /\ Find(p, v) = up[Vendors]
  BY <1>1, FindWay
<1>4. \A w \in Vendor : h[w] \in 0..Vendors /\ (IF p[w] = w THEN h[w] = 0 ELSE h[p[w]] < h[w])
  BY <1>2 DEF Heights
<1>5. \A k \in 0..Vendors : k + 1 \in 0..Vendors => up[k] \in Vendor /\ up[k + 1] = p[up[k]]
  BY <1>1, <1>3
<1>6. p[up[Vendors]] = up[Vendors]
  <2> DEFINE G == {k \in 0..Vendors : h[up[k]] = 0 \/ h[up[k]] + k <= h[v]}
  <2>1. 0 \in G
    BY <1>1, <1>3, <1>4
  <2>2. \A k \in 0..Vendors : k \in G /\ k + 1 \in 0..Vendors => k + 1 \in G
    <3> SUFFICES ASSUME NEW k \in G, k + 1 \in 0..Vendors PROVE k + 1 \in G
      OBVIOUS
    <3>1. up[k] \in Vendor /\ up[k + 1] = p[up[k]] /\ up[k + 1] \in Vendor
      BY <1>5, <1>3
    <3>2. h[up[k]] \in 0..Vendors /\ h[up[k + 1]] \in 0..Vendors /\ h[v] \in 0..Vendors
      BY <1>4, <3>1
    <3>3. CASE p[up[k]] = up[k]
      BY <1>4, <3>1, <3>2, <3>3
    <3>4. CASE p[up[k]] # up[k]
      BY <1>1, <1>4, <3>1, <3>2, <3>4
    <3> QED
      BY <3>3, <3>4
  <2>3. Vendors \in G
    <3> HIDE DEF G
    <3>1. \A k \in 0..Vendors : k \in G
      BY <1>1, <2>1, <2>2, Upwards
    <3> QED
      BY <1>1, <3>1
  <2>4. up[Vendors] \in Vendor /\ h[up[Vendors]] \in 0..Vendors /\ h[v] \in 0..Vendors
    BY <1>1, <1>3, <1>4
  <2>5. h[up[Vendors]] = 0
    BY <1>1, <2>3, <2>4
  <2>6. p[up[Vendors]] \in Vendor
    BY <1>1, <2>4
  <2> QED
    BY <1>4, <2>4, <2>5, <2>6
<1>7. ASSUME p[v] = v PROVE up[Vendors] = v
  <2> DEFINE G == {k \in 0..Vendors : up[k] = v}
  <2>1. 0 \in G
    BY <1>1, <1>3
  <2>2. \A k \in 0..Vendors : k \in G /\ k + 1 \in 0..Vendors => k + 1 \in G
    BY <1>5, <1>7
  <2> HIDE DEF G
  <2>3. \A k \in 0..Vendors : k \in G
    BY <1>1, <2>1, <2>2, Upwards
  <2> QED
    BY <1>1, <2>3 DEF G
<1>8. Find(p, p[v]) = up[Vendors]
  <2>1. PICK two \in [0..Vendors -> Vendor] :
           /\ two[0] = p[v] /\ (\A n \in 1..Vendors : two[n] = p[two[n - 1]])
           /\ Find(p, p[v]) = two[Vendors]
    BY <1>1, FindWay
  <2> DEFINE G == {k \in 0..Vendors : two[k] = p[up[k]]}
  <2>2. 0 \in G
    BY <1>1, <1>3, <2>1
  <2>3. \A k \in 0..Vendors : k \in G /\ k + 1 \in 0..Vendors => k + 1 \in G
    <3> SUFFICES ASSUME NEW k \in G, k + 1 \in 0..Vendors PROVE k + 1 \in G
      OBVIOUS
    <3>1. k + 1 \in 1..Vendors /\ (k + 1) - 1 = k
      BY <1>1
    <3>2. two[k + 1] = p[two[k]]
      BY <2>1, <3>1
    <3> QED
      BY <1>5, <3>2
  <2> HIDE DEF G
  <2>4. \A k \in 0..Vendors : k \in G
    BY <1>1, <2>2, <2>3, Upwards
  <2> QED
    BY <1>1, <1>6, <2>1, <2>4 DEF G
<1>9. ASSUME NEW root, \A w \in Vendor : root[p[w]] = root[w], \A w \in Vendor : p[w] = w => root[w] = w
      PROVE  up[Vendors] = root[v]
  <2> DEFINE G == {k \in 0..Vendors : root[up[k]] = root[v]}
  <2>1. 0 \in G
    BY <1>1, <1>3
  <2>2. \A k \in 0..Vendors : k \in G /\ k + 1 \in 0..Vendors => k + 1 \in G
    BY <1>5, <1>9
  <2> HIDE DEF G
  <2>3. \A k \in 0..Vendors : k \in G
    BY <1>1, <2>1, <2>2, Upwards
  <2>4. root[up[Vendors]] = root[v] /\ up[Vendors] \in Vendor
    BY <1>1, <1>3, <2>3 DEF G
  <2> QED
    BY <1>6, <1>9, <2>4
<1>10. up[Vendors] \in Vendor
  BY <1>1, <1>3
<1> QED
  BY <1>3, <1>6, <1>7, <1>8, <1>9, <1>10

LEMMA Higher ==
    ASSUME NEW p, NEW h, NEW n \in Nat, NEW m \in Nat, n <= m, Heights(p, h, n)
    PROVE  Heights(p, h, m)
<1>1. \A i \in 0..n : i \in 0..m
  OBVIOUS
<1> QED
  BY <1>1 DEF Heights

\* The vendors of a group, counting those that are linked to none.
Fellows(p, v, w) == Find(p, v) = Find(p, w)

\* Union puts the group of b under that of a.
LEMMA UnionIs ==
    ASSUME NEW p \in [Vendor -> Vendor], NEW h, NEW n \in 0..Vendors, Heights(p, h, n),
           NEW a \in Vendor, NEW b \in Vendor,
           NEW m \in n..Vendors, \A v \in Vendor : Fellows(p, v, b) => h[v] < m
    PROVE  /\ Forest(Union(p, a, b), m)
           /\ \A v, w \in Vendor : Fellows(Union(p, a, b), v, w) <=>
                 \/ Fellows(p, v, w)
                 \/ (Fellows(p, v, a) \/ Fellows(p, v, b)) /\ (Fellows(p, w, a) \/ Fellows(p, w, b))
<1> DEFINE ra == Find(p, a)
           rb == Find(p, b)
           q == Union(p, a, b)
<1>1. Vendors \in Nat /\ n \in Nat /\ m \in Nat /\ n <= m /\ m <= Vendors /\ n <= Vendors
  BY VendorsAre
<1>2. Forest(p, Vendors)
  BY <1>1, Higher DEF Forest
<1>3. /\ ra \in Vendor /\ rb \in Vendor /\ p[ra] = ra /\ p[rb] = rb
      /\ \A v \in Vendor : /\ Find(p, v) \in Vendor /\ p[v] \in Vendor
                           /\ p[v] = v => Find(p, v) = v
                           /\ Find(p, p[v]) = Find(p, v) /\ p[Find(p, v)] = Find(p, v)
  BY <1>2, FindEnds
<1>4. CASE ra = rb
  <2>1. q = p
    BY <1>4 DEF Union
  <2>2. Heights(p, h, m)
    BY <1>1, Higher
  <2> QED
    BY <1>4, <2>1, <2>2 DEF Forest, Fellows
<1>5. CASE ra # rb
  <2>1. q = [p EXCEPT ![rb] = ra]
    BY <1>5 DEF Union
  <2>2. PICK r \in [Vendor -> Vendor] : r = [v \in Vendor |-> Find(p, v)]
    BY <1>3
  <2>3. PICK x \in Vendor : x = ra
    BY <1>3
  <2>4. PICK y \in Vendor : y = rb
    BY <1>3
  <2>5. PICK g : g = [v \in Vendor |-> IF r[v] = y THEN h[v] + 1 ELSE h[v]]
    OBVIOUS
  <2> HIDE DEF ra, rb, q
  <2>6. /\ x # y /\ p[x] = x /\ p[y] = y /\ r[x] = x /\ r[y] = y
        /\ \A v \in Vendor : r[p[v]] = r[v] /\ (p[v] = v => r[v] = v) /\ r[v] \in Vendor
    BY <1>3, <1>5, <2>2, <2>3, <2>4
  <2>7. /\ q \in [Vendor -> Vendor] /\ q[y] = x /\ \A v \in Vendor : v # y => q[v] = p[v]
    BY <2>1, <2>3, <2>4
  <2>8. /\ h \in [Vendor -> 0..n] /\ \A v \in Vendor : h[v] \in 0..n /\ p[v] \in Vendor /\ h[p[v]] \in 0..n
        /\ \A v \in Vendor : IF p[v] = v THEN h[v] = 0 ELSE h[p[v]] < h[v]
    BY DEF Heights
  <2>9. \A v \in Vendor : r[v] = y => h[v] < m
    BY <2>2, <2>4 DEF Fellows, rb
  <2>10. \A v \in Vendor : g[v] \in 0..m
    BY <1>1, <2>5, <2>8, <2>9
  <2>11. ASSUME NEW v \in Vendor PROVE IF q[v] = v THEN g[v] = 0 ELSE g[q[v]] < g[v]
    <3>1. CASE v = y
      <4>1. q[v] = x /\ g[x] = h[x] /\ h[x] = 0 /\ g[y] = h[y] + 1 /\ h[y] = 0
        BY <2>5, <2>6, <2>7, <2>8, <3>1
      <4> QED
        BY <2>6, <3>1, <4>1
    <3>2. CASE v # y
      <4>1. q[v] = p[v] /\ r[p[v]] = r[v] /\ p[v] \in Vendor
        BY <2>6, <2>7, <2>8, <3>2
      <4>2. CASE p[v] = v
        BY <2>5, <2>6, <2>8, <3>2, <4>1, <4>2
      <4>3. CASE p[v] # v
        <5>1. h[p[v]] < h[v] /\ h[p[v]] \in Nat /\ h[v] \in Nat
          BY <1>1, <2>8, <4>3
        <5> QED
          BY <2>5, <4>1, <4>3, <5>1
      <4> QED
        BY <4>2, <4>3
    <3> QED
      BY <3>1, <3>2
  <2>12. Heights(q, g, m)
    <3>1. g \in [Vendor -> 0..m]
      BY <2>5, <2>10
    <3> QED
      BY <2>11, <3>1 DEF Heights
  <2>13. Forest(q, m) /\ Forest(q, Vendors)
    BY <1>1, <2>7, <2>12, Higher DEF Forest
  <2>14. PICK root \in [Vendor -> Vendor] : root = [v \in Vendor |-> IF r[v] = y THEN x ELSE r[v]]
    BY <2>6
  <2>15. \A v \in Vendor : root[q[v]] = root[v] /\ (q[v] = v => root[v] = v)
    <3> SUFFICES ASSUME NEW v \in Vendor PROVE root[q[v]] = root[v] /\ (q[v] = v => root[v] = v)
      OBVIOUS
    <3>1. CASE v = y
      BY <2>6, <2>7, <2>14, <3>1
    <3>2. CASE v # y
      BY <2>6, <2>7, <2>8, <2>14, <3>2
    <3> QED
      BY <3>1, <3>2
  <2>16. \A v \in Vendor : Find(q, v) = root[v]
    BY <2>13, <2>15, FindEnds
  <2>17. \A v \in Vendor : Find(q, v) = (IF Find(p, v) = rb THEN ra ELSE Find(p, v))
    BY <2>2, <2>3, <2>4, <2>14, <2>16
  <2>18. \A v, w \in Vendor : Fellows(q, v, w) <=>
            \/ Fellows(p, v, w)
            \/ (Fellows(p, v, a) \/ Fellows(p, v, b)) /\ (Fellows(p, w, a) \/ Fellows(p, w, b))
    BY <1>5, <2>17 DEF Fellows, ra, rb
  <2> QED
    BY <2>13, <2>18 DEF q
<1> QED
  BY <1>4, <1>5

\* No set that keeps linked vendors together separates the two.
Chained(v, w) == v \in Live /\ w \in Live /\ \A S \in SUBSET Live : Closed(S) => (v \in S <=> w \in S)

\* After the first n vendors those that are linked are in one group, the rest are alone.
Grouped(p, n) ==
    /\ Forest(p, n)
    /\ \A v, w \in Vendor : v > n /\ Fellows(p, v, w) => v = w
    /\ \A v, w \in Live : v <= n /\ w <= n /\ Linked(v, w) => Fellows(p, v, w)
    /\ \A v, w \in Vendor : Fellows(p, v, w) => v = w \/ Chained(v, w)

LEMMA LinkedChained ==
    ASSUME NEW v \in Live, NEW w \in Live, Linked(v, w) PROVE Chained(v, w)
<1>1. Linked(w, v)
  BY DEF Linked
<1> QED
  BY <1>1 DEF Chained, Closed

\* Joining v to a vendor it is linked to, or to itself.
LEMMA UnionSound ==
    ASSUME NEW p, NEW q, NEW a \in Live, NEW v \in Live, a = v \/ Linked(a, v),
           \A x, y \in Vendor : Fellows(p, x, y) => x = y \/ Chained(x, y),
           \A x, y \in Vendor : Fellows(q, x, y) <=>
              \/ Fellows(p, x, y)
              \/ (Fellows(p, x, a) \/ Fellows(p, x, v)) /\ (Fellows(p, y, a) \/ Fellows(p, y, v))
    PROVE  \A x, y \in Vendor : Fellows(q, x, y) => x = y \/ Chained(x, y)
<1> SUFFICES ASSUME NEW x \in Vendor, NEW y \in Vendor, Fellows(q, x, y) PROVE x = y \/ Chained(x, y)
  OBVIOUS
<1>1. v \in Vendor /\ a \in Vendor
  BY DEF Live
<1>2. Chained(a, v) /\ Chained(v, a) /\ Chained(v, v)
  <2>1. Linked(a, v) => Chained(a, v)
    BY LinkedChained
  <2> QED
    BY <2>1 DEF Chained
<1>3. ASSUME NEW z \in Vendor, Fellows(p, z, a) \/ Fellows(p, z, v) PROVE Chained(z, v)
  <2>1. CASE Fellows(p, z, a)
    <3>1. z = a \/ Chained(z, a)
      BY <1>1, <2>1
    <3> QED
      BY <1>2, <3>1 DEF Chained
  <2>2. CASE Fellows(p, z, v)
    BY <1>1, <1>2, <2>2
  <2> QED
    BY <1>3, <2>1, <2>2
<1>4. CASE Fellows(p, x, y)
  BY <1>4
<1>5. CASE (Fellows(p, x, a) \/ Fellows(p, x, v)) /\ (Fellows(p, y, a) \/ Fellows(p, y, v))
  <2>1. Chained(x, v) /\ Chained(y, v)
    BY <1>3, <1>5
  <2> QED
    BY <2>1 DEF Chained
<1> QED
  BY <1>4, <1>5

LEMMA FindType ==
    ASSUME NEW p \in [Vendor -> Vendor], NEW v \in Vendor PROVE Find(p, v) \in Vendor
<1>1. PICK up \in [0..Vendors -> Vendor] : Find(p, v) = up[Vendors]
  BY FindWay
<1>2. Vendors \in 0..Vendors
  BY VendorsAre
<1> QED
  BY <1>1, <1>2

LEMMA UnionType ==
    ASSUME NEW p \in [Vendor -> Vendor], NEW a \in Vendor, NEW b \in Vendor
    PROVE  Union(p, a, b) \in [Vendor -> Vendor]
  BY FindType DEF Union

\* The earlier vendor that v is joined to: v itself if there is none.
LEMMA FirstOfIs ==
    ASSUME NEW S \in SUBSET Vendor, NEW v \in Vendor
    PROVE  /\ FirstOf(S, v) \in Vendor
           /\ S = {} => FirstOf(S, v) = v
           /\ S # {} => FirstOf(S, v) \in S
  BY Least DEF FirstOf

\* Grouping v joins it to those before it that it is linked to.
LEMMA GroupingKeeps ==
    ASSUME NEW v \in Live, NEW p, Grouped(p, v - 1)
    PROVE  Grouped(Grouping(p, v), v)
<1> DEFINE names == {w \in Live : w < v /\ KeyAt(w) = KeyAt(v)}
           banks == {w \in Live : w < v /\ row[w].bank = row[v].bank}
           q == Union(p, FirstOf(names, v), v)
<1>1. v \in Vendor /\ v \in 1..Vendors /\ Vendors \in Nat /\ \A w \in Vendor : w \in 1..Vendors
  BY VendorsAre DEF Live
<1>2. \A w \in Live : w \in Vendor
  BY DEF Live
<1>3. names \in SUBSET Vendor /\ banks \in SUBSET Vendor
  BY <1>2
<1>4. /\ FirstOf(names, v) \in Vendor
      /\ names = {} => FirstOf(names, v) = v
      /\ names # {} => FirstOf(names, v) \in names
  <2> HIDE DEF names
  <2> QED
    BY <1>1, <1>3, FirstOfIs
<1>5. /\ FirstOf(banks, v) \in Vendor
      /\ banks = {} => FirstOf(banks, v) = v
      /\ banks # {} => FirstOf(banks, v) \in banks
  <2> HIDE DEF banks
  <2> QED
    BY <1>1, <1>3, FirstOfIs
<1>6. Grouping(p, v) = Union(Union(p, FirstOf(names, v), v), FirstOf(banks, v), v)
  BY DEF Grouping
<1> HIDE DEF names, banks
<1>7. PICK a \in Vendor : a = FirstOf(names, v)
  BY <1>4
<1>8. PICK b \in Vendor : b = FirstOf(banks, v)
  BY <1>5
<1>9. IF names = {} THEN a = v ELSE a \in names
  BY <1>7, <1>4
<1>10. IF banks = {} THEN b = v ELSE b \in banks
  BY <1>8, <1>5
<1>11. PICK h : p \in [Vendor -> Vendor] /\ Heights(p, h, v - 1)
  BY DEF Grouped, Forest
<1>12. Forest(q, v - 1) /\ \A x, y \in Vendor : Fellows(q, x, y) <=>
         \/ Fellows(p, x, y)
         \/ (Fellows(p, x, a) \/ Fellows(p, x, v)) /\ (Fellows(p, y, a) \/ Fellows(p, y, v))
  <2>1. CASE a = v
    <3>1. q = p
      BY <1>7, <2>1 DEF Union
    <3> QED
      BY <2>1, <3>1 DEF Grouped, Fellows
  <2>2. CASE a # v
    <3>1. a < v
      BY <1>9, <2>2 DEF names
    <3>2. v - 1 \in 0..Vendors /\ v - 1 \in (v - 1)..Vendors /\ 0 < v - 1
      BY <1>1, <3>1
    <3>3. ASSUME NEW w \in Vendor, Fellows(p, w, v) PROVE h[w] < v - 1
      <4>1. w = v
        BY <1>1, <3>3 DEF Grouped, Fellows
      <4>2. p[v] = v
        <5>1. Forest(p, Vendors)
          BY <1>1, <1>11, <3>2, Higher DEF Forest
        <5>2. p[v] \in Vendor /\ Fellows(p, v, p[v])
          BY <1>1, <1>11, <5>1, FindEnds DEF Fellows
        <5>3. v > v - 1
          BY <1>1
        <5> QED
          BY <1>1, <5>2, <5>3 DEF Grouped, Fellows
      <4> QED
        BY <1>1, <1>11, <3>2, <4>1, <4>2 DEF Heights
    <3> QED
      BY <1>1, <1>7, <1>11, <3>2, <3>3, UnionIs
  <2> QED
    BY <2>1, <2>2
<1>13. Forest(Grouping(p, v), v) /\ \A x, y \in Vendor : Fellows(Grouping(p, v), x, y) <=>
         \/ Fellows(q, x, y)
         \/ (Fellows(q, x, b) \/ Fellows(q, x, v)) /\ (Fellows(q, y, b) \/ Fellows(q, y, v))
  <2>1. Grouping(p, v) = Union(q, b, v)
    BY <1>8, <1>6
  <2>2. PICK g : q \in [Vendor -> Vendor] /\ Heights(q, g, v - 1)
    BY <1>12 DEF Forest
  <2>3. v - 1 \in 0..Vendors /\ v \in (v - 1)..Vendors
    BY <1>1
  <2>4. \A w \in Vendor : g[w] < v
    BY <1>1, <2>2 DEF Heights
  <2> HIDE DEF q
  <2> QED
    BY <1>1, <2>1, <2>2, <2>3, <2>4, UnionIs
<1>14. a <= v /\ b <= v /\ a \in Live /\ b \in Live /\ (a = v \/ Linked(a, v)) /\ (b = v \/ Linked(b, v))
  BY <1>1, <1>9, <1>10 DEF Linked, names, banks
<1>15. ASSUME NEW w \in names PROVE Fellows(p, a, w)
  <2>1. a \in names /\ w \in Live /\ a <= v - 1 /\ w <= v - 1 /\ Linked(a, w)
    BY <1>1, <1>2, <1>9, <1>15 DEF Linked, names
  <2> QED
    BY <1>14, <2>1 DEF Grouped
<1>16. ASSUME NEW w \in banks PROVE Fellows(p, b, w)
  <2>1. b \in banks /\ w \in Live /\ b <= v - 1 /\ w <= v - 1 /\ Linked(b, w)
    BY <1>1, <1>2, <1>10, <1>16 DEF Linked, banks
  <2> QED
    BY <1>14, <2>1 DEF Grouped
<1>17. PICK r : r = Grouping(p, v)
  OBVIOUS
<1> HIDE DEF q
<1>18. ASSUME NEW x \in Vendor, NEW y \in Vendor, x > v, Fellows(r, x, y) PROVE x = y
  <2>1. x > v - 1 /\ x # a /\ x # b /\ x # v
    BY <1>1, <1>14, <1>18
  <2>2. ~Fellows(p, x, a) /\ ~Fellows(p, x, v) /\ ~Fellows(p, x, b)
    BY <1>1, <2>1 DEF Grouped
  <2>3. ~Fellows(q, x, b) /\ ~Fellows(q, x, v)
    BY <1>1, <1>12, <2>2
  <2>4. Fellows(p, x, y)
    BY <1>1, <1>12, <1>13, <1>17, <1>18, <2>2, <2>3
  <2> QED
    BY <2>1, <2>4 DEF Grouped
<1>19. ASSUME NEW w \in Live, w < v, Linked(w, v) PROVE Fellows(r, w, v) /\ Fellows(r, v, w)
  <2>1. CASE w \in names
    <3>1. Fellows(p, w, a) /\ Fellows(p, v, v) /\ w \in Vendor
      BY <1>2, <1>15, <2>1 DEF Fellows
    <3>2. Fellows(q, w, v) /\ Fellows(q, v, w)
      BY <1>1, <1>12, <3>1
    <3> QED
      BY <1>1, <1>13, <1>17, <3>1, <3>2
  <2>2. CASE w \in banks
    <3>1. Fellows(p, w, b) /\ Fellows(p, v, v) /\ w \in Vendor
      BY <1>2, <1>16, <2>2 DEF Fellows
    <3>2. Fellows(q, w, b) /\ Fellows(q, v, v)
      BY <1>1, <1>12, <3>1 DEF Fellows
    <3> QED
      BY <1>1, <1>13, <1>17, <3>1, <3>2
  <2> QED
    BY <1>19, <2>1, <2>2 DEF Linked, names, banks
<1>20. ASSUME NEW x \in Live, NEW y \in Live, x <= v, y <= v, Linked(x, y) PROVE Fellows(r, x, y)
  <2>1. CASE x = y
    BY <2>1 DEF Fellows
  <2>2. CASE x = v /\ y < v
    <3>1. Linked(y, v)
      BY <1>20, <2>2 DEF Linked
    <3> QED
      BY <1>19, <2>2, <3>1
  <2>3. CASE y = v /\ x < v
    BY <1>19, <1>20, <2>3
  <2>4. CASE x < v /\ y < v
    <3>1. x \in Vendor /\ y \in Vendor /\ x <= v - 1 /\ y <= v - 1
      BY <1>1, <1>2, <2>4
    <3>2. Fellows(p, x, y)
      BY <1>20, <3>1 DEF Grouped
    <3> QED
      BY <1>12, <1>13, <1>17, <3>1, <3>2
  <2> QED
    BY <1>1, <1>2, <1>20, <2>1, <2>2, <2>3, <2>4
<1>21. \A x, y \in Vendor : Fellows(r, x, y) => x = y \/ Chained(x, y)
  <2>1. \A x, y \in Vendor : Fellows(p, x, y) => x = y \/ Chained(x, y)
    BY DEF Grouped
  <2>2. \A x, y \in Vendor : Fellows(q, x, y) => x = y \/ Chained(x, y)
    BY <1>12, <1>14, <2>1, UnionSound
  <2> QED
    BY <1>13, <1>14, <1>17, <2>2, UnionSound
<1> QED
  BY <1>13, <1>17, <1>18, <1>20, <1>21 DEF Grouped

\* All vendors are grouped in the end.
LEMMA ParentsGrouped == Grouped(Parents, Vendors)
<1> DEFINE Forests == [Vendor -> Vendor]
           id == [v \in Vendor |-> v]
           After(e) == e = [n \in 0..Vendors |-> IF n = 0 THEN id
                                                 ELSE IF n \in Live THEN Grouping(e[n - 1], n) ELSE e[n - 1]]
<1>1. Vendors \in Nat /\ id \in Forests /\ \A v \in Live : v \in Vendor
  BY VendorsAre DEF Live
<1>2. ASSUME NEW p \in Forests, NEW v \in Live PROVE Grouping(p, v) \in Forests
  <2>1. PICK a \in Vendor : a = FirstOf({w \in Live : w < v /\ KeyAt(w) = KeyAt(v)}, v)
    BY <1>1, FirstOfIs
  <2>2. PICK b \in Vendor : b = FirstOf({w \in Live : w < v /\ row[w].bank = row[v].bank}, v)
    BY <1>1, FirstOfIs
  <2>3. Grouping(p, v) = Union(Union(p, a, v), b, v)
    BY <2>1, <2>2 DEF Grouping
  <2>4. Union(p, a, v) \in Forests
    BY <1>1, UnionType
  <2>5. PICK q \in Forests : q = Union(p, a, v)
    BY <2>4
  <2> QED
    BY <1>1, <2>3, <2>5, UnionType
<1>3. PICK g \in [1..Vendors -> [Forests -> Forests]] :
         g = [n \in 1..Vendors |-> [p \in Forests |-> IF n \in Live THEN Grouping(p, n) ELSE p]]
  BY <1>2
<1>4. PICK after \in [0..Vendors -> Forests] :
         Iterates(after, Vendors, id, g) /\ \A e : Iterates(e, Vendors, id, g) => e = after
  <2> HIDE DEF Forests, id
  <2> QED
    BY <1>1, Iteration
<1>5. ASSUME NEW n \in 1..Vendors
      PROVE  after[n] = IF n \in Live THEN Grouping(after[n - 1], n) ELSE after[n - 1]
  <2>1. n \in 0..Vendors /\ n # 0 /\ n - 1 \in 0..Vendors /\ after[n - 1] \in Forests
    BY <1>1
  <2>2. after[n] = g[n][after[n - 1]]
    BY <1>4, <2>1 DEF Iterates
  <2> HIDE DEF Forests
  <2> QED
    BY <1>3, <2>1, <2>2
<1>6. after[0] = id
  BY <1>1, <1>4 DEF Iterates
<1>7. Parents = after[Vendors]
  <2>1. After(after)
    <3> DEFINE f == [n \in 0..Vendors |-> IF n = 0 THEN id
                                          ELSE IF n \in Live THEN Grouping(after[n - 1], n) ELSE after[n - 1]]
    <3>1. ASSUME NEW n \in 0..Vendors PROVE after[n] = f[n]
      <4>1. CASE n = 0
        BY <1>6, <4>1
      <4>2. CASE n # 0
        <5>1. n \in 1..Vendors
          BY <1>1, <4>2
        <5> QED
          BY <1>5, <4>2, <5>1
      <4> QED
        BY <4>1, <4>2
    <3>2. after = [n \in 0..Vendors |-> after[n]] /\ f = [n \in 0..Vendors |-> f[n]]
      OBVIOUS
    <3>3. after = f
      <4> HIDE DEF f
      <4> QED
        BY <3>1, <3>2
    <3> QED
      BY <3>3
  <2>2. ASSUME NEW e, After(e) PROVE e = after
    <3> DEFINE Same == {n \in 0..Vendors : e[n] = after[n]}
    <3>1. e = [n \in 0..Vendors |-> e[n]] /\ after = [n \in 0..Vendors |-> after[n]]
      BY <2>2
    <3>2. 0 \in Same
      BY <1>1, <1>6, <2>2
    <3>3. ASSUME NEW k \in 0..Vendors, k \in Same, k + 1 \in 0..Vendors PROVE k + 1 \in Same
      <4>1. k + 1 \in 1..Vendors /\ k + 1 # 0 /\ (k + 1) - 1 = k /\ e[k] = after[k]
        BY <1>1, <3>3
      <4>2. e[k + 1] = IF k + 1 \in Live THEN Grouping(e[k], k + 1) ELSE e[k]
        BY <2>2, <3>3, <4>1
      <4>3. after[k + 1] = IF k + 1 \in Live THEN Grouping(after[k], k + 1) ELSE after[k]
        BY <1>5, <4>1
      <4> QED
        BY <3>3, <4>1, <4>2, <4>3
    <3> HIDE DEF Same, After
    <3>4. \A k \in 0..Vendors : k \in Same
      BY <1>1, <3>2, <3>3, Upwards
    <3>5. \A k \in 0..Vendors : e[k] = after[k]
      BY <3>4 DEF Same
    <3> QED
      BY <3>1, <3>5
  <2>3. Parents = (CHOOSE e : After(e))[Vendors]
    BY DEF Parents
  <2> HIDE DEF After
  <2>4. (CHOOSE e : After(e)) = after
    BY <2>1, <2>2
  <2> QED
    BY <2>3, <2>4
<1> DEFINE Good == {n \in 0..Vendors : Grouped(after[n], n)}
<1>8. 0 \in Good
  <2>1. PICK p : p = id
    OBVIOUS
  <2>2. Heights(p, [v \in Vendor |-> 0], 0) /\ p \in [Vendor -> Vendor]
    BY <2>1 DEF Heights
  <2>3. Forest(p, 0) /\ Forest(p, Vendors)
    BY <1>1, <2>2, Higher DEF Forest
  <2>4. \A v \in Vendor : Find(p, v) = v
    BY <2>1, <2>3, FindEnds
  <2>5. \A v \in Vendor : ~(v <= 0)
    BY <1>1, VendorsAre
  <2> HIDE DEF id
  <2>6. Grouped(p, 0)
    BY <1>1, <2>3, <2>4, <2>5 DEF Grouped, Fellows
  <2> QED
    BY <1>1, <1>6, <2>1, <2>6
<1>9. ASSUME NEW k \in 0..Vendors, k \in Good, k + 1 \in 0..Vendors PROVE k + 1 \in Good
  <2>1. k + 1 \in 1..Vendors /\ (k + 1) - 1 = k /\ k \in Nat
    BY <1>1, <1>9
  <2>2. PICK p : p = after[k] /\ Grouped(p, k)
    BY <1>9
  <2>3. after[k + 1] = IF k + 1 \in Live THEN Grouping(p, k + 1) ELSE p
    BY <1>5, <2>1, <2>2
  <2>4. CASE k + 1 \in Live
    BY <1>9, <2>1, <2>2, <2>3, <2>4, GroupingKeeps
  <2>5. CASE k + 1 \notin Live
    <3>1. Forest(p, k + 1)
      BY <2>1, <2>2, Higher DEF Grouped, Forest
    <3>2. \A v \in Vendor : (v > k + 1 => v > k) /\ (v \in Live /\ v <= k + 1 => v <= k)
      BY <1>1, <2>1, <2>5, VendorsAre
    <3>3. Grouped(p, k + 1)
      BY <1>1, <2>2, <3>1, <3>2 DEF Grouped
    <3> QED
      BY <1>9, <2>3, <2>5, <3>3
  <2> QED
    BY <2>4, <2>5
<1>10. \A k \in 0..Vendors : k \in Good
  <2> HIDE DEF Good
  <2> QED
    BY <1>1, <1>8, <1>9, Upwards
<1> QED
  BY <1>1, <1>7, <1>10

\* A vendor is known by the first of its group, found by the vendor Find returns.
LEMMA PrimaryIs ==
    /\ \A v \in Vendor \ Live : Primary[v] = v
    /\ \A v \in Live : Primary[v] \in Live /\ Fellows(Parents, v, Primary[v])
    /\ \A v, w \in Live : Fellows(Parents, v, w) => Primary[v] = Primary[w]
<1> DEFINE Group(v) == {w \in Live : Find(Parents, w) = Find(Parents, v)}
<1>1. \A v \in Live : v \in Vendor /\ v \in Group(v) /\ Group(v) \in SUBSET Vendor
  BY DEF Live
<1>2. Primary = [v \in Vendor |-> IF v \in Live THEN Min(Group(v)) ELSE v]
  BY DEF Primary
<1>3. ASSUME NEW v \in Live PROVE Min(Group(v)) \in Group(v)
  <2> HIDE DEF Group
  <2> QED
    BY <1>1, Least
<1>4. ASSUME NEW v \in Live, NEW w \in Live, Fellows(Parents, v, w) PROVE Group(v) = Group(w)
  BY <1>4 DEF Fellows
<1>5. \A v \in Live : Min(Group(v)) \in Live /\ Find(Parents, Min(Group(v))) = Find(Parents, v)
  BY <1>3
<1> HIDE DEF Group
<1> QED
  BY <1>1, <1>2, <1>4, <1>5 DEF Fellows

\* In every state: the union-find groups the vendors as GroupsAreComponents says.
LEMMA GroupsHold == GroupsAreComponents
<1>1. /\ \A v, w \in Live : Linked(v, w) => Fellows(Parents, v, w)
      /\ \A v, w \in Live : Fellows(Parents, v, w) => v = w \/ Chained(v, w)
  BY ParentsGrouped, VendorsAre DEF Grouped, Live
<1> SUFFICES ASSUME NEW v \in Live, NEW w \in Live
             PROVE  Primary[v] = Primary[w] <=>
                       \A S \in {S \in SUBSET Live : Closed(S)} : v \in S => w \in S
  BY PrimaryType DEF GroupsAreComponents
<1>2. ASSUME Primary[v] = Primary[w] PROVE \A S \in SUBSET Live : Closed(S) => (v \in S => w \in S)
  <2>1. Fellows(Parents, v, w)
    BY <1>2, PrimaryIs DEF Fellows
  <2> QED
    BY <1>1, <2>1 DEF Chained
<1>3. ASSUME \A S \in SUBSET Live : Closed(S) => (v \in S => w \in S) PROVE Primary[v] = Primary[w]
  <2>1. PICK S \in SUBSET Live : S = {x \in Live : Fellows(Parents, v, x)}
    OBVIOUS
  <2>2. Closed(S) /\ v \in S
    BY <1>1, <2>1 DEF Closed, Fellows
  <2>3. Fellows(Parents, v, w)
    BY <1>3, <2>1, <2>2
  <2> QED
    BY <2>3, PrimaryIs
<1> QED
  BY <1>2, <1>3

-----------------------------------------------------------------------------
(* What a merge relies on until it commits.                                 *)

\* Each vendor has the one of its group that is kept.
Settling(primary) ==
    /\ \A v \in Vendor \ Live : primary[v] = v
    /\ \A v \in Live : primary[v] \in Live
    /\ \A v, w \in Live : Linked(v, w) => primary[v] = primary[w]

\* What s holds while it merges: nobody deletes a vendor it moves to, and what
\* it computed is true of the directory as long as it missed nothing.
Relies(s) ==
    /\ pc[s] \in {"relink", "purge"} =>
          /\ Duplicates(s) # {}
          /\ \A v \in Vendor : loc[s].primary[loc[s].primary[v]] = loc[s].primary[v]
          /\ missed[s] = {} => Settling(loc[s].primary)
    /\ pc[s] = "purge" =>
          /\ MovingTo(s) \subseteq Live \ Duplicates(s)
          /\ missed[s] = {} => loc[s].to = Moved(s)

MergeInv ==
    /\ \A d \in Dependent : owner[d] \in Vendor => owner[d] \in Live
    /\ \A s \in Session : Relies(s)

LEMMA PrimarySettles ==
    /\ Settling(Primary)
    /\ \A v \in Vendor : Primary[Primary[v]] = Primary[v]
<1>1. \A v, w \in Live : Linked(v, w) => Primary[v] = Primary[w]
  BY ParentsGrouped, PrimaryIs, VendorsAre DEF Grouped, Live
<1>2. \A v \in Live : Primary[v] \in Live /\ Primary[v] = Primary[Primary[v]]
  BY PrimaryIs
<1>3. \A v \in Vendor \ Live : Primary[v] = v
  BY PrimaryIs
<1> QED
  BY <1>1, <1>2, <1>3 DEF Settling

\* What the others rely on must stay.
LEMMA OthersRely ==
    ASSUME MergeInv, NEW s \in Session,
           \A t \in Session \ {s} : pc'[t] = pc[t] /\ loc'[t] = loc[t],
           \A t \in Session \ {s} : pc[t] \in {"relink", "purge"} /\ missed'[t] = {} =>
              missed[t] = {} /\ UNCHANGED <<row, owner>>,
           \A v \in Live : row'[v].status = "live" \/ \A t \in Session \ {s} : v \notin MovingTo(t),
           \A d \in Dependent : owner'[d] \in Vendor => row'[owner'[d]].status = "live",
           Relies(s)'
    PROVE  MergeInv'
<1>1. (\A d \in Dependent : owner[d] \in Vendor => owner[d] \in Live)'
  BY DEF Live
<1>2. ASSUME NEW t \in Session \ {s}, pc'[t] \in {"relink", "purge"}
      PROVE  /\ Duplicates(t)' # {}
             /\ \A v \in Vendor : loc'[t].primary[loc'[t].primary[v]] = loc'[t].primary[v]
             /\ missed'[t] = {} => Settling(loc[t].primary)'
  <2>1. /\ pc[t] \in {"relink", "purge"} /\ loc'[t] = loc[t]
        /\ missed'[t] = {} => missed[t] = {} /\ UNCHANGED <<row, owner>>
    BY <1>2
  <2>2. /\ Duplicates(t) # {}
        /\ \A v \in Vendor : loc[t].primary[loc[t].primary[v]] = loc[t].primary[v]
        /\ missed[t] = {} => Settling(loc[t].primary)
    BY <2>1 DEF MergeInv, Relies
  <2>3. ASSUME missed'[t] = {} PROVE Settling(loc[t].primary)'
    BY <2>1, <2>2, <2>3 DEF Settling, Live, Linked, KeyAt
  <2> QED
    BY <2>1, <2>2, <2>3 DEF Duplicates
<1>3. ASSUME NEW t \in Session \ {s}, pc'[t] = "purge"
      PROVE  /\ MovingTo(t)' \subseteq Live' \ Duplicates(t)'
             /\ missed'[t] = {} => loc'[t].to = Moved(t)'
  <2>1. /\ t \in Session \ {s} /\ pc[t] = "purge" /\ loc'[t] = loc[t]
        /\ missed'[t] = {} => missed[t] = {} /\ UNCHANGED <<row, owner>>
    BY <1>3
  <2>2. /\ MovingTo(t) \subseteq Live \ Duplicates(t)
        /\ missed[t] = {} => loc[t].to = Moved(t)
    BY <2>1 DEF MergeInv, Relies
  <2>3. MovingTo(t)' = MovingTo(t) /\ Duplicates(t)' = Duplicates(t)
    BY <2>1 DEF MovingTo, Duplicates
  <2>4. \A v \in MovingTo(t) : v \in Live'
    BY <2>1, <2>2 DEF Live
  <2>5. ASSUME missed'[t] = {} PROVE loc'[t].to = Moved(t)'
    BY <2>1, <2>2, <2>5 DEF Moved, Duplicates
  <2> QED
    BY <2>2, <2>3, <2>4, <2>5
<1>4. ASSUME NEW t \in Session \ {s} PROVE Relies(t)'
  BY <1>2, <1>3 DEF Relies
<1> QED
  BY <1>1, <1>4 DEF MergeInv

\* Requests that read and are no merges.
LEMMA ReadMerge ==
    ASSUME TypeOK, MergeInv, NEW s \in Session, Proceeds(s), pc'[s] \notin {"relink", "purge"}
    PROVE  MergeInv'
<1>1. \A t \in Session \ {s} : pc'[t] = pc[t] /\ loc'[t] = loc[t] /\ missed'[t] = missed[t]
  BY DEF TypeOK, Proceeds
<1>2. UNCHANGED <<row, owner>>
  BY DEF Proceeds
<1>3. \A v \in Live : row'[v].status = "live"
  BY <1>2 DEF Live
<1>4. \A d \in Dependent : owner'[d] \in Vendor => row'[owner'[d]].status = "live"
  BY <1>2 DEF MergeInv, Live
<1>5. Relies(s)'
  BY DEF Relies
<1> QED
  BY <1>1, <1>2, <1>3, <1>4, <1>5, OthersRely

\* A commit that deletes no vendor another merge moves to.
LEMMA CommitMerge ==
    ASSUME TypeOK, MergeInv, NEW s \in Session, NEW written, Finish(s, written),
           written = {} => UNCHANGED <<row, owner>>,
           \A v \in Live : row'[v].status = "live" \/ \A t \in Session \ {s} : v \notin MovingTo(t),
           \A d \in Dependent : owner'[d] \in Vendor => row'[owner'[d]].status = "live"
    PROVE  MergeInv'
<1>1. \A t \in Session \ {s} : pc'[t] = pc[t] /\ loc'[t] = loc[t]
  BY DEF TypeOK, Finish
<1>2. pc'[s] = "idle"
  BY DEF TypeOK, Finish
<1>3. ASSUME NEW t \in Session \ {s}, pc[t] \in {"relink", "purge"}, missed'[t] = {}
      PROVE  missed[t] = {} /\ written = {}
  <2>1. missed'[t] = missed[t] \cup written
    BY <1>3 DEF Finish
  <2> QED
    BY <1>3, <2>1
<1>4. Relies(s)'
  BY <1>2 DEF Relies
<1> QED
  BY <1>1, <1>3, <1>4, OthersRely

\* Its foreign keys hold if it deletes nothing and refers to nothing new.
LEMMA KeepingMerge ==
    ASSUME TypeOK, MergeInv, NEW s \in Session, NEW written, Finish(s, written),
           written = {} => row' = row, owner' = owner,
           \A v \in Live : row'[v].status = "live"
    PROVE  MergeInv'
<1>1. \A d \in Dependent : owner'[d] \in Vendor => row'[owner'[d]].status = "live"
  BY DEF MergeInv
<1> QED
  BY <1>1, CommitMerge

LEMMA FailMerge ==
    ASSUME TypeOK, MergeInv, NEW s \in Session, Fail(s)
    PROVE  MergeInv'
<1>1. Finish(s, {}) /\ row' = row /\ owner' = owner
  BY DEF Fail
<1>2. \A v \in Live : row'[v].status = "live"
  BY <1>1 DEF Live
<1> QED
  BY <1>1, <1>2, KeepingMerge

LEMMA InsertedStay ==
    ASSUME NEW rows, NEW place \in Places(rows), NEW via, NEW v \in Live
    PROVE  Inserted(place, via)[v] = row[v] /\ Inserted(place, via)[v].status = "live"
<1>1. v \in Vendor /\ row[v].status = "live"
  BY DEF Live
<1>2. v \notin DOMAIN place
  BY <1>1, PlacesAre
<1> QED
  BY <1>1, <1>2 DEF Inserted

LEMMA MergeReadMerge ==
    ASSUME TypeOK, MergeInv, NEW s \in Session, MergeRead(s)
    PROVE  MergeInv'
<1>1. PICK primary \in [Vendor -> Vendor] : primary = Primary
  BY PrimaryType
<1>2. /\ Settling(primary) /\ \A v \in Vendor : primary[primary[v]] = primary[v]
      /\ \E v \in Vendor : primary[v] # v
  BY <1>1, PrimarySettles DEF MergeRead, Live
<1>3. Proceeds(s) /\ pc'[s] = "relink" /\ loc'[s].primary = primary
  <2>1. Proceeds(s) /\ pc'[s] = "relink" /\ loc'[s] = [Blank EXCEPT !.primary = primary]
    BY <1>1 DEF MergeRead, Read, Goto, Proceeds, TypeOK
  <2> QED
    BY <2>1, Blanks DEF Loc
<1>4. Settling(primary)'
  BY <1>2, <1>3 DEF Proceeds, Settling, Live, Linked, KeyAt
<1>5. Relies(s)'
  BY <1>2, <1>3, <1>4 DEF Relies, Duplicates
<1>6. \A t \in Session \ {s} : pc'[t] = pc[t] /\ loc'[t] = loc[t] /\ missed'[t] = missed[t]
  BY <1>3 DEF TypeOK, Proceeds
<1>7. UNCHANGED <<row, owner>>
  BY <1>3 DEF Proceeds
<1>8. \A v \in Live : row'[v].status = "live"
  BY <1>7 DEF Live
<1>9. \A d \in Dependent : owner'[d] \in Vendor => row'[owner'[d]].status = "live"
  BY <1>7 DEF MergeInv, Live
<1> QED
  BY <1>5, <1>6, <1>7, <1>8, <1>9, OthersRely

LEMMA DeleteMerge ==
    ASSUME TypeOK, MergeInv, NEW s \in Session, NEW vs \in (SUBSET Vendor) \ {{}}, Delete(s, vs)
    PROVE  MergeInv'
<1>1. Finish(s, vs) /\ vs # {}
  BY DEF Delete
<1>2. \A v \in Live : row'[v].status = "live" \/ \A t \in Session \ {s} : v \notin MovingTo(t)
  BY DEF Delete, Deleted, MayDelete, Live
<1>3. ASSUME NEW d \in Dependent, owner'[d] \in Vendor PROVE row'[owner'[d]].status = "live"
  <2>1. None \notin Vendor
    BY DirectoryAssumption
  <2>2. owner'[d] = owner[d] /\ owner[d] \notin vs /\ owner[d] \in Live
    BY <1>3, <2>1 DEF Delete, MergeInv
  <2> QED
    BY <2>2 DEF Delete, Deleted, Live
<1> QED
  BY <1>1, <1>2, <1>3, CommitMerge

LEMMA StartMerge ==
    ASSUME TypeOK, MergeInv, NEW s \in Session, Start(s)
    PROVE  MergeInv'
<1>1. ASSUME NEW n \in Name, NEW b \in Bank, CreateFind(s, n, b) PROVE MergeInv'
  <2>1. Proceeds(s) /\ pc'[s] \notin {"relink", "purge"}
    BY <1>1 DEF CreateFind, Read, Goto, Proceeds, TypeOK
  <2> QED
    BY <2>1, ReadMerge
<1>2. ASSUME NEW n \in Name, NEW b \in Bank, NEW d \in Dependent, UploadMatch(s, n, b, d) PROVE MergeInv'
  <2>1. Proceeds(s) /\ pc'[s] \notin {"relink", "purge"}
    BY <1>2 DEF UploadMatch, Read, Goto, Proceeds, TypeOK
  <2> QED
    BY <2>1, ReadMerge
<1>3. ASSUME NEW v \in Vendor, NEW form \in Edits, EditRead(s, v, form.name, form.active) PROVE MergeInv'
  <2>1. Proceeds(s) /\ pc'[s] \notin {"relink", "purge"}
    BY <1>3 DEF EditRead, Read, Goto, Proceeds, TypeOK
  <2> QED
    BY <2>1, ReadMerge
<1>4. ASSUME NEW sheet \in Sheets, ImportRead(s, sheet) PROVE MergeInv'
  <2>1. Proceeds(s) /\ pc'[s] \notin {"relink", "purge"}
    BY <1>4 DEF ImportRead, Read, Goto, Proceeds, TypeOK
  <2> QED
    BY <2>1, ReadMerge
<1>5. ASSUME NEW sheet \in Sheets, NEW pick \in {"first", "last"}, BulkPreview(s, sheet, pick) PROVE MergeInv'
  <2>1. Proceeds(s) /\ pc'[s] \notin {"relink", "purge"}
    BY <1>5 DEF BulkPreview, Read, Goto, Proceeds, TypeOK
  <2> QED
    BY <2>1, ReadMerge
<1>8. ASSUME SeedRead(s) PROVE MergeInv'
  <2>1. Proceeds(s) /\ pc'[s] \notin {"relink", "purge"}
    BY <1>8 DEF SeedRead, SeedNext, Read, Goto, Proceeds, TypeOK
  <2> QED
    BY <2>1, ReadMerge
<1>6. ASSUME MergeRead(s) PROVE MergeInv'
  BY <1>6, MergeReadMerge
<1>7. ASSUME NEW vs \in (SUBSET Vendor) \ {{}}, Delete(s, vs) PROVE MergeInv'
  BY <1>7, DeleteMerge
<1> QED
  BY <1>1, <1>2, <1>3, <1>4, <1>5, <1>6, <1>7, <1>8 DEF Start

LEMMA ImportCommitMerge ==
    ASSUME TypeOK, MergeInv, NEW s \in Session, ImportCommit(s), ~Fail(s)
    PROVE  MergeInv'
<1>1. PICK us : us = loc[s].updates
  OBVIOUS
<1>2. PICK rows : rows = loc[s].adds
  OBVIOUS
<1>3. PICK targets : targets = {u.target : u \in us}
  OBVIOUS
<1>4. PICK place \in Places(rows) :
         /\ row' = [v \in Vendor |-> IF v \in targets THEN Updated(v, us) ELSE Inserted(place, "import")[v]]
         /\ Finish(s, DOMAIN place \cup targets) /\ owner' = owner
  BY <1>1, <1>2, <1>3 DEF ImportCommit
<1>5. PICK written : written = DOMAIN place \cup targets
  OBVIOUS
<1>6. Finish(s, written)
  BY <1>4, <1>5
<1>7. ASSUME written = {} PROVE row' = row
  <2>1. \A v \in Vendor : row'[v] = row[v]
    BY <1>4, <1>5, <1>7 DEF Inserted
  <2> QED
    BY <1>4, <2>1 DEF TypeOK
<1>8. ASSUME NEW v \in Live PROVE row'[v].status = "live"
  <2>1. v \in Vendor /\ row[v] \in Row /\ row[v].status = "live"
    BY DEF Live, TypeOK
  <2>2. Updated(v, us).status = row[v].status
    BY <2>1 DEF Updated, Row
  <2> QED
    BY <1>4, <2>1, <2>2, InsertedStay
<1> QED
  BY <1>4, <1>6, <1>7, <1>8, KeepingMerge

LEMMA UploadCommitMerge ==
    ASSUME TypeOK, MergeInv, NEW s \in Session, UploadCommit(s), ~Fail(s)
    PROVE  MergeInv'
<1>1. PICK l : l = loc[s]
  OBVIOUS
<1>2. PICK rows : rows = IF l.target = None THEN {l.new} ELSE {}
  OBVIOUS
<1>3. PICK place \in Places(rows) :
         /\ l.target = None \/ l.target \in Live
         /\ row' = Inserted(place, "upload")
         /\ Finish(s, DOMAIN place \cup {l.dependent})
         /\ \E v \in IF l.target = None THEN DOMAIN place ELSE {l.target} :
               owner' = [owner EXCEPT ![l.dependent] = v]
  BY <1>1, <1>2 DEF UploadCommit
<1>4. PICK v : /\ v \in IF l.target = None THEN DOMAIN place ELSE {l.target}
               /\ owner' = [owner EXCEPT ![l.dependent] = v]
  BY <1>3
<1>5. PICK written : written = DOMAIN place \cup {l.dependent}
  OBVIOUS
<1>6. \A w \in Live : row'[w].status = "live"
  BY <1>3, InsertedStay
<1>7. row'[v].status = "live"
  <2>1. CASE v \in DOMAIN place
    <3>1. row'[v] = NewRow(place[v].name, place[v].bank, "upload")
      BY <1>3, <2>1, PlacesAre DEF Inserted
    <3> QED
      BY <3>1 DEF NewRow
  <2>2. CASE v \notin DOMAIN place
    BY <1>3, <1>4, <1>6, <2>2
  <2> QED
    BY <2>1, <2>2
<1>8. \A d \in Dependent : owner'[d] = v \/ owner'[d] = owner[d]
  BY <1>4 DEF TypeOK
<1>9. \A d \in Dependent : owner'[d] \in Vendor => row'[owner'[d]].status = "live"
  BY <1>6, <1>7, <1>8 DEF MergeInv
<1>10. Finish(s, written) /\ written # {}
  BY <1>3, <1>5
<1> QED
  BY <1>6, <1>9, <1>10, CommitMerge

\* The vendors dependents move to are there, and their own duplicates.
LEMMA MergeRelinkMerge ==
    ASSUME TypeOK, MergeInv, NEW s \in Session, MergeRelink(s), ~Fail(s)
    PROVE  MergeInv'
<1>1. loc[s] \in Loc /\ pc[s] = "relink"
  BY DEF TypeOK, MergeRelink
<1>2. Read(s, "purge", [loc[s] EXCEPT !.to = Moved(s)])
  BY DEF MergeRelink
<1>3. Proceeds(s) /\ pc'[s] = "purge" /\ loc'[s] = [loc[s] EXCEPT !.to = Moved(s)]
  BY <1>2 DEF Read, Goto, Proceeds, TypeOK
<1>4. UNCHANGED <<row, owner>> /\ missed' = missed
  BY <1>3 DEF Proceeds
<1>5. loc'[s].primary = loc[s].primary /\ loc'[s].to = Moved(s)
  BY <1>1, <1>3 DEF Loc
<1>6. Duplicates(s)' = Duplicates(s)
  BY <1>5 DEF Duplicates
<1>7. Moved(s)' = Moved(s)
  BY <1>4, <1>5, <1>6 DEF Moved
<1>8. /\ Duplicates(s) # {}
      /\ \A v \in Vendor : loc[s].primary[loc[s].primary[v]] = loc[s].primary[v]
      /\ missed[s] = {} => Settling(loc[s].primary)
  BY <1>1 DEF MergeInv, Relies
<1>9. ASSUME NEW v \in MovingTo(s)' PROVE v \in Live' \ Duplicates(s)'
  <2>1. PICK d \in Dependent : v = Moved(s)[d] /\ v # None
    BY <1>5 DEF MovingTo
  <2>2. v \in Live'
    BY <1>4, <2>1 DEF MergeRelink, Fail, Live
  <2>3. owner[d] \in Vendor /\ v = loc[s].primary[owner[d]]
    BY <2>1 DEF Moved, Duplicates
  <2>4. v \notin Duplicates(s)
    BY <1>8, <2>3 DEF Duplicates
  <2> QED
    BY <1>6, <2>2, <2>4
<1>10. missed'[s] = {} => Settling(loc[s].primary)'
  BY <1>4, <1>5, <1>8 DEF Settling, Live, Linked, KeyAt
<1>11. Relies(s)'
  BY <1>3, <1>5, <1>6, <1>7, <1>8, <1>9, <1>10 DEF Relies
<1>12. \A t \in Session \ {s} : pc'[t] = pc[t] /\ loc'[t] = loc[t] /\ missed'[t] = missed[t]
  BY <1>3 DEF TypeOK, Proceeds
<1>13. \A v \in Live : row'[v].status = "live"
  BY <1>4 DEF Live
<1>14. \A d \in Dependent : owner'[d] \in Vendor => row'[owner'[d]].status = "live"
  BY <1>4 DEF MergeInv, Live
<1> QED
  BY <1>4, <1>11, <1>12, <1>13, <1>14, OthersRely

\* Duplicates go, and what referred to them moves or is orphaned.
LEMMA MergeCommitMerge ==
    ASSUME TypeOK, MergeInv, NEW s \in Session, MergeCommit(s)
    PROVE  MergeInv'
<1>1. pc[s] = "purge" /\ MayDelete(s, Duplicates(s)) /\ row' = Deleted(Duplicates(s))
  BY DEF MergeCommit
<1>2. Duplicates(s) # {} /\ MovingTo(s) \subseteq Live \ Duplicates(s)
  BY <1>1 DEF MergeInv, Relies
<1>3. PICK vs : vs = Duplicates(s)
  OBVIOUS
<1>4. Finish(s, vs) /\ vs # {}
  BY <1>2, <1>3 DEF MergeCommit
<1>5. \A v \in Live \ vs : row'[v].status = "live"
  BY <1>1, <1>3 DEF Deleted, Live
<1>6. \A v \in Live : row'[v].status = "live" \/ \A t \in Session \ {s} : v \notin MovingTo(t)
  BY <1>1, <1>3, <1>5 DEF MayDelete
<1>7. ASSUME NEW d \in Dependent, owner'[d] \in Vendor PROVE row'[owner'[d]].status = "live"
  <2>1. None \notin Vendor
    BY DirectoryAssumption
  <2>2. CASE loc[s].to[d] # None
    <3>1. owner'[d] = loc[s].to[d] /\ loc[s].to[d] \in MovingTo(s)
      BY <2>2 DEF MergeCommit, MovingTo
    <3> QED
      BY <1>2, <1>3, <1>5, <3>1
  <2>3. CASE loc[s].to[d] = None /\ owner[d] \in Duplicates(s)
    BY <1>7, <2>1, <2>3 DEF MergeCommit
  <2>4. CASE loc[s].to[d] = None /\ owner[d] \notin Duplicates(s)
    <3>1. owner'[d] = owner[d]
      BY <2>4, Zenon DEF MergeCommit
    <3> QED
      BY <1>3, <1>5, <1>7, <2>4, <3>1 DEF MergeInv
  <2> QED
    BY <2>2, <2>3, <2>4
<1> QED
  BY <1>4, <1>6, <1>7, CommitMerge

LEMMA StepMerge ==
    ASSUME TypeOK, MergeInv, NEW s \in Session, Step(s), ~Fail(s)
    PROVE  MergeInv'
<1>1. ASSUME CreateByBank(s) \/ ConfirmRead(s) \/ SeedLookup(s) PROVE MergeInv'
  <2>1. Proceeds(s) /\ pc'[s] \notin {"relink", "purge"}
    BY <1>1 DEF CreateByBank, ConfirmRead, SeedLookup, SeedNext, Read, Goto, Proceeds, TypeOK
  <2> QED
    BY <2>1, ReadMerge
<1>2. ASSUME UploadLookup(s) PROVE MergeInv'
  <2>1. Proceeds(s) /\ pc'[s] = "attach"
    <3> DEFINE filed == {v \in Live : row[v].name = loc[s].new.name}
    <3>1. CASE filed = {}
      <4>1. Cardinality(filed) # 1
        BY <3>1, FS_EmptySet
      <4>2. Read(s, "attach", loc[s])
        BY <1>2, <3>1, <4>1, Zenon DEF UploadLookup
      <4> QED
        BY <4>2 DEF Read, Goto, Proceeds, TypeOK
    <3>2. CASE filed # {}
      <4>1. Read(s, "attach", [loc[s] EXCEPT !.target = Min(filed)])
        BY <1>2, <3>2, Zenon DEF UploadLookup
      <4> QED
        BY <4>1 DEF Read, Goto, Proceeds, TypeOK
    <3> QED
      BY <3>1, <3>2
  <2> QED
    BY <2>1, ReadMerge
<1>3. ASSUME CreateInsert(s) PROVE MergeInv'
  <2>1. PICK r : r = loc[s].new
    OBVIOUS
  <2>2. PICK place \in Places({r}) : row' = Inserted(place, "form") /\ Finish(s, DOMAIN place) /\ owner' = owner
    BY <1>3, <2>1 DEF CreateInsert
  <2>3. DOMAIN place # {}
    BY <2>2 DEF Places, Range
  <2> QED
    BY <2>2, <2>3, InsertedStay, KeepingMerge
<1>9. ASSUME SeedCommit(s) PROVE MergeInv'
  <2>1. PICK rows : rows = loc[s].adds
    OBVIOUS
  <2>2. PICK place \in Places(rows) : row' = Inserted(place, "seed") /\ Finish(s, DOMAIN place) /\ owner' = owner
    BY <1>9, <2>1 DEF SeedCommit
  <2>3. DOMAIN place = {} => row' = row
    BY <2>2 DEF Inserted, TypeOK
  <2> QED
    BY <2>2, <2>3, InsertedStay, KeepingMerge
<1>4. ASSUME CreateApply(s) \/ EditCommit(s) PROVE MergeInv'
  <2>1. PICK t \in Live : /\ t = loc[s].target /\ Finish(s, {t}) /\ owner' = owner
                          /\ row' = [row EXCEPT ![t] = Applied(loc[s])] \/ row' = [row EXCEPT ![t] = Edited(loc[s])]
    BY <1>4 DEF CreateApply, EditCommit
  <2>2. row[t] \in Row /\ t \in Vendor
    BY <2>1 DEF TypeOK, Live
  <2>3. Applied(loc[s]).status = row[t].status /\ Edited(loc[s]).status = row[t].status
    BY <2>1, <2>2 DEF Applied, Edited, Row
  <2>4. \A v \in Live : row'[v].status = "live"
    BY <2>1, <2>2, <2>3 DEF TypeOK, Live
  <2> QED
    BY <2>1, <2>4, KeepingMerge
<1>5. ASSUME ImportCommit(s) PROVE MergeInv'
  BY <1>5, ImportCommitMerge
<1>6. ASSUME UploadCommit(s) PROVE MergeInv'
  BY <1>6, UploadCommitMerge
<1>7. ASSUME MergeRelink(s) PROVE MergeInv'
  BY <1>7, MergeRelinkMerge
<1>8. ASSUME MergeCommit(s) PROVE MergeInv'
  BY <1>8, MergeCommitMerge
<1> QED
  BY <1>1, <1>2, <1>3, <1>4, <1>5, <1>6, <1>7, <1>8, <1>9 DEF Step

-----------------------------------------------------------------------------
(* The theorems.                                                            *)

LEMMA DirectoryInit == Init => DirectoryInv
<1> SUFFICES ASSUME Init PROVE DirectoryInv
  OBVIOUS
<1>1. TypeOK
  BY Blanks DEF Init, TypeOK, Label, Written
<1>2. \A v \in Vendor : row[v].status = "absent"
  BY DEF Init, NoRow
<1>3. \A s \in Session : pc[s] = "idle"
  BY DEF Init
<1> QED
  BY <1>1, <1>2, <1>3 DEF DirectoryInv, Explained, TwinsExplained, Live, Plain, Watched, Claims, Distinct

LEMMA DirectoryStep == ASSUME DirectoryInv, [Next]_vars PROVE DirectoryInv'
<1>1. CASE UNCHANGED vars
  <2>1. TypeOK'
    BY <1>1 DEF DirectoryInv, TypeOK, vars
  <2>2. Explained' /\ \A v \in Vendor : Plain(v)' => row'[v].active
    BY <1>1 DEF DirectoryInv, Explained, TwinsExplained, Live, KeyAt, Plain, vars
  <2>3. ASSUME NEW s \in Session PROVE Watched(s)' /\ Distinct(pc[s], loc[s])'
    <3>1. Watched(s) /\ Distinct(pc[s], loc[s])
      BY DEF DirectoryInv
    <3>2. pc' = pc /\ loc' = loc /\ row' = row /\ missed' = missed
      BY <1>1 DEF vars
    <3> QED
      BY <3>1, <3>2 DEF Watched, Plain, Live
  <2> QED
    BY <2>1, <2>2, <2>3 DEF DirectoryInv
<1>2. ASSUME NEW s \in Session, Start(s) PROVE DirectoryInv'
  <2>1. ASSUME NEW v \in Vendor, NEW form \in Edits, EditRead(s, v, form.name, form.active)
        PROVE  DirectoryInv'
    <3>1. form.name \in Name /\ form.active \in BOOLEAN
      BY DirectoryAssumption
    <3> QED
      BY <2>1, <3>1, EditReadInv
  <2> QED
    BY <1>2, <2>1, CreateFindInv, UploadMatchInv, ImportReadInv, BulkPreviewInv, SeedReadInv,
       MergeReadInv, DeleteInv DEF Start
<1>3. ASSUME NEW s \in Session, Step(s) PROVE DirectoryInv'
  <2>1. CASE Fail(s)
    BY <2>1, FailInv
  <2>2. CASE ~Fail(s)
    BY <1>3, <2>2, CreateByBankInv, CreateInsertInv, CreateApplyInv, EditCommitInv, ConfirmReadInv,
       ImportCommitInv, SeedLookupInv, SeedCommitInv, UploadLookupInv, UploadCommitInv, MergeRelinkInv,
       MergeCommitInv DEF Step
  <2> QED
    BY <2>1, <2>2
<1>4. ASSUME NEW s \in Session, Abort(s) PROVE DirectoryInv'
  BY <1>4, FailInv DEF Abort
<1> QED
  BY <1>1, <1>2, <1>3, <1>4 DEF Next

LEMMA MergeInit == Init => MergeInv
<1> SUFFICES ASSUME Init PROVE MergeInv
  OBVIOUS
<1>1. Absent \notin Vendor
  BY DirectoryAssumption
<1> QED
  BY <1>1 DEF Init, MergeInv, Relies

LEMMA MergeStep == ASSUME TypeOK, MergeInv, [Next]_vars PROVE MergeInv'
<1>1. CASE UNCHANGED vars
  BY <1>1 DEF MergeInv, Relies, Settling, Duplicates, MovingTo, Moved, Live, Linked, KeyAt, vars
<1>2. ASSUME NEW s \in Session, Start(s) PROVE MergeInv'
  BY <1>2, StartMerge
<1>3. ASSUME NEW s \in Session, Step(s) PROVE MergeInv'
  BY <1>3, FailMerge, StepMerge
<1>4. ASSUME NEW s \in Session, Abort(s) PROVE MergeInv'
  BY <1>4, FailMerge DEF Abort
<1> QED
  BY <1>1, <1>2, <1>3, <1>4 DEF Next

\* A step of one session leaves the others where they are.
LEMMA OthersStay ==
    ASSUME TypeOK, NEW s \in Session, NEW t \in Session \ {s}, Start(t) \/ Step(t) \/ Abort(t)
    PROVE  pc'[s] = pc[s]
<1>1. ASSUME NEW at, NEW l, Read(t, at, l) PROVE pc'[s] = pc[s]
  BY <1>1 DEF Read, Goto, TypeOK
<1>2. ASSUME NEW written, Finish(t, written) PROVE pc'[s] = pc[s]
  BY <1>2 DEF Finish, TypeOK
<1>3. ASSUME Start(t) PROVE pc'[s] = pc[s]
  <2>1. ASSUME NEW n \in Name, NEW b \in Bank, CreateFind(t, n, b) PROVE pc'[s] = pc[s]
    BY <1>1, <2>1 DEF CreateFind
  <2>2. ASSUME NEW n \in Name, NEW b \in Bank, NEW d \in Dependent, UploadMatch(t, n, b, d) PROVE pc'[s] = pc[s]
    BY <1>1, <2>2 DEF UploadMatch
  <2>3. ASSUME NEW v \in Vendor, NEW form \in Edits, EditRead(t, v, form.name, form.active)
        PROVE  pc'[s] = pc[s]
    BY <1>1, <2>3 DEF EditRead
  <2>4. ASSUME NEW sheet \in Sheets, ImportRead(t, sheet) PROVE pc'[s] = pc[s]
    BY <1>1, <2>4 DEF ImportRead
  <2>5. ASSUME NEW sheet \in Sheets, NEW pick \in {"first", "last"}, BulkPreview(t, sheet, pick)
        PROVE  pc'[s] = pc[s]
    BY <1>1, <2>5 DEF BulkPreview
  <2>6. ASSUME SeedRead(t) \/ MergeRead(t) PROVE pc'[s] = pc[s]
    BY <1>1, <2>6 DEF SeedRead, SeedNext, MergeRead
  <2>7. ASSUME NEW vs \in (SUBSET Vendor) \ {{}}, Delete(t, vs) PROVE pc'[s] = pc[s]
    BY <1>2, <2>7 DEF Delete
  <2> QED
    BY <1>3, <2>1, <2>2, <2>3, <2>4, <2>5, <2>6, <2>7 DEF Start
<1>4. ASSUME Fail(t) PROVE pc'[s] = pc[s]
  BY <1>2, <1>4 DEF Fail
<1>5. ASSUME Step(t) PROVE pc'[s] = pc[s]
  <2>1. ASSUME CreateByBank(t) \/ ConfirmRead(t) \/ SeedLookup(t) \/ MergeRelink(t) PROVE pc'[s] = pc[s]
    BY <1>1, <1>4, <2>1 DEF CreateByBank, ConfirmRead, SeedLookup, SeedNext, MergeRelink
  <2>2. ASSUME CreateInsert(t) \/ CreateApply(t) \/ EditCommit(t) PROVE pc'[s] = pc[s]
    BY <1>2, <1>4, <2>2 DEF CreateInsert, CreateApply, EditCommit
  <2>3. ASSUME ImportCommit(t) \/ SeedCommit(t) \/ UploadCommit(t) \/ MergeCommit(t) PROVE pc'[s] = pc[s]
    BY <1>2, <1>4, <2>3 DEF ImportCommit, SeedCommit, UploadCommit, MergeCommit
  <2>4. ASSUME UploadLookup(t) PROVE pc'[s] = pc[s]
    <3> DEFINE filed == {v \in Live : row[v].name = loc[t].new.name}
    <3>1. CASE filed = {}
      <4>1. Cardinality(filed) # 1
        BY <3>1, FS_EmptySet
      <4> QED
        BY <1>1, <2>4, <3>1, <4>1, Zenon DEF UploadLookup
    <3>2. CASE filed # {} /\ Cardinality(filed) = 1
      BY <1>1, <2>4, <3>2, Zenon DEF UploadLookup
    <3>3. CASE filed # {} /\ Cardinality(filed) # 1
      BY <1>4, <2>4, <3>3, Zenon DEF UploadLookup
    <3> QED
      BY <3>1, <3>2, <3>3
  <2> QED
    BY <1>5, <2>1, <2>2, <2>3, <2>4 DEF Step
<1> QED
  BY <1>3, <1>4, <1>5 DEF Abort

\* The step that leaves "purge" with the table changed is the commit.
LEMMA PurgeEnds ==
    ASSUME TypeOK, NEW s \in Session, pc[s] = "purge", pc'[s] = "idle", row' # row, [Next]_vars
    PROVE  MergeCommit(s)
<1>1. PICK t \in Session : Start(t) \/ Step(t) \/ Abort(t)
  BY DEF Next, vars
<1>2. t = s
  BY <1>1, OthersStay
<1>3. ~Start(s)
  BY DEF Start, Starting, CreateFind, UploadMatch, EditRead, ImportRead, BulkPreview, SeedRead, MergeRead,
         Delete
<1>4. ~Abort(s)
  BY DEF Abort, Fail
<1> QED
  BY <1>1, <1>2, <1>3, <1>4
     DEF Step, CreateByBank, CreateInsert, CreateApply, EditCommit, ConfirmRead, ImportCommit,
         SeedLookup, SeedCommit, UploadLookup, UploadCommit, MergeRelink

\* A merge that nothing interrupts settles the directory.
LEMMA SettlesStep ==
    ASSUME TypeOK, MergeInv, NEW s \in Session, MergeCommit(s), missed[s] = {}
    PROVE  /\ \A v, w \in Live' : v # w => ~Linked(v, w)'
           /\ \A d \in Dependent : owner[d] \in Vendor => owner'[d] \in Live'
<1>1. /\ Settling(loc[s].primary) /\ loc[s].to = Moved(s)
      /\ MovingTo(s) \subseteq Live \ Duplicates(s)
  BY DEF MergeCommit, MergeInv, Relies
<1>2. row' = Deleted(Duplicates(s))
  BY DEF MergeCommit
<1>3. ASSUME NEW v \in Live' PROVE v \in Live /\ row'[v] = row[v] /\ loc[s].primary[v] = v
  BY <1>2 DEF Live, Deleted, Duplicates, Gone, NoRow
<1>4. ASSUME NEW v \in Live' , NEW w \in Live', Linked(v, w)' PROVE v = w
  <2>1. Linked(v, w)
    BY <1>3, <1>4 DEF Linked, KeyAt
  <2> QED
    BY <1>1, <1>3, <2>1 DEF Settling
<1>5. \A v \in Live \ Duplicates(s) : v \in Live'
  BY <1>2 DEF Live, Deleted
<1>6. ASSUME NEW d \in Dependent, owner[d] \in Vendor PROVE owner'[d] \in Live'
  <2>1. owner[d] \in Live
    BY <1>6 DEF MergeInv
  <2>2. loc[s].to[d] = IF owner[d] \in Duplicates(s) THEN loc[s].primary[owner[d]] ELSE None
    BY <1>1 DEF Moved
  <2>3. None \notin Vendor /\ Live \subseteq Vendor
    BY DirectoryAssumption DEF Live
  <2>4. CASE owner[d] \in Duplicates(s)
    <3>1. loc[s].to[d] \in Vendor
      BY <1>1, <2>1, <2>2, <2>3, <2>4 DEF Settling
    <3>2. owner'[d] = loc[s].to[d] /\ loc[s].to[d] \in MovingTo(s)
      BY <2>3, <3>1 DEF MergeCommit, MovingTo
    <3> QED
      BY <1>1, <1>5, <3>2
  <2>5. CASE owner[d] \notin Duplicates(s)
    <3>1. loc[s].to[d] = None
      BY <2>2, <2>5
    <3>2. owner'[d] = owner[d]
      BY <2>5, <3>1, Zenon DEF MergeCommit
    <3> QED
      BY <1>5, <2>1, <2>5, <3>2
  <2> QED
    BY <2>4, <2>5
<1> QED
  BY <1>4, <1>6

\* Two vendors bear one name only if the edit form was used on one of them, the
\* requests that named them ran at the same time, or one of those requests looks
\* for a form of the name that tells the two apart: the letters SQL keeps
\* (create_vendor), the spelling (seed_sample_vendors), the words (an upload).
\* This is so whatever requests run, on however many vendors.  Supposes that
\* cutting a name to 22 characters, as it is filed, takes no word from it.
THEOREM TwinsExplainedHolds == ShortNames => (Spec => []TwinsExplained)
<1> SUFFICES ASSUME ShortNames PROVE Spec => []TwinsExplained
  OBVIOUS
<1>1. DirectoryInv => TwinsExplained
  BY DEF DirectoryInv, Explained
<1> QED
  BY <1>1, DirectoryInit, DirectoryStep, PTL DEF Spec

\* Every column keeps its type, and a request in flight holds what its
\* next statement needs.
THEOREM TypeCorrect == Spec => []TypeOK
<1>1. DirectoryInv => TypeOK
  BY DEF DirectoryInv
<1> QED
  BY <1>1, DirectoryInit, DirectoryStep, PTL DEF Spec

\* A payment refers to a vendor that is there: the foreign key of payments,
\* change requests and remittances (models/, ON DELETE SET NULL) never fails,
\* merges, deletions and uploads in any order.
THEOREM OwnersLiveHolds == Spec => [](\A d \in Dependent : owner[d] \in Vendor => owner[d] \in Live)
<1>1. MergeInv => \A d \in Dependent : owner[d] \in Vendor => owner[d] \in Live
  BY DEF MergeInv
<1>2. DirectoryInv => TypeOK
  BY DEF DirectoryInv
<1> QED
  BY <1>1, <1>2, DirectoryInit, DirectoryStep, MergeInit, MergeStep, PTL DEF Spec

\* The union-find of deduplicate_vendors puts two vendors into one group
\* exactly when a chain of shared names and accounts connects them.
THEOREM GroupsAreComponentsHolds == Spec => []GroupsAreComponents
<1> QED
  BY GroupsHold, PTL

\* A merge during which nobody else commits leaves no two vendors with one name
\* or one account, and no payment without the vendor it had or the one that was
\* kept for it, whatever ran before.
THEOREM MergeSettlesHolds == Spec => MergeSettles
<1> DEFINE Settles == \A s \in Session :
                         pc[s] = "purge" /\ pc'[s] = "idle" /\ row' # row /\ missed[s] = {} =>
                           /\ \A v, w \in Live' : v # w => ~Linked(v, w)'
                           /\ \A d \in Dependent : owner[d] \in Vendor => owner'[d] \in Live'
<1>1. ASSUME TypeOK, MergeInv, [Next]_vars PROVE Settles
  BY <1>1, PurgeEnds, SettlesStep
<1>2. DirectoryInv => TypeOK
  BY DEF DirectoryInv
<1>3. TypeOK /\ MergeInv /\ [Next]_vars => [Settles]_vars
  BY <1>1
<1> QED
  BY <1>2, <1>3, DirectoryInit, DirectoryStep, MergeInit, MergeStep, PTL DEF Spec, MergeSettles
=============================================================================
