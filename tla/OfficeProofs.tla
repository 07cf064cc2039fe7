----------------------------- MODULE OfficeProofs -----------------------------
(***************************************************************************)
(* Four parts of the office that share no state, each by itself: the       *)
(* accounts, the rotation of the encryption key, the advice by mail, the   *)
(* limit on failed sign-ins.                                               *)
(***************************************************************************)
EXTENDS RemittanceDispatch, Accounts, KeyRotation, LoginThrottle, SequenceTheorems, Sums

-----------------------------------------------------------------------------
(* Accounts.  However many requests and scripts change accounts at once,   *)
(* and whoever asks: an administrator who can sign in is left, unless one  *)
(* that had just been deactivated deactivated another.                     *)

Change == [at : {"idle", "commit"}, by : Person \cup {Script}, of : Person \cup {Script},
           row : Row, to : Row]

AccountsType ==
    /\ users \in [Person -> Row]
    /\ tokens \subseteq Person
    /\ change \in [Session -> Change]
    /\ raced \in BOOLEAN

\* What a change in flight was made from still holds when it commits: its row
\* exists, its administrator keeps the role; and only an administrator
\* deactivates, and another than himself.
Sound(r) ==
    r.at = "commit" =>
        /\ r.of \in Person
        /\ r.to # Absent
        /\ r.row = Absent => r.to.active
        /\ r.row # Absent => Exists(r.of) /\ r.to.role \in {r.row.role, "admin"}
        /\ r.by \in Person => users[r.by].role = "admin"
        /\ r.row.active /\ ~r.to.active => r.by \in Person /\ r.by # r.of

AccountsInv == AccountsType /\ AdminRemains /\ \A s \in Session : Sound(change[s])

\* A row other than Absent has a role, and Absent is not active.
LEMMA RowRole ==
    /\ Absent \in Row /\ Absent.active = FALSE /\ Absent.role = "none"
    /\ \A x \in Row : x # Absent <=> x.role \in {"admin", "user"}
    /\ \A x \in Row : x.active \in BOOLEAN
<1>1. Absent \in Row /\ Absent.active = FALSE /\ Absent.role = "none"
  BY DEF Row, Absent
<1>2. ASSUME NEW x \in Row
      PROVE  (x # Absent <=> x.role \in {"admin", "user"}) /\ x.active \in BOOLEAN
  <2>1. CASE x = Absent
    BY <2>1, <1>1
  <2>2. CASE x \in [role : {"admin", "user"}, active : BOOLEAN, password : Password]
    <3>1. x.role \in {"admin", "user"} /\ x.active \in BOOLEAN
      BY <2>2
    <3> QED
      BY <3>1, <1>1
  <2> QED
    BY <2>1, <2>2 DEF Row
<1> QED
  BY <1>1, <1>2

LEMMA AccountRow ==
    ASSUME NEW role \in {"admin", "user"}, NEW w \in Password
    PROVE  /\ Account(role, w) \in Row /\ Account(role, w) # Absent
           /\ Account(role, w).active /\ Account(role, w).role = role
BY DEF Account, Row, Absent

LEMMA AccountsInitInv == AccountsInit => AccountsInv
<1> SUFFICES ASSUME AccountsInit PROVE AccountsInv
  OBVIOUS
<1>1. PICK p \in Person, w \in Password :
         users = [q \in Person |-> IF q = p THEN Account("admin", w) ELSE Absent]
  BY DEF AccountsInit
<1>2. users \in [Person -> Row] /\ users[p].active /\ users[p].role = "admin"
  BY <1>1, RowRole, AccountRow
<1>3. NoChange \in Change /\ NoChange.at = "idle"
  BY RowRole DEF NoChange, Change
<1>4. AccountsType
  BY <1>2, <1>3 DEF AccountsInit, AccountsType
<1>5. \A s \in Session : Sound(change[s])
  BY <1>3 DEF AccountsInit, Sound
<1> QED
  BY <1>2, <1>4, <1>5 DEF AccountsInv, AdminRemains

\* The reads: a sound change may begin.
LEMMA BeginInv ==
    ASSUME AccountsInv, NEW s \in Session, NEW by \in Person \cup {Script}, NEW of \in Person, NEW to \in Row,
           Begin(s, by, of, to),
           to # Absent,
           users[of] = Absent => to.active,
           users[of] # Absent => to.role \in {users[of].role, "admin"},
           by \in Person => users[by].role = "admin",
           users[of].active /\ ~to.active => by \in Person /\ by # of
    PROVE  AccountsInv'
<1> DEFINE r == [at |-> "commit", by |-> by, of |-> of, row |-> users[of], to |-> to]
<1>1. users[of] \in Row
  BY DEF AccountsInv, AccountsType
<1>2. r \in Change
  BY <1>1 DEF Change
<1>3. change' = [change EXCEPT ![s] = r] /\ UNCHANGED <<users, tokens, raced>>
  BY DEF Begin
<1>4. AccountsType'
  BY <1>2, <1>3 DEF AccountsInv, AccountsType
<1>5. Sound(r)'
  BY <1>3 DEF Sound, Exists
<1>6. \A t \in Session : Sound(change[t])'
  <2> SUFFICES ASSUME NEW t \in Session PROVE Sound(change[t])'
    OBVIOUS
  <2>1. CASE t = s
    BY <2>1, <1>3, <1>5 DEF AccountsInv, AccountsType
  <2>2. CASE t # s
    <3>1. change'[t] = change[t] /\ Sound(change[t])
      BY <2>2, <1>3 DEF AccountsInv, AccountsType
    <3> QED
      BY <3>1, <1>3 DEF Sound, Exists
  <2> QED
    BY <2>1, <2>2
<1> QED
  BY <1>3, <1>4, <1>6 DEF AccountsInv, AdminRemains

LEMMA CreateInv ==
    ASSUME AccountsInv, NEW s \in Session, NEW by \in Person \cup {Script}, NEW of \in Person,
           NEW role \in {"admin", "user"}, NEW w \in Password, CreateRead(s, by, of, role, w)
    PROVE  AccountsInv'
<1>1. users[of] = Absent /\ Begin(s, by, of, Account(role, w))
  BY DEF CreateRead, Exists
<1>2. by \in Person => users[by].role = "admin"
  BY AccountsAssumption DEF CreateRead, Admin
<1>3. ~users[of].active
  BY <1>1, RowRole
<1> QED
  BY <1>1, <1>2, <1>3, AccountRow, BeginInv

LEMMA StatusInv ==
    ASSUME AccountsInv, NEW s \in Session, NEW by \in Person, NEW of \in Person, NEW active \in BOOLEAN,
           StatusRead(s, by, of, active)
    PROVE  AccountsInv'
<1> DEFINE to == [users[of] EXCEPT !.active = active]
<1>1. users[of] \in Row /\ users[of] # Absent /\ Begin(s, by, of, to)
  BY DEF StatusRead, MaySet, Exists, AccountsInv, AccountsType
<1>2. to \in Row /\ to.role = users[of].role /\ to.active = active /\ to # Absent
  BY <1>1 DEF Row, Absent
<1>3. users[by].role = "admin" /\ (~active => by # of)
  BY DEF StatusRead, Admin, MaySet
<1> HIDE DEF to
<1> QED
  BY <1>1, <1>2, <1>3, BeginInv

LEMMA ResetInv ==
    ASSUME AccountsInv, NEW s \in Session, NEW by \in Person, NEW of \in Person, NEW w \in Password,
           ResetRead(s, by, of, w)
    PROVE  AccountsInv'
<1> DEFINE to == [users[of] EXCEPT !.password = w]
<1>1. users[of] \in Row /\ users[of] # Absent /\ Begin(s, by, of, to)
  BY DEF ResetRead, Exists, AccountsInv, AccountsType
<1>2. to \in Row /\ to.role = users[of].role /\ to.active = users[of].active /\ to # Absent
  BY <1>1 DEF Row, Absent
<1>3. users[by].role = "admin"
  BY DEF ResetRead, Admin
<1> HIDE DEF to
<1> QED
  BY <1>1, <1>2, <1>3, BeginInv

LEMMA PromoteInv ==
    ASSUME AccountsInv, NEW s \in Session, NEW of \in Person, NEW w \in Password, PromoteRead(s, of, w)
    PROVE  AccountsInv'
<1> DEFINE to == [users[of] EXCEPT !.role = "admin", !.password = w]
<1>1. Script \in Person \cup {Script} /\ Script \notin Person /\ users[of] \in Row
  BY AccountsAssumption DEF AccountsInv, AccountsType
<1>2. CASE users[of] # Absent
  <2>1. Begin(s, Script, of, to)
    BY <1>2 DEF PromoteRead, Exists
  <2>2. to \in Row /\ to.role = "admin" /\ to.active = users[of].active /\ to # Absent
    BY <1>1, <1>2 DEF Row, Absent
  <2> HIDE DEF to
  <2> QED
    BY <1>1, <1>2, <2>1, <2>2, BeginInv
<1>3. CASE users[of] = Absent
  <2>1. Begin(s, Script, of, Account("admin", w))
    BY <1>3 DEF PromoteRead, Exists
  <2>2. ~users[of].active
    BY <1>3, RowRole
  <2> QED
    BY <1>1, <1>3, <2>1, <2>2, AccountRow, BeginInv
<1> QED
  BY <1>2, <1>3

\* The commit.
LEMMA FinishInv ==
    ASSUME AccountsInv, NEW s \in Session, Finish(s)
    PROVE  AccountsInv'
<1> DEFINE r == change[s]
           o == r.of
           new == [role     |-> IF r.to.role = r.row.role THEN users[o].role ELSE r.to.role,
                   active   |-> IF r.to.active = r.row.active THEN users[o].active ELSE r.to.active,
                   password |-> IF r.to.password = r.row.password THEN users[o].password
                                ELSE r.to.password]
<1>1. /\ r \in Change /\ r.at = "commit" /\ Sound(r)
      /\ r.row \in Row /\ r.to \in Row /\ o \in Person /\ users[o] \in Row
  BY DEF Finish, AccountsInv, AccountsType, Change, Sound
<1>2. change' = [change EXCEPT ![s] = NoChange] /\ tokens' = tokens
  BY DEF Finish
<1>3. NoChange \in Change /\ NoChange.at = "idle"
  BY RowRole DEF NoChange, Change
\* Whatever is written, a row that existed does, and an administrator stays one.
<1>4. ASSUME users' \in [Person -> Row],
             raced' \in BOOLEAN,
             AdminRemains',
             \A p \in Person : users[p] # Absent => users'[p] # Absent,
             \A p \in Person : users[p].role = "admin" => users'[p].role = "admin"
      PROVE  AccountsInv'
  <2>1. AccountsType'
    BY <1>2, <1>3, <1>4 DEF AccountsInv, AccountsType
  <2>2. ASSUME NEW t \in Session PROVE Sound(change[t])'
    <3>1. CASE t = s
      BY <3>1, <1>2, <1>3 DEF AccountsInv, AccountsType, Sound
    <3>2. CASE t # s
      <4>1. change'[t] = change[t] /\ Sound(change[t])
        BY <3>2, <1>2 DEF AccountsInv, AccountsType
      <4> QED
        BY <4>1, <1>4 DEF Sound, Exists
    <3> QED
      BY <3>1, <3>2
  <2> QED
    BY <1>4, <2>1, <2>2 DEF AccountsInv
<1>5. CASE r.row = Absent /\ Exists(o)
  <2>1. UNCHANGED <<users, raced>>
    BY <1>5 DEF Finish
  <2> QED
    BY <1>4, <2>1 DEF AccountsInv, AccountsType, AdminRemains
<1>6. CASE ~(r.row = Absent /\ Exists(o))
  <2>1. users' = [users EXCEPT ![o] = new]
    BY <1>6 DEF Finish
  <2>2. raced' = (raced \/ (r.by # Script /\ ~users[r.by].active /\ r.row.active /\ ~r.to.active))
    BY <1>6 DEF Finish
  <2>3. /\ r.row = Absent => users[o] = Absent /\ r.to.active
        /\ r.row # Absent => users[o] # Absent /\ r.to.role \in {r.row.role, "admin"}
        /\ r.to # Absent
    BY <1>1, <1>6 DEF Sound, Exists
  <2>4. /\ new.role \in {"admin", "user"}
        /\ users[o].role = "admin" => new.role = "admin"
    BY <1>1, <2>3, RowRole
  <2>5. new.active \in BOOLEAN
    BY <1>1, RowRole
  <2>6. new.password \in Password
    <3>1. r.to.password \in Password /\ r.row \in Row /\ users[o] \in Row
      BY <1>1, <2>3 DEF Row
    <3>2. CASE r.row = Absent
      <4>1. r.row.password = NoPassword
        BY <3>2 DEF Absent
      <4> QED
        BY <3>1, <4>1, AccountsAssumption
    <3>3. CASE r.row # Absent
      BY <3>1, <3>3, <2>3 DEF Row
    <3> QED
      BY <3>2, <3>3
  <2>7. new \in Row /\ new # Absent
    BY <2>4, <2>5, <2>6 DEF Row, Absent
  <2>8. users'[o] = new /\ \A p \in Person : p # o => users'[p] = users[p]
    BY <1>1, <2>1 DEF AccountsInv, AccountsType
  <2>9. raced' \in BOOLEAN
    BY <2>2
  <2>10. AdminRemains'
    <3> SUFFICES ASSUME ~raced' PROVE \E p \in Person : users'[p].active /\ users'[p].role = "admin"
      BY DEF AdminRemains
    <3>1. ~raced
      BY <2>2
    <3>2. PICK p \in Person : users[p].active /\ users[p].role = "admin"
      BY <3>1 DEF AccountsInv, AdminRemains
    <3>3. CASE p # o
      BY <3>2, <3>3, <2>8
    <3>4. CASE p = o /\ (r.row.active => r.to.active)
      <4>1. r.row # Absent
        BY <3>2, <3>4, <2>3, RowRole
      <4>2. new.active
        BY <3>2, <3>4, <1>1, RowRole
      <4> QED
        BY <3>2, <3>4, <4>2, <2>4, <2>8
    <3>5. CASE p = o /\ r.row.active /\ ~r.to.active
      <4>1. r.by \in Person /\ r.by # o /\ users[r.by].role = "admin"
        BY <3>5, <1>1 DEF Sound
      <4>2. users[r.by].active
        BY <3>5, <4>1, <2>2, AccountsAssumption
      <4> QED
        BY <4>1, <4>2, <2>8
    <3> QED
      BY <3>3, <3>4, <3>5
  <2> HIDE DEF new
  <2>11. users' \in [Person -> Row]
    BY <2>1, <2>7, <1>1 DEF AccountsInv, AccountsType
  <2> QED
    BY <1>4, <2>4, <2>7, <2>8, <2>9, <2>10, <2>11
<1> QED
  BY <1>5, <1>6

LEMMA GiveUpInv ==
    ASSUME AccountsInv, NEW s \in Session, GiveUp(s)
    PROVE  AccountsInv'
<1>1. NoChange \in Change /\ NoChange.at = "idle"
  BY RowRole DEF NoChange, Change
<1>2. change' = [change EXCEPT ![s] = NoChange] /\ UNCHANGED <<users, tokens, raced>>
  BY DEF GiveUp
<1>3. AccountsType'
  BY <1>1, <1>2 DEF AccountsInv, AccountsType
<1>4. ASSUME NEW t \in Session PROVE Sound(change[t])'
  <2>1. CASE t = s
    BY <2>1, <1>1, <1>2 DEF AccountsInv, AccountsType, Sound
  <2>2. CASE t # s
    <3>1. change'[t] = change[t] /\ Sound(change[t])
      BY <2>2, <1>2 DEF AccountsInv, AccountsType
    <3> QED
      BY <3>1, <1>2 DEF Sound, Exists
  <2> QED
    BY <2>1, <2>2
<1> QED
  BY <1>2, <1>3, <1>4 DEF AccountsInv, AdminRemains

\* Nothing changes but the tokens.
LEMMA TokensInv ==
    ASSUME AccountsInv, UNCHANGED <<users, change, raced>>, tokens' \subseteq Person
    PROVE  AccountsInv'
BY DEF AccountsInv, AccountsType, AdminRemains, Sound, Exists

LEMMA AccountsStepInv ==
    ASSUME AccountsInv, [AccountsNext]_accountsVars
    PROVE  AccountsInv'
<1>1. ASSUME NEW p \in Person, Expire(p) PROVE AccountsInv'
  BY <1>1, TokensInv DEF Expire, AccountsInv, AccountsType
<1>2. ASSUME NEW p \in Person, NEW w \in Password, SignIn(p, w) PROVE AccountsInv'
  BY <1>2, TokensInv DEF SignIn, AccountsInv, AccountsType
<1>3. CASE UNCHANGED accountsVars
  BY <1>3, TokensInv DEF accountsVars, AccountsInv, AccountsType
<1> QED
  BY <1>1, <1>2, <1>3, FinishInv, GiveUpInv, PromoteInv, CreateInv, ResetInv, StatusInv DEF AccountsNext

\* The type invariant and what a change in flight may rely on, for any number of
\* sessions and accounts.
THEOREM AccountsInvariant == AccountsSpec => []AccountsInv
<1>1. AccountsInit => AccountsInv
  BY AccountsInitInv
<1>2. AccountsInv /\ [AccountsNext]_accountsVars => AccountsInv'
  BY AccountsStepInv
<1> QED
  BY <1>1, <1>2, PTL DEF AccountsSpec

\* update_user_status and its like leave an administrator who can sign in,
\* except after a race of two administrators who deactivate one another.
THEOREM AdminRemainsHolds == AccountsSpec => []AdminRemains
<1>1. AccountsInv => AdminRemains
  BY DEF AccountsInv
<1> QED
  BY <1>1, AccountsInvariant, PTL

-----------------------------------------------------------------------------
(* Key rotation.  Nothing is lost, whatever the number of workers, columns, *)
(* tables and keys, however often the key changes and wherever the script   *)
(* stops.                                                                   *)

Under == Key \cup {Lost, Clear}
Cell  == [value : Value, under : Under]
Ring  == [primary : Key, fallbacks : SUBSET Key]
Held  == {Free} \cup [to : Column, value : Value, under : Under]

\* The keys values may be under: before any is configured, the published one.
Reach == IF env = Down THEN {Legacy} ELSE Keys(env)

\* Under the primary key, or lost from the beginning.
Sealed(c) == store[c].under \in {env.primary, Lost}

RotationType ==
    /\ store \in [Column -> Cell]
    /\ env \in Ring \cup {Down}
    /\ cipher \in [Worker -> Ring \cup {Down}]
    /\ copying \in [Worker -> Held]
    /\ script = [at |-> script.at, cipher |-> script.cipher, tables |-> script.tables,
                 found |-> script.found, updated |-> script.updated,
                 stale |-> script.stale, failed |-> script.failed]
    /\ clean \in BOOLEAN
    /\ meant \in [Column -> Value]

\* Each worker encrypts with a key of the environment; what it copies it could
\* not decrypt, unless it is in the clear.
WorkerOK(w) ==
    /\ cipher[w] # Down => cipher[w].primary \in Reach
    /\ copying[w] # Free => /\ cipher[w] # Down
                            /\ copying[w].under \in {Clear, Lost} \cup (Reach \ Keys(cipher[w]))

\* While the script runs, and as long as its clean report stands, every worker
\* has the keys of the environment.
Agreed ==
    script.at # "off" \/ clean =>
        /\ env \in Ring
        /\ \A w \in Worker : cipher[w] # Down =>
              cipher[w].primary = env.primary /\ Keys(env) \subseteq Keys(cipher[w])

\* The script's progress: what it found under the primary key stays sealed, and
\* so do the columns of the tables it is through with, unless it rewrites them
\* or reported a failure.
ScriptOK ==
    script.at # "off" =>
        /\ script.at \in {"next", "update"}
        /\ script.cipher \in Ring /\ script.cipher.primary = env.primary
        /\ Keys(env) \subseteq Keys(script.cipher)
        /\ script.failed \in BOOLEAN
        /\ DOMAIN script.found \subseteq Column
        /\ script.at = "next" => DOMAIN script.found = {}
        /\ \A c \in DOMAIN script.found :
              script.found[c] \in Cell /\ (script.found[c].under = env.primary => Sealed(c))
        /\ DOMAIN script.updated \subseteq Column
        /\ \A c \in DOMAIN script.updated :
              /\ script.updated[c] \in Cell /\ script.updated[c].under = env.primary
              /\ c \notin script.stale => script.updated[c].value = store[c].value
        /\ \A c \in Column :
              /\ TableOf[c] \notin script.tables
              /\ c \notin DOMAIN script.found \cup DOMAIN script.updated
              /\ ~script.failed
              => Sealed(c)

RotationInv ==
    /\ RotationType
    /\ \A c \in Column : c \notin overwritten => store[c].value = meant[c]
    /\ \A c \in Column : store[c].under \in Reach \cup {Clear, Lost}
    /\ \A w \in Worker : WorkerOK(w)
    /\ Agreed
    /\ clean => \A c \in Column : Sealed(c)
    /\ ScriptOK

LEMMA RingFacts ==
    /\ Down \notin Ring
    /\ \A k \in Ring : k.primary \in Key /\ k.fallbacks \subseteq Key
                       /\ k.primary \in Keys(k) /\ Keys(k) \subseteq Key
    /\ Clear \notin Key /\ Lost \notin Key /\ None \notin Key
    /\ Clear # Lost /\ Clear # None /\ Lost # None /\ Legacy \in Key
BY RotationAssumption DEF Ring, Down, Keys

LEMMA RotationInitInv == RotationInit => RotationInv
<1> SUFFICES ASSUME RotationInit PROVE RotationInv
  OBVIOUS
<1>1. script = Off /\ script.at = "off"
  BY DEF RotationInit, Off
<1>2. RotationType
  <2>1. store \in [Column -> Cell] /\ meant \in [Column -> Value]
    BY RingFacts DEF RotationInit, Cell, Under
  <2>2. env = Down /\ clean = FALSE /\ cipher \in [Worker -> Ring \cup {Down}] /\ copying \in [Worker -> Held]
    BY DEF RotationInit, Held
  <2>3. Off = [at |-> Off.at, cipher |-> Off.cipher, tables |-> Off.tables, found |-> Off.found,
               updated |-> Off.updated, stale |-> Off.stale, failed |-> Off.failed]
    BY DEF Off
  <2> QED
    BY <1>1, <2>1, <2>2, <2>3 DEF RotationType
<1>3. \A c \in Column : store[c].value = meant[c] /\ store[c].under \in Reach \cup {Clear, Lost}
  BY DEF RotationInit, Reach
<1>4. \A w \in Worker : WorkerOK(w)
  BY DEF RotationInit, WorkerOK
<1>5. clean = FALSE
  BY DEF RotationInit
<1> QED
  BY <1>1, <1>2, <1>3, <1>4, <1>5 DEF RotationInv, Agreed, ScriptOK

\* A worker starts or stops.
LEMMA StartInv == ASSUME RotationInv, NEW w \in Worker, Start(w) PROVE RotationInv'
<1>1. /\ env \in Ring /\ cipher' = [cipher EXCEPT ![w] = env] /\ copying' = [copying EXCEPT ![w] = Free]
      /\ UNCHANGED <<store, env, script, clean, meant, overwritten, writes>>
  BY DEF Start, Loadable, RotationInv, RotationType, Down
<1>2. RotationType'
  BY <1>1 DEF RotationInv, RotationType, Held
<1>3. Reach' = Reach /\ Reach = Keys(env) /\ \A c : Sealed(c)' <=> Sealed(c)
  BY <1>1, RingFacts DEF Reach, Sealed, Keys
<1>4. \A v \in Worker : WorkerOK(v)'
  BY <1>1, <1>3, RingFacts DEF RotationInv, RotationType, WorkerOK
<1>5. Agreed'
  BY <1>1, <1>3 DEF RotationInv, RotationType, Agreed, Keys
<1>6. ScriptOK'
  BY <1>1, <1>3 DEF RotationInv, ScriptOK, Keys
<1> QED
  BY <1>1, <1>2, <1>3, <1>4, <1>5, <1>6 DEF RotationInv

LEMMA StopInv == ASSUME RotationInv, NEW w \in Worker, Stop(w) PROVE RotationInv'
<1>1. /\ cipher' = [cipher EXCEPT ![w] = Down] /\ copying' = [copying EXCEPT ![w] = Free]
      /\ UNCHANGED <<store, env, script, clean, meant, overwritten, writes>>
  BY DEF Stop
<1>2. RotationType'
  BY <1>1 DEF RotationInv, RotationType, Held
<1>3. Reach' = Reach /\ \A c : Sealed(c)' <=> Sealed(c)
  BY <1>1 DEF Reach, Sealed, Keys
<1>4. \A v \in Worker : WorkerOK(v)'
  BY <1>1, <1>3 DEF RotationInv, RotationType, WorkerOK
<1>5. Agreed'
  BY <1>1 DEF RotationInv, RotationType, Agreed, Keys
<1>6. ScriptOK'
  BY <1>1, <1>3 DEF RotationInv, ScriptOK, Keys
<1> QED
  BY <1>1, <1>2, <1>3, <1>4, <1>5, <1>6 DEF RotationInv

\* A commit of one column under the primary key of its worker, or of what the
\* worker could not decrypt.
LEMMA WrittenInv ==
    ASSUME RotationInv, NEW w \in Worker, NEW c \in Column, NEW stored \in Cell,
           cipher[w] # Down, Written(c, stored, stored.value),
           stored.under \in {cipher[w].primary, Lost} \cup (Reach \ Keys(cipher[w])),
           copying' = copying \/ copying' = [copying EXCEPT ![w] = Free],
           UNCHANGED <<env, cipher, script, clean>>
    PROVE  RotationInv'
<1>1. /\ store' = [store EXCEPT ![c] = stored] /\ meant' = [meant EXCEPT ![c] = stored.value]
      /\ overwritten' = overwritten \ {c} /\ c \notin DOMAIN script.updated
  BY DEF Written
<1>2. /\ store \in [Column -> Cell] /\ meant \in [Column -> Value] /\ stored.value \in Value
      /\ cipher \in [Worker -> Ring \cup {Down}] /\ cipher[w] \in Ring
  BY DEF RotationInv, RotationType, Cell
<1>3. RotationType'
  BY <1>1, <1>2 DEF RotationInv, RotationType, Held
<1>4. /\ store'[c] = stored /\ meant'[c] = stored.value
      /\ \A d \in Column : d # c => store'[d] = store[d] /\ meant'[d] = meant[d]
  BY <1>1, <1>2
<1>5. Reach' = Reach /\ Keys(env)' = Keys(env)
  BY DEF Reach, Keys
<1>6. stored.under \in Reach \cup {Lost}
  BY DEF RotationInv, WorkerOK
<1>7. \A v \in Worker : WorkerOK(v)'
  <2> SUFFICES ASSUME NEW v \in Worker PROVE WorkerOK(v)'
    OBVIOUS
  <2>1. copying'[v] \in {copying[v], Free}
    BY DEF RotationInv, RotationType
  <2> QED
    BY <1>5, <2>1 DEF RotationInv, WorkerOK, Keys
<1>8. Agreed'
  BY <1>5 DEF RotationInv, Agreed, Keys
\* While the script runs, or its clean report stands, what is written is sealed.
<1>9. ASSUME script.at # "off" \/ clean PROVE Sealed(c)'
  <2>1. env \in Ring /\ cipher[w].primary = env.primary /\ Keys(env) \subseteq Keys(cipher[w])
    BY <1>9 DEF RotationInv, Agreed
  <2>2. Reach = Keys(env)
    BY <2>1, RingFacts DEF Reach
  <2> QED
    BY <1>4, <2>1, <2>2 DEF Sealed
<1>10. \A d \in Column : d # c /\ Sealed(d) => Sealed(d)'
  BY <1>4 DEF Sealed
<1>11. ScriptOK'
  <2> SUFFICES ASSUME script.at # "off" PROVE ScriptOK'
    BY DEF ScriptOK
  <2>1. \A d \in Column : Sealed(d) => Sealed(d)'
    BY <1>9, <1>10
  <2>2. \A d \in DOMAIN script.updated : store'[d] = store[d]
    BY <1>1, <1>4 DEF RotationInv, ScriptOK
  <2>3. ScriptOK /\ env' = env /\ script' = script
    BY DEF RotationInv
  <2> QED
    BY <1>5, <2>1, <2>2, <2>3 DEF ScriptOK
<1>12. clean' => \A d \in Column : Sealed(d)'
  BY <1>9, <1>10 DEF RotationInv
<1> QED
  BY <1>1, <1>3, <1>4, <1>5, <1>6, <1>7, <1>8, <1>11, <1>12 DEF RotationInv

LEMMA WriteInv ==
    ASSUME RotationInv, NEW w \in Worker, NEW c \in Column, NEW v \in Value, Write(w, c, v)
    PROVE  RotationInv'
<1> DEFINE stored == Encrypted(cipher[w], [value |-> v, under |-> Clear])
<1>1. cipher[w] \in Ring /\ stored = [value |-> v, under |-> cipher[w].primary]
  BY DEF Write, RotationInv, RotationType, Encrypted
<1>2. stored \in Cell /\ stored.value = v /\ stored.under = cipher[w].primary
  BY <1>1, RingFacts DEF Cell, Under
<1>3. Written(c, stored, v) /\ cipher[w] # Down /\ UNCHANGED <<env, cipher, copying, script, clean>>
  BY DEF Write
<1> HIDE DEF stored
<1> QED
  BY <1>2, <1>3, WrittenInv

LEMMA CopyCommitInv == ASSUME RotationInv, NEW w \in Worker, CopyCommit(w) PROVE RotationInv'
<1> DEFINE held   == [value |-> copying[w].value, under |-> copying[w].under]
           stored == Encrypted(cipher[w], held)
           to     == copying[w].to
<1>1. /\ copying[w] # Free /\ copying[w] \in Held /\ cipher[w] # Down /\ cipher[w] \in Ring
      /\ copying[w].under \in {Clear, Lost} \cup (Reach \ Keys(cipher[w]))
  BY DEF CopyCommit, RotationInv, RotationType, WorkerOK
<1>2. to \in Column /\ held \in Cell /\ held.value = copying[w].value /\ held.under = copying[w].under
  BY <1>1 DEF Held, Cell
<1>3. /\ Written(to, stored, held.value) /\ copying' = [copying EXCEPT ![w] = Free]
      /\ UNCHANGED <<env, cipher, script, clean>>
  BY DEF CopyCommit
<1>4. stored \in Cell /\ stored.value = held.value
  <2>1. CASE held.under = Clear
    BY <1>1, <1>2, <2>1, RingFacts DEF Encrypted, Cell, Under
  <2>2. CASE held.under # Clear
    BY <1>2, <2>2 DEF Encrypted
  <2> QED
    BY <2>1, <2>2
<1>5. stored.under \in {cipher[w].primary, Lost} \cup (Reach \ Keys(cipher[w]))
  <2>1. CASE held.under = Clear
    BY <1>2, <2>1 DEF Encrypted, Cell
  <2>2. CASE held.under # Clear
    BY <1>1, <1>2, <2>2 DEF Encrypted
  <2> QED
    BY <2>1, <2>2
<1> HIDE DEF stored, held, to
<1> QED
  BY <1>1, <1>2, <1>3, <1>4, <1>5, WrittenInv

\* Reading a column to copy it: what cannot be decrypted is held as it is.
LEMMA CopyReadInv ==
    ASSUME RotationInv, NEW w \in Worker, NEW from \in Column, NEW to \in Column, CopyRead(w, from, to)
    PROVE  RotationInv'
<1> DEFINE read == Decrypted(cipher[w], store[from])
           held == [to |-> to, value |-> read.value, under |-> read.under]
<1>1. store[from] \in Cell /\ store[from].under \in Reach \cup {Clear, Lost} /\ cipher[w] # Down
  BY DEF CopyRead, RotationInv, RotationType
<1>2. read \in Cell /\ read.under \in {Clear, Lost} \cup (Reach \ Keys(cipher[w]))
  <2>1. CASE Readable(cipher[w], store[from])
    BY <1>1, <2>1 DEF Decrypted, Cell, Under
  <2>2. CASE ~Readable(cipher[w], store[from])
    BY <1>1, <2>2 DEF Decrypted, Readable
  <2> QED
    BY <2>1, <2>2
<1> HIDE DEF read
<1>3. held \in Held /\ held.under = read.under
  BY <1>2 DEF Held, Cell
<1>4. /\ copying' = [copying EXCEPT ![w] = held]
      /\ UNCHANGED <<store, env, cipher, script, clean, meant, overwritten>>
  BY DEF CopyRead, read
<1> HIDE DEF held
<1>5. RotationType'
  BY <1>3, <1>4 DEF RotationInv, RotationType
<1>6. Reach' = Reach /\ Keys(env)' = Keys(env) /\ \A c : Sealed(c)' <=> Sealed(c)
  BY <1>4 DEF Reach, Keys, Sealed
<1>7. \A v \in Worker : WorkerOK(v)'
  <2> SUFFICES ASSUME NEW v \in Worker PROVE WorkerOK(v)'
    OBVIOUS
  <2>1. copying'[v] = IF v = w THEN held ELSE copying[v]
    BY <1>4 DEF RotationInv, RotationType
  <2>2. Keys(cipher[v])' = Keys(cipher[v])
    BY <1>4 DEF Keys
  <2> QED
    BY <1>1, <1>2, <1>3, <1>4, <1>6, <2>1, <2>2 DEF RotationInv, WorkerOK
<1>8. Agreed'
  BY <1>4 DEF RotationInv, Agreed, Keys
<1>9. ScriptOK'
  BY <1>4, <1>6 DEF RotationInv, ScriptOK, Keys
<1> QED
  BY <1>4, <1>5, <1>6, <1>7, <1>8, <1>9 DEF RotationInv

-----------------------------------------------------------------------------
(* The script *)

\* What changes only the script.
LEMMA ScriptOnly ==
    ASSUME RotationInv, UNCHANGED <<store, env, cipher, copying, clean, meant, overwritten>>,
           script' = [at |-> script'.at, cipher |-> script'.cipher, tables |-> script'.tables,
                      found |-> script'.found, updated |-> script'.updated,
                      stale |-> script'.stale, failed |-> script'.failed],
           Agreed', ScriptOK'
    PROVE  RotationInv'
<1>1. RotationType'
  BY DEF RotationInv, RotationType
<1>2. Reach' = Reach /\ \A c : Sealed(c)' <=> Sealed(c)
  BY DEF Reach, Keys, Sealed
<1>3. \A v \in Worker : WorkerOK(v)'
  BY <1>2 DEF RotationInv, WorkerOK, Keys
<1> QED
  BY <1>1, <1>2, <1>3 DEF RotationInv

LEMMA OffFacts ==
    /\ Off = [at |-> "off", cipher |-> Down, tables |-> {}, found |-> Off.found, updated |-> Off.updated,
              stale |-> {}, failed |-> FALSE]
    /\ DOMAIN Off.found = {} /\ DOMAIN Off.updated = {}
BY DEF Off

LEMMA ScriptStartInv == ASSUME RotationInv, ScriptStart PROVE RotationInv'
<1>1. /\ UNCHANGED <<store, env, cipher, copying, clean, meant, overwritten>>
      /\ env \in Ring /\ \A w \in Worker : cipher[w] \in {Down, env}
  BY DEF ScriptStart, Loadable, RotationInv, RotationType, Down
<1>2. script' = [at |-> "next", cipher |-> env, tables |-> Table, found |-> Off.found,
                 updated |-> Off.updated, stale |-> {}, failed |-> FALSE]
  BY DEF ScriptStart, Off
<1>3. Agreed'
  BY <1>1 DEF Agreed, Keys
<1>4. ScriptOK'
  BY <1>2, <1>1, OffFacts, RotationAssumption DEF ScriptOK, Keys
<1> QED
  BY <1>2, <1>1, <1>3, <1>4, ScriptOnly

LEMMA ScriptReadInv == ASSUME RotationInv, NEW t \in Table, ScriptRead(t) PROVE RotationInv'
<1> DEFINE found == [c \in {d \in Column : TableOf[d] = t} |-> store[c]]
<1>1. /\ UNCHANGED <<store, env, cipher, copying, clean, meant, overwritten>> /\ script.at = "next"
      /\ script' = [at |-> "update", cipher |-> script.cipher, tables |-> script.tables \ {t},
                    found |-> found, updated |-> script.updated, stale |-> script.stale,
                    failed |-> script.failed]
  BY DEF ScriptRead, RotationInv, RotationType
<1>2. Agreed'
  BY <1>1 DEF RotationInv, Agreed, Keys
<1>3. /\ DOMAIN found \subseteq Column
      /\ \A c \in DOMAIN found : found[c] = store[c] /\ store[c] \in Cell
      /\ \A c \in Column : c \notin DOMAIN found => TableOf[c] # t
  BY DEF RotationInv, RotationType
<1>4. Keys(env)' = Keys(env) /\ \A c : Sealed(c)' <=> Sealed(c)
  BY <1>1 DEF Sealed, Keys
<1> HIDE DEF found
<1>5. \A c \in DOMAIN found : found[c] \in Cell /\ (found[c].under = env.primary => Sealed(c))
  BY <1>3 DEF Sealed
<1>6. ScriptOK /\ script.at # "off"
  BY <1>1 DEF RotationInv
<1>7. ScriptOK'
  BY <1>1, <1>3, <1>4, <1>5, <1>6 DEF ScriptOK, Keys
<1> QED
  BY <1>1, <1>2, <1>7, ScriptOnly

LEMMA ScriptUpdateInv == ASSUME RotationInv, ScriptUpdate PROVE RotationInv'
<1> DEFINE k     == script.cipher
           found == script.found
           due   == {c \in DOMAIN found : Readable(k, found[c]) /\ ~Already(k, found[c])}
           updated == [c \in due \cup DOMAIN script.updated |->
                         IF c \in due THEN Encrypted(k, Decrypted(k, found[c])) ELSE script.updated[c]]
           stale   == script.stale \cup {c \in due : store[c] # found[c]}
           failing == script.failed \/ \E c \in DOMAIN found : ~Readable(k, found[c])
<1>1. /\ UNCHANGED <<store, env, cipher, copying, clean, meant, overwritten>> /\ script.at = "update"
      /\ script' = [at |-> "next", cipher |-> k, tables |-> script.tables, found |-> <<>>,
                    updated |-> updated, stale |-> stale, failed |-> failing]
  BY DEF ScriptUpdate, RotationInv, RotationType
<1>2. Agreed'
  BY <1>1 DEF RotationInv, Agreed, Keys
<1>3. ScriptOK /\ script.at # "off" /\ k \in Ring /\ k.primary = env.primary
  BY <1>1 DEF RotationInv, ScriptOK
<1>4. /\ DOMAIN updated = due \cup DOMAIN script.updated
      /\ \A c \in due : updated[c] = Encrypted(k, Decrypted(k, found[c]))
      /\ \A c \in DOMAIN script.updated : c \notin due => updated[c] = script.updated[c]
  OBVIOUS
<1>5. ASSUME NEW c \in due
      PROVE  /\ updated[c] \in Cell /\ updated[c].under = env.primary
             /\ c \notin stale => updated[c].value = store[c].value
  <2>1. found[c] \in Cell /\ Readable(k, found[c])
    BY <1>3 DEF ScriptOK
  <2>2. Decrypted(k, found[c]) \in Cell /\ Decrypted(k, found[c]).under = Clear
        /\ Decrypted(k, found[c]).value = found[c].value
    BY <2>1 DEF Decrypted, Cell, Under
  <2>3. updated[c] \in Cell /\ updated[c].under = k.primary /\ updated[c].value = found[c].value
    BY <1>3, <1>4, <2>2, RingFacts DEF Encrypted, Cell, Under
  <2>4. c \notin stale => store[c] = found[c]
    OBVIOUS
  <2> QED
    BY <1>3, <2>3, <2>4
<1>6. Keys(env)' = Keys(env) /\ \A c : Sealed(c)' <=> Sealed(c)
  BY <1>1 DEF Sealed, Keys
<1>7. failing \in BOOLEAN
  BY <1>3 DEF ScriptOK
<1>8. due \subseteq Column /\ DOMAIN updated \subseteq Column
  BY <1>3, <1>4 DEF ScriptOK
\* What the script found and leaves alone is sealed, if nothing failed.
<1>9. ASSUME ~failing, NEW c \in DOMAIN found, c \notin due PROVE Sealed(c)
  BY <1>3, <1>9 DEF ScriptOK, Already
<1>10. ASSUME ~failing, NEW c \in Column, TableOf[c] \notin script.tables, c \notin DOMAIN updated
       PROVE  Sealed(c)
  <2>1. ~script.failed /\ c \notin due /\ c \notin DOMAIN script.updated
    BY <1>4, <1>10
  <2> QED
    BY <1>3, <1>9, <1>10, <2>1 DEF ScriptOK
<1>11. ASSUME NEW c \in DOMAIN updated
       PROVE  /\ updated[c] \in Cell /\ updated[c].under = env.primary
              /\ c \notin stale => updated[c].value = store[c].value
  <2>1. CASE c \in due
    BY <1>5, <2>1
  <2>2. CASE c \notin due
    <3>1. c \in DOMAIN script.updated /\ updated[c] = script.updated[c]
      BY <1>4, <2>2
    <3>2. c \notin stale => c \notin script.stale
      OBVIOUS
    <3> QED
      BY <1>3, <3>1, <3>2 DEF ScriptOK
  <2> QED
    BY <2>1, <2>2
<1> HIDE DEF due, updated, stale, failing
<1>12. ScriptOK'
  <2>1. DOMAIN <<>> = {}
    OBVIOUS
  <2>2. Keys(env) \subseteq Keys(k)
    BY <1>3 DEF ScriptOK
  <2>3. Keys(script.cipher)' = Keys(k)
    BY <1>1 DEF Keys
  <2> QED
    BY <1>1, <1>3, <1>6, <1>7, <1>8, <1>10, <1>11, <2>1, <2>2, <2>3 DEF ScriptOK
<1> QED
  BY <1>1, <1>2, <1>12, ScriptOnly

LEMMA ScriptRollbackInv == ASSUME RotationInv, ScriptRollback PROVE RotationInv'
<1>1. /\ UNCHANGED <<store, env, cipher, copying, clean, meant, overwritten>>
      /\ script' = Off /\ script'.at = "off"
  BY DEF ScriptRollback, Off
<1>2. Agreed' /\ ScriptOK'
  BY <1>1 DEF RotationInv, Agreed, ScriptOK, Keys
<1> QED
  BY <1>1, <1>2, OffFacts, ScriptOnly

\* The commit: what the script wrote and did not find changed has its value.
LEMMA ScriptCommitInv == ASSUME RotationInv, ScriptCommit PROVE RotationInv'
<1> DEFINE u == script.updated
<1>1. /\ store' = [c \in Column |-> IF c \in DOMAIN u THEN u[c] ELSE store[c]]
      /\ overwritten' = overwritten \cup script.stale
      /\ clean' = (DOMAIN u = {} /\ ~script.failed)
      /\ script' = Off /\ script'.at = "off" /\ script.at = "next" /\ script.tables = {}
      /\ UNCHANGED <<env, cipher, copying, meant>>
  BY DEF ScriptCommit, Off
<1>2. ScriptOK /\ store \in [Column -> Cell] /\ env \in Ring
  BY <1>1 DEF RotationInv, RotationType, Agreed
<1>3. DOMAIN u \subseteq Column
  BY <1>1, <1>2 DEF ScriptOK
<1>4. /\ \A c \in Column : store'[c] = IF c \in DOMAIN u THEN u[c] ELSE store[c]
      /\ store' = [c \in Column |-> store'[c]]
  BY <1>1
<1>5. \A c \in DOMAIN u : /\ u[c] \in Cell /\ u[c].under = env.primary
                          /\ c \notin script.stale => u[c].value = store[c].value
  BY <1>1, <1>2 DEF ScriptOK
<1>6. store' \in [Column -> Cell]
  BY <1>2, <1>4, <1>5
<1>7. RotationType'
  BY <1>1, <1>6, OffFacts DEF RotationInv, RotationType
<1>8. Reach' = Reach /\ env.primary \in Reach
  BY <1>1, <1>2, RingFacts DEF Reach, Keys
<1>9. \A c \in Column : /\ c \notin overwritten' => store'[c].value = meant'[c]
                        /\ store'[c].under \in Reach \cup {Clear, Lost}
  BY <1>1, <1>4, <1>5, <1>8 DEF RotationInv
<1>10. \A v \in Worker : WorkerOK(v)'
  BY <1>1, <1>8 DEF RotationInv, WorkerOK, Keys
<1>11. Agreed' /\ ScriptOK'
  BY <1>1 DEF RotationInv, Agreed, ScriptOK, Keys
<1>12. ASSUME clean', NEW c \in Column PROVE Sealed(c)'
  BY <1>1, <1>2, <1>4, <1>12 DEF ScriptOK, Sealed
<1> QED
  BY <1>7, <1>8, <1>9, <1>10, <1>11, <1>12 DEF RotationInv

-----------------------------------------------------------------------------
(* The operator *)

\* A new key joins the old ones.
LEMMA SetKeyInv == ASSUME RotationInv, NEW k \in Key, SetKey(k) PROVE RotationInv'
<1> DEFINE old == IF env.primary = None THEN Legacy ELSE env.primary
<1>1. /\ env' = [primary |-> k, fallbacks |-> (env.fallbacks \cup {old}) \ {k}]
      /\ clean' = FALSE /\ script.at = "off"
      /\ UNCHANGED <<store, cipher, copying, script, meant, overwritten>>
  BY DEF SetKey
<1>2. env.fallbacks \subseteq Key /\ old \in Key
  BY RingFacts DEF RotationInv, RotationType, Down
<1>3. env' \in Ring
  BY <1>1, <1>2 DEF Ring
<1>4. RotationType'
  BY <1>1, <1>3 DEF RotationInv, RotationType
<1>5. Reach \subseteq Reach'
  <2>1. Reach' = {k} \cup ((env.fallbacks \cup {old}) \ {k})
    BY <1>1, <1>3, RingFacts DEF Reach, Keys
  <2>2. Reach \subseteq env.fallbacks \cup {old}
    BY RingFacts DEF Reach, Keys, RotationInv, RotationType, Down
  <2> QED
    BY <2>1, <2>2
<1>6. \A v \in Worker : WorkerOK(v)'
  BY <1>1, <1>5 DEF RotationInv, WorkerOK, Keys
<1>7. Agreed' /\ ScriptOK'
  BY <1>1 DEF Agreed, ScriptOK
<1> QED
  BY <1>1, <1>4, <1>5, <1>6, <1>7 DEF RotationInv

\* After a clean report nothing needs the old keys, the values workers hold included.
LEMMA RemoveInv == ASSUME RotationInv, RemoveFallbacks PROVE RotationInv'
<1>1. /\ clean /\ clean' = FALSE /\ env' = [env EXCEPT !.fallbacks = {}]
      /\ UNCHANGED <<store, cipher, copying, script, meant, overwritten>>
  BY DEF RemoveFallbacks
<1>2. env \in Ring /\ \A c \in Column : Sealed(c)
  BY <1>1 DEF RotationInv, Agreed
<1>3. /\ env' \in Ring /\ env'.primary = env.primary /\ Keys(env)' = {env.primary}
      /\ Reach = Keys(env) /\ Reach' = {env.primary} /\ env.primary \in Keys(env)
  BY <1>1, <1>2, RingFacts DEF Ring, Keys, Reach
<1>4. RotationType'
  BY <1>1, <1>3 DEF RotationInv, RotationType
<1>5. \A w \in Worker : WorkerOK(w)'
  <2> SUFFICES ASSUME NEW w \in Worker PROVE WorkerOK(w)'
    OBVIOUS
  <2>1. cipher[w] # Down => cipher[w].primary = env.primary /\ Keys(env) \subseteq Keys(cipher[w])
    BY <1>1 DEF RotationInv, Agreed
  <2>2. copying[w] # Free => cipher[w] # Down /\ copying[w].under \in {Clear, Lost}
    BY <1>3, <2>1 DEF RotationInv, WorkerOK
  <2> QED
    BY <1>1, <1>3, <2>1, <2>2 DEF WorkerOK
<1>6. Agreed'
  <2> SUFFICES ASSUME NEW w \in Worker, cipher[w] # Down
               PROVE  cipher[w].primary = env.primary /\ {env.primary} \subseteq Keys(cipher[w])
    BY <1>1, <1>3 DEF Agreed, Keys
  <2> QED
    BY <1>1, <1>3 DEF RotationInv, Agreed
<1>7. \A c : Sealed(c)' <=> Sealed(c)
  BY <1>1, <1>3 DEF Sealed
<1>8. ScriptOK'
  <2> SUFFICES ASSUME script.at # "off" PROVE ScriptOK'
    BY <1>1 DEF ScriptOK
  <2>1. ScriptOK /\ Keys(script.cipher)' = Keys(script.cipher) /\ {env.primary} \subseteq Keys(script.cipher)
    BY <1>1, <1>3 DEF RotationInv, ScriptOK, Keys
  <2> QED
    BY <1>1, <1>3, <1>7, <2>1 DEF ScriptOK
<1>9. \A c \in Column : store'[c].under \in Reach' \cup {Clear, Lost}
  BY <1>1, <1>2, <1>3 DEF Sealed
<1> QED
  BY <1>1, <1>4, <1>5, <1>6, <1>8, <1>9 DEF RotationInv

LEMMA RotationStepInv == ASSUME RotationInv, [RotationNext]_rotationVars PROVE RotationInv'
<1>1. CASE UNCHANGED rotationVars
  <2>1. Reach' = Reach /\ Keys(env)' = Keys(env) /\ \A c : Sealed(c)' <=> Sealed(c)
    BY <1>1 DEF rotationVars, Reach, Keys, Sealed
  <2>2. \A w \in Worker : WorkerOK(w)'
    BY <1>1, <2>1 DEF rotationVars, RotationInv, WorkerOK, Keys
  <2>3. RotationType' /\ Agreed'
    BY <1>1, <2>1 DEF rotationVars, RotationInv, RotationType, Agreed, Keys
  <2>4. ScriptOK'
    BY <1>1, <2>1 DEF rotationVars, RotationInv, ScriptOK, Keys
  <2> QED
    BY <1>1, <2>1, <2>2, <2>3, <2>4 DEF rotationVars, RotationInv
<1>2. CASE RotationNext
  BY <1>2, StartInv, StopInv, CopyCommitInv, WriteInv, CopyReadInv, ScriptStartInv, ScriptUpdateInv,
     ScriptCommitInv, ScriptRollbackInv, ScriptReadInv, RemoveInv, SetKeyInv DEF RotationNext
<1> QED
  BY <1>1, <1>2

\* The strengthening: what workers, the script and its report may rely on.
THEOREM RotationInvariant == RotationSpec => []RotationInv
<1>1. RotationInit => RotationInv
  BY RotationInitInv
<1>2. RotationInv /\ [RotationNext]_rotationVars => RotationInv'
  BY RotationStepInv
<1> QED
  BY <1>1, <1>2, PTL DEF RotationSpec

\* Following encryption.py's procedure with rotate_encryption_key.py loses no
\* value: each stays readable with the keys configured, and is the last one
\* written, but for a column written while the script held an older value.
THEOREM RotationKeepsHolds == RotationSpec => []RotationKeeps
<1>1. RotationInv => RotationKeeps
  BY DEF RotationInv, RotationKeeps, Reach
<1> QED
  BY <1>1, RotationInvariant, PTL

-----------------------------------------------------------------------------
(* Advice by mail.  What the page shows is how often an advice was sent.    *)

AdviceRow == [status : {"absent", "pending", "sent", "deleted"}, to : Address \cup {Unset}, count : Nat]

DispatchType ==
    /\ advice \in [Advice -> AdviceRow]
    /\ mailbox \in [Vendor -> Address \cup {Unset}]
    /\ sent \in [Advice -> Nat]
    /\ shared \subseteq Advice
    /\ request = [s \in Sender |-> request[s]]

\* What a session has loaded are rows that were there, with a count no greater
\* than the sends so far; it is still the count of a row no other session sent.
SenderOK(s) ==
    LET r == request[s]
    IN  /\ DOMAIN r = DOMAIN Idle
        /\ DOMAIN r.rows \subseteq Advice /\ (r.at = "idle" <=> DOMAIN r.rows = {})
        /\ r.at = "email" => r.to \in Address
        /\ \A a \in DOMAIN r.rows :
              /\ r.rows[a].count \in Nat /\ advice[a].status # "absent" /\ r.rows[a].count <= sent[a]
              /\ r.at = "send" /\ a \in Live /\ a \notin shared => r.rows[a].count = advice[a].count

\* What was sent is what was counted.
Tallied(a) ==
    /\ advice[a].status = "absent" => sent[a] = 0
    /\ a \in Live =>
          /\ advice[a].count <= sent[a]
          /\ advice[a].status = "sent" <=> sent[a] > 0
          /\ advice[a].count > 0 <=> sent[a] > 0
          /\ a \notin shared => advice[a].count = sent[a]

DispatchInv ==
    /\ DispatchType
    /\ \A s \in Sender : SenderOK(s)
    /\ \A a \in Advice : Tallied(a)

LEMMA DispatchInitInv == DispatchInit => DispatchInv
<1> SUFFICES ASSUME DispatchInit PROVE DispatchInv
  OBVIOUS
<1>1. NoAdvice \in AdviceRow /\ NoAdvice.status = "absent"
  BY DEF NoAdvice, AdviceRow
<1>2. Idle.at = "idle" /\ DOMAIN Idle.rows = {}
  BY DEF Idle
<1>3. DispatchType
  BY <1>1 DEF DispatchInit, DispatchType
<1>4. \A s \in Sender : SenderOK(s)
  BY <1>2 DEF DispatchInit, SenderOK
<1>5. \A a \in Advice : advice[a].status = "absent" /\ sent[a] = 0 /\ a \notin Live
  BY <1>1 DEF DispatchInit, Live
<1>6. \A a \in Advice : Tallied(a)
  BY <1>5 DEF Tallied
<1> QED
  BY <1>3, <1>4, <1>6 DEF DispatchInv

\* What the other senders rely on: rows stay, what was sent stays sent, and the
\* count they loaded stays, or the advice is known to be shared.
LEMMA SendersKeep ==
    ASSUME DispatchInv, NEW s \in Sender, NEW x, request' = [request EXCEPT ![s] = x], SenderOK(s)',
           advice' \in [Advice -> AdviceRow], mailbox' \in [Vendor -> Address \cup {Unset}],
           sent' \in [Advice -> Nat], shared' \subseteq Advice,
           \A a \in Advice : /\ sent[a] <= sent'[a]
                             /\ advice[a].status # "absent" => advice'[a].status # "absent",
           \A a \in Advice : a \in Live' /\ a \notin shared' =>
              /\ a \notin shared
              /\ \A t \in Sender \ {s} :
                    a \in Sending(t) => a \in Live /\ advice'[a].count = advice[a].count,
           \A a \in Advice : Tallied(a)'
    PROVE  DispatchInv'
<1>1. /\ \A t \in Sender \ {s} : request'[t] = request[t]
      /\ request' = [t \in Sender |-> request'[t]]
  BY DEF DispatchInv, DispatchType
<1>2. ASSUME NEW t \in Sender \ {s} PROVE SenderOK(t)'
  <2>1. SenderOK(t) /\ request'[t] = request[t]
    BY <1>1 DEF DispatchInv
  <2>2. \A a \in Advice : sent[a] \in Nat /\ sent'[a] \in Nat /\ sent[a] <= sent'[a]
    BY DEF DispatchInv, DispatchType
  <2>3. ASSUME NEW a \in DOMAIN request[t].rows
        PROVE  /\ request[t].rows[a].count \in Nat /\ advice'[a].status # "absent"
               /\ request[t].rows[a].count <= sent'[a]
               /\ request[t].at = "send" /\ a \in Live' /\ a \notin shared' =>
                     request[t].rows[a].count = advice'[a].count
    <3>1. a \in Advice
      BY <2>1 DEF SenderOK
    <3>2. /\ request[t].rows[a].count \in Nat /\ advice'[a].status # "absent"
          /\ request[t].rows[a].count <= sent'[a]
      BY <2>1, <2>2, <3>1 DEF SenderOK
    <3>3. ASSUME request[t].at = "send", a \in Live', a \notin shared'
          PROVE  request[t].rows[a].count = advice'[a].count
      <4>1. a \in Sending(t)
        BY <3>3 DEF Sending, Loaded
      <4> QED
        BY <2>1, <3>1, <3>3, <4>1 DEF SenderOK
    <3> QED
      BY <3>2, <3>3
  <2> QED
    BY <2>1, <2>3 DEF SenderOK
<1>3. DispatchType'
  BY <1>1 DEF DispatchType
<1> QED
  BY <1>2, <1>3 DEF DispatchInv

LEMMA IdleOK == \A s \in Sender : request'[s] = Idle => SenderOK(s)'
BY DEF SenderOK, Idle

LEMMA FileMadeInv == ASSUME DispatchInv, NEW f \in File, FileMade(f) PROVE DispatchInv'
<1> DEFINE new == {a \in Advice : FileOf[a] = f /\ mailbox[VendorOf[a]] # Unset}
<1>1. /\ \A a \in new : advice[a].status = "absent"
      /\ advice' = [a \in Advice |-> IF a \in new
                       THEN [status |-> "pending", to |-> mailbox[VendorOf[a]], count |-> 0] ELSE advice[a]]
      /\ UNCHANGED <<mailbox, request, sent, shared>>
  BY DEF FileMade
<1>2. \A a \in Advice : VendorOf[a] \in Vendor
  BY DispatchAssumption
<1>3. DispatchType'
  BY <1>1, <1>2 DEF DispatchInv, DispatchType, AdviceRow
<1>4. \A a \in Advice : advice[a].status # "absent" => advice'[a] = advice[a]
  BY <1>1
<1>5. ASSUME NEW s \in Sender PROVE SenderOK(s)'
  <2>1. SenderOK(s) /\ request'[s] = request[s] /\ shared' = shared /\ sent' = sent
    BY <1>1 DEF DispatchInv
  <2>2. \A a \in Advice : advice[a].status # "absent" => (a \in Live' <=> a \in Live)
    BY <1>4 DEF Live
  <2> QED
    BY <1>4, <2>1, <2>2 DEF SenderOK
<1>6. ASSUME NEW a \in Advice PROVE Tallied(a)'
  <2>1. CASE a \in new
    <3>1. sent[a] = 0 /\ sent'[a] = 0
      BY <1>1, <2>1 DEF DispatchInv, Tallied
    <3>2. advice'[a].status = "pending" /\ advice'[a].count = 0
      BY <1>1, <2>1
    <3> QED
      BY <3>1, <3>2 DEF Tallied
  <2>2. CASE a \notin new
    <3>1. advice'[a] = advice[a] /\ sent' = sent /\ shared' = shared /\ Tallied(a)
      BY <1>1, <2>2 DEF DispatchInv
    <3> QED
      BY <3>1 DEF Tallied, Live
  <2> QED
    BY <2>1, <2>2
<1> QED
  BY <1>3, <1>5, <1>6 DEF DispatchInv

\* Reading rows to send, delete or redirect them.
LEMMA LoadInv ==
    ASSUME DispatchInv, NEW s \in Sender, request[s].at = "idle",
           NEW at \in {"send", "delete", "email"}, NEW rows \in SUBSET Live, rows # {},
           NEW x, DOMAIN x = DOMAIN Idle, x.at = at, x.rows = [a \in rows |-> advice[a]],
           at = "email" => x.to \in Address,
           request' = [request EXCEPT ![s] = x], UNCHANGED <<advice, mailbox, sent, shared>>
    PROVE  DispatchInv'
<1>1. DOMAIN x.rows = rows /\ \A a \in rows : x.rows[a] = advice[a]
  OBVIOUS
<1>2. request'[s] = x
  BY DEF DispatchInv, DispatchType
<1>3. /\ advice \in [Advice -> AdviceRow] /\ sent \in [Advice -> Nat] /\ shared \subseteq Advice
      /\ mailbox \in [Vendor -> Address \cup {Unset}] /\ rows \subseteq Advice
  BY DEF DispatchInv, DispatchType, Live
<1>4. \A a \in rows : advice[a].count \in Nat /\ advice[a].status # "absent" /\ advice[a].count <= sent[a]
  BY <1>3 DEF DispatchInv, Tallied, Live, AdviceRow
<1>5. SenderOK(s)'
  BY <1>1, <1>2, <1>3, <1>4 DEF SenderOK
<1>6. \A a \in Advice : Tallied(a)'
  BY DEF DispatchInv, Tallied, Live
<1>7. \A a \in Advice : sent[a] <= sent'[a] /\ sent'[a] = sent[a] /\ advice'[a] = advice[a]
  BY <1>3
<1>8. Live' = Live
  BY DEF Live
<1> QED
  BY <1>3, <1>5, <1>6, <1>7, <1>8, SendersKeep

\* The counts are committed: each is one more than the one loaded.
LEMMA SendCommitInv == ASSUME DispatchInv, NEW s \in Sender, SendCommit(s) PROVE DispatchInv'
<1>1. request[s].at = "send" /\ request' = [request EXCEPT ![s] = Idle] /\ UNCHANGED mailbox
  BY DEF SendCommit, Done
<1>2. request'[s] = Idle /\ SenderOK(s)'
  BY <1>1, IdleOK DEF DispatchInv, DispatchType
<1>3. /\ advice \in [Advice -> AdviceRow] /\ shared \subseteq Advice /\ Loaded(s) \subseteq Advice
      /\ mailbox \in [Vendor -> Address \cup {Unset}] /\ sent \in [Advice -> Nat]
      /\ \A a \in Loaded(s) :
            /\ request[s].rows[a].count \in Nat /\ request[s].rows[a].count <= sent[a]
            /\ a \in Live /\ a \notin shared => request[s].rows[a].count = advice[a].count
  BY <1>1 DEF DispatchInv, DispatchType, SenderOK, Loaded
<1>4. CASE Loaded(s) \subseteq Live
  <2>1. /\ advice' = [a \in Advice |-> IF a \in Loaded(s)
               THEN [advice[a] EXCEPT !.status = "sent", !.count = CountedOn(request[s].rows[a])]
               ELSE advice[a]]
        /\ sent' = [a \in Advice |-> sent[a] + (IF a \in Loaded(s) THEN 1 ELSE 0)]
        /\ shared' = shared \cup {a \in Loaded(s) : \E t \in Sender \ {s} : a \in Sending(t)}
    BY <1>4 DEF SendCommit
  <2>2. ASSUME NEW a \in Loaded(s)
        PROVE  /\ advice'[a] \in AdviceRow /\ advice'[a].status = "sent"
               /\ advice'[a].count = request[s].rows[a].count + 1
               /\ sent'[a] = sent[a] + 1
    <3>1. a \in Advice /\ advice[a] \in AdviceRow /\ CountedOn(request[s].rows[a]) \in Nat
      BY <1>3 DEF CountedOn
    <3>2. advice'[a] = [advice[a] EXCEPT !.status = "sent", !.count = CountedOn(request[s].rows[a])]
      BY <2>1, <3>1
    <3>3. /\ advice'[a] \in AdviceRow /\ advice'[a].status = "sent"
          /\ advice'[a].count = CountedOn(request[s].rows[a])
      BY <3>1, <3>2 DEF AdviceRow
    <3> QED
      BY <2>1, <3>1, <3>3 DEF CountedOn
  <2>3. ASSUME NEW a \in Advice, a \notin Loaded(s) PROVE advice'[a] = advice[a] /\ sent'[a] = sent[a]
    <3>1. sent[a] \in Nat
      BY <1>3
    <3>2. advice'[a] = advice[a]
      BY <2>1, <2>3
    <3>3. sent'[a] = sent[a] + 0
      BY <2>1, <2>3
    <3> QED
      BY <3>1, <3>2, <3>3
  <2>4. advice' \in [Advice -> AdviceRow] /\ shared' \subseteq Advice /\ sent' \in [Advice -> Nat]
    <3>1. \A a \in Advice : advice'[a] \in AdviceRow /\ sent'[a] \in Nat
      BY <1>3, <2>2, <2>3
    <3>2. DOMAIN advice' = Advice /\ advice' = [a \in Advice |-> advice'[a]]
      BY <2>1
    <3>3. DOMAIN sent' = Advice /\ sent' = [a \in Advice |-> sent'[a]]
      BY <2>1
    <3>4. shared' \subseteq Advice
      BY <1>3, <2>1
    <3> QED
      BY <3>1, <3>2, <3>3, <3>4
  <2>5. ASSUME NEW a \in Advice PROVE Tallied(a)'
    <3>1. Tallied(a) /\ sent[a] \in Nat /\ advice[a].count \in Nat
      BY <1>3 DEF DispatchInv, AdviceRow
    <3>2. CASE a \in Loaded(s)
      <4>1. a \in Live /\ (a \notin shared' => a \notin shared)
        BY <1>4, <2>1, <3>2
      <4> QED
        BY <1>3, <2>2, <3>1, <3>2, <4>1 DEF Tallied
    <3>3. CASE a \notin Loaded(s)
      <4>1. (a \in Live' <=> a \in Live) /\ (a \notin shared' => a \notin shared)
        BY <2>1, <2>3, <3>3 DEF Live
      <4> QED
        BY <2>3, <3>1, <3>3, <4>1 DEF Tallied
    <3> QED
      BY <3>2, <3>3
  <2>6. \A a \in Advice : /\ sent[a] <= sent'[a]
                          /\ advice[a].status # "absent" => advice'[a].status # "absent"
    BY <1>3, <2>2, <2>3
  <2>7. ASSUME NEW a \in Advice, a \in Live', a \notin shared'
        PROVE  /\ a \notin shared
               /\ \A t \in Sender \ {s} :
                     a \in Sending(t) => a \in Live /\ advice'[a].count = advice[a].count
    <3>1. CASE a \in Loaded(s)
      BY <2>1, <2>7, <3>1
    <3>2. CASE a \notin Loaded(s)
      BY <2>1, <2>3, <2>7, <3>2 DEF Live
    <3> QED
      BY <3>1, <3>2
  <2> QED
    BY <1>1, <1>2, <1>3, <2>4, <2>5, <2>6, <2>7, SendersKeep
<1>5. CASE ~(Loaded(s) \subseteq Live)
  <2>1. advice' = advice /\ sent' = sent /\ shared' = shared
    BY <1>5 DEF SendCommit
  <2>2. \A a \in Advice : Tallied(a)'
    BY <2>1 DEF DispatchInv, Tallied, Live
  <2>3. (\A a \in Advice : sent[a] <= sent'[a]) /\ Live' = Live
    BY <1>3, <2>1 DEF Live
  <2> QED
    BY <1>1, <1>2, <1>3, <2>1, <2>2, <2>3, SendersKeep
<1> QED
  BY <1>4, <1>5

\* A request that ends without sending.
LEMMA GivenUpInv ==
    ASSUME DispatchInv, NEW s \in Sender, request' = [request EXCEPT ![s] = Idle],
           sent' = sent, shared' = shared, mailbox' \in [Vendor -> Address \cup {Unset}],
           advice' \in [Advice -> AdviceRow],
           \A a \in Advice : \/ advice'[a].status = advice[a].status /\ advice'[a].count = advice[a].count
                             \/ advice[a].status # "absent" /\ advice'[a].status = "deleted"
    PROVE  DispatchInv'
<1>1. SenderOK(s)'
  BY IdleOK DEF DispatchInv, DispatchType
<1>2. /\ shared \subseteq Advice /\ sent \in [Advice -> Nat]
      /\ \A a \in Advice : sent[a] <= sent'[a]
  BY DEF DispatchInv, DispatchType
<1>3. \A a \in Advice :
         a \in Live' => a \in Live /\ advice'[a].status = advice[a].status /\ advice'[a].count = advice[a].count
  BY DEF Live
<1>4. \A a \in Advice : Tallied(a)'
  BY <1>3 DEF DispatchInv, Tallied
<1>5. \A a \in Advice : advice[a].status # "absent" => advice'[a].status # "absent"
  OBVIOUS
<1> QED
  BY <1>1, <1>2, <1>3, <1>4, <1>5, SendersKeep

LEMMA EmailCommitInv == ASSUME DispatchInv, NEW s \in Sender, EmailCommit(s) PROVE DispatchInv'
<1> DEFINE r == request[s]
           a == CHOOSE b \in Loaded(s) : TRUE
<1>1. /\ r.at = "email" /\ request' = [request EXCEPT ![s] = Idle] /\ UNCHANGED <<sent, shared>>
      /\ advice' = advice \/ advice' = [advice EXCEPT ![a].to = r.to]
      /\ mailbox' = mailbox \/ mailbox' = [mailbox EXCEPT ![VendorOf[a]] = r.to]
  BY DEF EmailCommit, Done
<1>2. r.to \in Address /\ a \in Advice
  BY <1>1 DEF DispatchInv, SenderOK, Loaded
<1>3. advice \in [Advice -> AdviceRow] /\ mailbox \in [Vendor -> Address \cup {Unset}]
  BY DEF DispatchInv, DispatchType
<1> HIDE DEF a, r
<1>4. /\ advice' \in [Advice -> AdviceRow]
      /\ \A b \in Advice : advice'[b].status = advice[b].status /\ advice'[b].count = advice[b].count
  BY <1>1, <1>2, <1>3 DEF AdviceRow
<1>5. mailbox' \in [Vendor -> Address \cup {Unset}]
  BY <1>1, <1>2, <1>3
<1> QED
  BY <1>1, <1>4, <1>5, GivenUpInv DEF r

LEMMA DeleteCommitInv == ASSUME DispatchInv, NEW s \in Sender, DeleteCommit(s) PROVE DispatchInv'
<1>1. /\ request[s].at = "delete" /\ request' = [request EXCEPT ![s] = Idle]
      /\ advice' = [a \in Advice |-> IF a \in Loaded(s) THEN Deleted ELSE advice[a]]
      /\ UNCHANGED <<mailbox, sent, shared>>
  BY DEF DeleteCommit, Done
<1>2. Deleted \in AdviceRow /\ Deleted.status = "deleted"
  BY DEF Deleted, NoAdvice, AdviceRow
<1>3. /\ \A a \in Loaded(s) : advice[a].status # "absent"
      /\ advice \in [Advice -> AdviceRow] /\ mailbox \in [Vendor -> Address \cup {Unset}]
  BY DEF DispatchInv, DispatchType, SenderOK, Loaded
<1>4. advice' \in [Advice -> AdviceRow]
  BY <1>1, <1>2, <1>3
<1> QED
  BY <1>1, <1>2, <1>3, <1>4, GivenUpInv

LEMMA DispatchStepInv == ASSUME DispatchInv, [DispatchNext]_dispatchVars PROVE DispatchInv'
<1>1. ASSUME NEW s \in Sender, NEW at \in {"send", "delete"}, NEW rows \in SUBSET Live, Load(s, at, rows)
      PROVE  DispatchInv'
  <2> DEFINE read == [a \in rows |-> advice[a]]
             x == [Idle EXCEPT !.at = at, !.rows = read]
  <2>1. /\ request[s].at = "idle" /\ rows # {} /\ UNCHANGED <<advice, mailbox, sent, shared>>
        /\ request' = [request EXCEPT ![s] = x]
    BY <1>1 DEF Load
  <2> HIDE DEF read
  <2>2. DOMAIN x = DOMAIN Idle /\ x.at = at /\ x.rows = read
    BY DEF Idle
  <2> HIDE DEF x
  <2>3. x.rows = [a \in rows |-> advice[a]]
    BY <2>2 DEF read
  <2> QED
    BY <1>1, <2>1, <2>2, <2>3, LoadInv
<1>2. ASSUME NEW s \in Sender, NEW f \in File \cup {Unset}, DispatchRead(s, f) PROVE DispatchInv'
  <2>1. Pending(f) \subseteq Live
    BY DEF Pending
  <2> QED
    BY <1>1, <1>2, <2>1 DEF DispatchRead
<1>3. ASSUME NEW s \in Sender, NEW rows \in SUBSET Advice, ResendRead(s, rows) \/ DeleteRead(s, rows)
      PROVE  DispatchInv'
  BY <1>1, <1>3 DEF ResendRead, DeleteRead
<1>4. ASSUME NEW s \in Sender, NEW a \in Advice, NEW to \in Address, NEW default \in BOOLEAN,
             EmailRead(s, a, to, default)
      PROVE  DispatchInv'
  <2> DEFINE read == [b \in {a} |-> advice[b]]
             x == [at |-> "email", rows |-> read, to |-> to, default |-> default,
                   box |-> mailbox[VendorOf[a]]]
  <2>1. /\ request[s].at = "idle" /\ a \in Live /\ UNCHANGED <<advice, mailbox, sent, shared>>
        /\ request' = [request EXCEPT ![s] = x]
    BY <1>4 DEF EmailRead
  <2> HIDE DEF read
  <2>2. DOMAIN x = DOMAIN Idle /\ x.at = "email" /\ x.rows = read /\ x.to \in Address
    BY DEF Idle
  <2> HIDE DEF x
  <2>3. x.rows = [b \in {a} |-> advice[b]] /\ {a} \in SUBSET Live /\ {a} # {}
    BY <2>1, <2>2 DEF read
  <2> QED
    BY <2>1, <2>2, <2>3, LoadInv
<1>5. ASSUME NEW s \in Sender, Abort(s) PROVE DispatchInv'
  BY <1>5, GivenUpInv DEF Abort, Done, DispatchInv, DispatchType
<1>6. CASE UNCHANGED dispatchVars
  BY <1>6 DEF dispatchVars, DispatchInv, DispatchType, SenderOK, Tallied, Live
<1> QED
  BY <1>2, <1>3, <1>4, <1>5, <1>6, FileMadeInv, SendCommitInv, EmailCommitInv,
     DeleteCommitInv DEF DispatchNext

\* What the advice page shows of an advice is how often it was sent, however
\* many requests dispatch, resend, redirect and delete the same rows, except
\* that it may show less of an advice two requests had loaded at one time to
\* send (send_single_remittance).
THEOREM CountsSendsHolds == DispatchSpec => []CountsSends
<1>1. DispatchInv => CountsSends
  <2> SUFFICES ASSUME DispatchInv, NEW a \in Live
               PROVE  /\ advice[a].count \in 0..sent[a]
                      /\ (advice[a].status = "sent") <=> (sent[a] > 0)
                      /\ (advice[a].count > 0) <=> (sent[a] > 0)
                      /\ a \notin shared => advice[a].count = sent[a]
    BY DEF CountsSends
  <2>1. a \in Advice /\ advice[a].count \in Nat /\ sent[a] \in Nat /\ Tallied(a)
    BY DEF Live, DispatchInv, DispatchType, AdviceRow
  <2> QED
    BY <2>1 DEF Tallied
<1> QED
  BY <1>1, DispatchInitInv, DispatchStepInv, PTL DEF DispatchSpec

-----------------------------------------------------------------------------
(* Sign-in.  However many attempts are in flight, and whenever the worker   *)
(* forgets: a window sees no more failures than the limit and twice those   *)
(* in flight.                                                               *)

\* What _prune keeps of the first i times.
Keeps(times, k) ==
    k = [i \in 0..Len(times) |->
            IF i = 0 THEN <<>>
            ELSE IF now - times[i] < Window THEN Append(k[i - 1], times[i]) ELSE k[i - 1]]

\* Pruned, unfolded.
LEMMA PrunedIs ==
    ASSUME NEW times PROVE Pruned(times) = (CHOOSE k : Keeps(times, k))[Len(times)]
  BY DEF Pruned, Keeps

\* Times in order, of which the first n are too old: the rest is what is kept.
LEMMA PrunedSuffix ==
    ASSUME NEW times \in Seq(Nat), now \in Nat, NEW n \in 0..Len(times),
           \A i \in 1..Len(times) : now - times[i] < Window <=> i > n
    PROVE  Pruned(times) = SubSeq(times, n + 1, Len(times))
<1> DEFINE N == Len(times)
           g == [i \in 0..N |-> IF i <= n THEN <<>> ELSE SubSeq(times, n + 1, i)]
<1>0. N \in Nat /\ n \in Nat
  OBVIOUS
<1>1. ASSUME NEW i \in 1..N, i > n
      PROVE  g[i] = Append(g[i - 1], times[i])
  <2>1. g[i] = SubSeq(times, n + 1, i)
    BY <1>0, <1>1
  <2>2. g[i - 1] = SubSeq(times, n + 1, i - 1)
    <3>1. CASE i = n + 1
      BY <1>0, <3>1, SubSeqEmpty
    <3>2. CASE i # n + 1
      BY <1>0, <1>1, <3>2
    <3> QED
      BY <3>1, <3>2
  <2>3. SubSeq(times, n + 1, i) = Append(SubSeq(times, n + 1, i - 1), times[i])
    BY <1>0, <1>1, SubSeqRecursiveSecond
  <2> QED
    BY <2>1, <2>2, <2>3
<1>2. Keeps(times, g)
  <2> DEFINE h == [i \in 0..N |->
                     IF i = 0 THEN <<>>
                     ELSE IF now - times[i] < Window THEN Append(g[i - 1], times[i]) ELSE g[i - 1]]
  <2>1. ASSUME NEW i \in 0..N PROVE g[i] = h[i]
    <3>1. CASE i = 0
      BY <1>0, <3>1
    <3>2. CASE i # 0 /\ i > n
      <4>1. g[i] = Append(g[i - 1], times[i]) /\ now - times[i] < Window
        <5> HIDE DEF g
        <5> QED
          BY <1>0, <1>1, <3>2
      <4>2. h[i] = Append(g[i - 1], times[i])
        <5> HIDE DEF g
        <5> QED
          BY <3>2, <4>1
      <4> QED
        BY <4>1, <4>2
    <3>3. CASE i # 0 /\ i <= n
      BY <1>0, <3>3
    <3> QED
      BY <1>0, <3>1, <3>2, <3>3
  <2>2. g = h
    BY <2>1
  <2> QED
    BY <2>2 DEF Keeps
<1>3. ASSUME NEW k, Keeps(times, k) PROVE k[N] = g[N]
  <2> DEFINE T == {i \in 0..N : k[i] # g[i]}
  <2> SUFFICES ASSUME T # {} PROVE FALSE
    BY <1>0
  <2>1. T \in SUBSET Nat
    OBVIOUS
  <2>2. PICK i \in T : \A j \in T : i <= j
    <3> HIDE DEF T
    <3> QED
      BY <2>1, LeastNumber
  <2>3. i \in 0..N /\ k[i] # g[i]
    OBVIOUS
  <2>4. i # 0 => k[i - 1] = g[i - 1]
    BY <1>0, <2>2
  <2>5. k[i] = IF i = 0 THEN <<>>
               ELSE IF now - times[i] < Window THEN Append(k[i - 1], times[i]) ELSE k[i - 1]
    BY <1>3 DEF Keeps
  <2>6. g[i] = IF i = 0 THEN <<>>
               ELSE IF now - times[i] < Window THEN Append(g[i - 1], times[i]) ELSE g[i - 1]
    <3> HIDE DEF g
    <3> QED
    BY <1>2 DEF Keeps
  <2> HIDE DEF g
  <2> QED
    BY <2>3, <2>4, <2>5, <2>6
<1>4. Pruned(times) = g[N]
  <2> HIDE DEF g
  <2> QED
    BY <1>2, <1>3, PrunedIs
<1> QED
  BY <1>0, <1>4, SubSeqEmpty

\* The failures of worker w in the window that begins at t, and its attempts past the check.
Failures(w, t) == {i \in DOMAIN misses[w] : misses[w][i] \in t..(t + Window - 1)}
InFlight(w) == {s \in Caller : serving[s] = w}

ThrottleTypes ==
    /\ now \in Nat
    /\ failed \in [Process -> Seq(Nat)] /\ misses \in [Process -> Seq(Nat)]
    /\ serving \in [Caller -> Process \cup {Nobody}]

\* A worker forgets the oldest failures only, and those only when the window is over.
Remembers(w) ==
    /\ \A i, j \in DOMAIN misses[w] : i <= j => misses[w][i] <= misses[w][j]
    /\ \A i \in DOMAIN misses[w] : misses[w][i] <= now
    /\ \E n \in 0..Len(misses[w]) :
          /\ failed[w] = SubSeq(misses[w], n + 1, Len(misses[w]))
          /\ \A i \in 1..n : now - misses[w][i] >= Window

\* How long after the last failure a locked worker refuses all attempts.
Closure == Lockout - Tick + 1

\* The lockout is long enough that a window sees attempts let in by its end only once.
LockoutCovers == Window <= 2 * Closure

\* At time n, with count failures in the window from t on and busy attempts in
\* flight: all can still fail.  late says that one failed after the closure.
Within(count, busy, n, t, late) ==
    LET most == MaxFailed - 1 + Cardinality(Caller)
    IN  /\ count <= most + Cardinality(Caller)
        /\ n < t + Window =>
              /\ count + busy <= most + Cardinality(Caller)
              /\ n < t + Closure => count + busy <= most
              /\ count <= most \/ late

FailedLate(w, t) == \E i \in DOMAIN misses[w] : misses[w][i] >= t + Closure

Bounded(w, t) ==
    Within(Cardinality(Failures(w, t)), Cardinality(InFlight(w)), now, t, FailedLate(w, t))

ThrottleInv ==
    /\ ThrottleTypes
    /\ \A w \in Process : Remembers(w) /\ \A t \in Nat : Bounded(w, t)

\* The end of a sequence.
LEMMA Suffix ==
    ASSUME NEW s \in Seq(Nat), NEW n \in 0..Len(s), NEW p, p = SubSeq(s, n + 1, Len(s))
    PROVE  p \in Seq(Nat) /\ Len(p) = Len(s) - n /\ \A i \in 1..Len(p) : p[i] = s[n + i]
<1>1. n + 1 \in 1..(Len(s) + 1) /\ Len(s) \in ((n + 1) - 1)..Len(s)
  OBVIOUS
<1>2. /\ SubSeq(s, n + 1, Len(s)) \in Seq(Nat)
      /\ Len(SubSeq(s, n + 1, Len(s))) = Len(s) - (n + 1) + 1
      /\ \A i \in 1..(Len(s) - (n + 1) + 1) : SubSeq(s, n + 1, Len(s))[i] = s[(n + 1) + i - 1]
  BY <1>1, SubSeqProperties
<1>3. Len(s) - (n + 1) + 1 = Len(s) - n
  OBVIOUS
<1>4. ASSUME NEW i \in 1..(Len(s) - n) PROVE p[i] = s[n + i]
  <2>1. (n + 1) + i - 1 = n + i
    OBVIOUS
  <2> QED
    BY <1>2, <1>3, <2>1
<1> QED
  BY <1>2, <1>3, <1>4

\* The limits are numbers, none of them zero.
LEMMA Positive ==
    /\ MaxFailed \in Nat \ {0} /\ Window \in Nat \ {0} /\ Lockout \in Nat \ {0} /\ Tick \in Nat \ {0}
  BY ThrottleAssumption

\* Times in order: those too old come first.
LEMMA SomeSuffix ==
    ASSUME now \in Nat, NEW f \in Seq(Nat), \A i, j \in 1..Len(f) : i <= j => f[i] <= f[j]
    PROVE  \E k \in 0..Len(f) : \A i \in 1..Len(f) : now - f[i] < Window <=> i > k
<1> DEFINE S == {i \in 0..Len(f) : \A j \in 1..Len(f) : j > i => now - f[j] < Window}
<1>0. Len(f) \in Nat /\ \A i \in 1..Len(f) : f[i] \in Nat
  OBVIOUS
<1>1. Len(f) \in S /\ S \in SUBSET Nat
  BY <1>0
<1>2. PICK k \in S : \A i \in S : k <= i
  <2> HIDE DEF S
  <2> QED
    BY <1>1, LeastNumber
<1>3. ASSUME NEW i \in 1..Len(f), i <= k, now - f[i] < Window PROVE FALSE
  <2>1. i - 1 \in 0..Len(f) /\ ~(k <= i - 1)
    BY <1>0, <1>3
  <2>2. ASSUME NEW j \in 1..Len(f), j > i - 1 PROVE now - f[j] < Window
    <3>1. i <= j /\ f[i] <= f[j] /\ f[i] \in Nat /\ f[j] \in Nat /\ Window \in Nat
      BY <1>0, <2>2, Positive
    <3> QED
      BY <1>3, <3>1, SMTT(30)
  <2> QED
    BY <1>2, <2>1, <2>2
<1> QED
  BY <1>2, <1>3, SMTT(30)

\* Pruning what a worker remembers is pruning what it has not forgotten.
LEMMA PrunedRemembers ==
    ASSUME ThrottleTypes, NEW w \in Process, Remembers(w)
    PROVE  \E n \in 0..Len(misses[w]) :
              /\ Pruned(failed[w]) = SubSeq(misses[w], n + 1, Len(misses[w]))
              /\ \A i \in 1..n : now - misses[w][i] >= Window
<1> DEFINE m == misses[w]
           f == failed[w]
<1>0. m \in Seq(Nat) /\ f \in Seq(Nat) /\ now \in Nat /\ Len(m) \in Nat
      /\ \A i \in 1..Len(m) : m[i] \in Nat
  BY DEF ThrottleTypes
<1>1. PICK n \in 0..Len(m) : /\ f = SubSeq(m, n + 1, Len(m))
                             /\ \A i \in 1..n : now - m[i] >= Window
  BY DEF Remembers
<1>2. Len(f) = Len(m) - n /\ \A i \in 1..Len(f) : f[i] = m[n + i]
  <2> HIDE DEF m, f
  <2> QED
    BY <1>0, <1>1, Suffix
<1>3. ASSUME NEW i \in 1..Len(f), NEW j \in 1..Len(f), i <= j PROVE f[i] <= f[j]
  <2>1. n + i \in DOMAIN m /\ n + j \in DOMAIN m /\ n + i <= n + j
    <3> HIDE DEF m, f
    <3> QED
      BY <1>0, <1>2, <1>3
  <2>2. m[n + i] <= m[n + j]
    BY <2>1 DEF Remembers
  <2> QED
    BY <1>2, <2>2
<1>4. PICK k \in 0..Len(f) : \A i \in 1..Len(f) : now - f[i] < Window <=> i > k
  BY <1>0, <1>3, SomeSuffix
<1> HIDE DEF m, f
<1>8. n + k \in 0..Len(m)
  BY <1>0, <1>2
<1>5. Pruned(f) = SubSeq(f, k + 1, Len(f))
  BY <1>0, <1>4, PrunedSuffix
<1>6. SubSeq(f, k + 1, Len(f)) = SubSeq(m, n + k + 1, Len(m))
  BY <1>0, <1>1, <1>2
<1>7. ASSUME NEW i \in 1..(n + k) PROVE now - m[i] >= Window
  <2>1. CASE i <= n
    BY <1>1, <2>1
  <2>2. CASE i > n
    <3>1. i - n \in 1..Len(f) /\ ~(i - n > k) /\ f[i - n] = m[i]
      BY <1>0, <1>2, <2>2, SMTT(30)
    <3>2. m[i] \in Nat /\ Window \in Nat
      BY <1>0, <1>2, <1>8, Positive
    <3>3. ~(now - f[i - n] < Window)
      BY <1>4, <3>1
    <3> QED
      BY <1>0, <3>1, <3>2, <3>3
  <2> QED
    BY <2>1, <2>2
<1> QED
  BY <1>5, <1>6, <1>7, <1>8 DEF m, f

\* Once the failures of a window reach the limit, attempts pass only when the
\* closure that began with the last of all failures is over.
LEMMA Locked ==
    ASSUME ThrottleTypes, NEW w \in Process, Remembers(w), NEW t \in Nat, now < t + Window,
           Cardinality(Failures(w, t)) >= MaxFailed, ~(Remaining(Pruned(failed[w])) > 0)
    PROVE  /\ \A i \in DOMAIN misses[w] : misses[w][i] + Closure <= now
           /\ \E i \in DOMAIN misses[w] : misses[w][i] >= t
<1> DEFINE m == misses[w]
           p == Pruned(failed[w])
<1>0. /\ m \in Seq(Nat) /\ now \in Nat /\ Len(m) \in Nat
      /\ \A i \in 1..Len(m) : m[i] \in Nat
  BY DEF ThrottleTypes
<1> USE Positive
<1>1. PICK n \in 0..Len(m) : p = SubSeq(m, n + 1, Len(m)) /\ \A i \in 1..n : now - m[i] >= Window
  <2> HIDE DEF p
  <2> QED
    BY PrunedRemembers DEF p
<1>2. Failures(w, t) \subseteq (n + 1)..Len(m)
  <2> SUFFICES ASSUME NEW i \in DOMAIN m, m[i] >= t PROVE i \in (n + 1)..Len(m)
    BY <1>0 DEF Failures
  <2> HIDE DEF m
  <2>1. i \in 1..Len(m) /\ m[i] \in Nat
    BY <1>0
  <2>2. ~(now - m[i] >= Window)
    BY <1>0, <2>1
  <2> QED
    BY <1>1, <2>1, <2>2
<1>3. Cardinality(Failures(w, t)) <= Len(m) - n /\ Cardinality(Failures(w, t)) \in Nat
  <2>1. IsFiniteSet((n + 1)..Len(m)) /\ Cardinality((n + 1)..Len(m)) = Len(m) - n
    <3> DEFINE a == n + 1
               b == Len(m)
    <3>1. a \in Int /\ b \in Int /\ a <= b + 1 /\ b - a + 1 = b - n
      <4> HIDE DEF m, p
      <4> QED
        BY <1>0
    <3> HIDE DEF a, b
    <3>2. IsFiniteSet(a..b) /\ Cardinality(a..b) = IF a > b THEN 0 ELSE b - a + 1
      BY <3>1, FS_Interval
    <3>3. Cardinality(a..b) = b - a + 1
      BY <3>1, <3>2
    <3> QED
      BY <3>1, <3>2, <3>3 DEF a, b
  <2> QED
    BY <1>2, <2>1, FS_Subset, FS_CardinalityType
<1>4. p \in Seq(Nat) /\ Len(p) = Len(m) - n /\ Len(p) >= MaxFailed /\ \A i \in 1..Len(p) : p[i] = m[n + i]
  <2> HIDE DEF m, p
  <2>1. p \in Seq(Nat) /\ Len(p) = Len(m) - n /\ \A i \in 1..Len(p) : p[i] = m[n + i]
    BY <1>0, <1>1, Suffix, SMTT(30)
  <2> QED
    BY <1>0, <1>3, <2>1
<1>5. Last(p) = m[Len(m)]
  <2> HIDE DEF m, p
  <2>1. Len(p) \in 1..Len(p) /\ n + Len(p) = Len(m)
    BY <1>0, <1>4
  <2>2. p[Len(p)] = m[Len(m)]
    BY <1>4, <2>1
  <2> QED
    BY <2>2 DEF Last
<1>6. Len(m) \in DOMAIN m /\ \A i \in DOMAIN m : m[i] <= m[Len(m)]
  <2>1. Len(m) \in 1..Len(m) /\ DOMAIN m = 1..Len(m)
    <3> HIDE DEF m, p
    <3> QED
      BY <1>0, <1>4
  <2>2. ASSUME NEW i \in DOMAIN m PROVE i <= Len(m)
    <3> HIDE DEF m
    <3> QED
      BY <1>0, <2>1, <2>2
  <2> QED
    BY <2>1, <2>2 DEF Remembers
<1>7. m[Len(m)] + Lockout - now < Tick
  <2> DEFINE left == m[Len(m)] + Lockout - now
  <2>0. left \in Int
    BY <1>0, <1>6
  <2>1. ~(left > 0 /\ left \div Tick > 0)
    <3>1. ~(Len(p) < MaxFailed)
      BY <1>0, <1>4
    <3>2. Remaining(p) = IF left > 0 THEN left \div Tick ELSE 0
      <4> HIDE DEF p
      <4> QED
        BY <1>5, <3>1 DEF Remaining
    <3> QED
      BY <3>2
  <2>2. left >= Tick => left \div Tick > 0
    <3> HIDE DEF left
    <3> QED
      BY <2>0
  <2> QED
    <3> HIDE DEF left
    <3>1. left < Tick
      BY <2>0, <2>1, <2>2
    <3> QED
      BY <3>1 DEF left
<1>8. \E i \in DOMAIN m : m[i] >= t
  <2>1. Failures(w, t) # {}
    <3>1. Cardinality(Failures(w, t)) # 0
      BY <1>3
    <3> QED
      BY <3>1, FS_EmptySet
  <2> QED
    BY <1>0, <2>1 DEF Failures
<1>9. ASSUME NEW i \in DOMAIN m PROVE m[i] + Closure <= now
  <2>1. m[i] <= m[Len(m)] /\ m[i] \in Nat /\ m[Len(m)] \in Nat
    <3>1. DOMAIN m = 1..Len(m)
      <4> HIDE DEF m
      <4> QED
        BY <1>0
    <3> QED
      BY <1>0, <1>6, <3>1
  <2> HIDE DEF m
  <2> QED
    BY <1>0, <1>7, <2>1, SMTT(30) DEF Closure
<1> QED
  BY <1>8, <1>9

\* What a step may do to a worker: time passes; an attempt is answered or refused;
\* one is let in; one fails; the failures are forgotten.
Waits(w) == now' = now + 1 /\ misses'[w] = misses[w] /\ failed'[w] = failed[w]
            /\ InFlight(w)' = InFlight(w)
Answers(w) == now' = now /\ misses'[w] = misses[w] /\ failed'[w] \in {failed[w], Pruned(failed[w])}
              /\ InFlight(w)' \subseteq InFlight(w)
Admits(w) == now' = now /\ misses'[w] = misses[w] /\ failed'[w] = Pruned(failed[w])
             /\ ~(Remaining(Pruned(failed[w])) > 0)
Fails(w) == now' = now /\ misses'[w] = Append(misses[w], now)
            /\ failed'[w] = Append(Pruned(failed[w]), now)
            /\ \E s \in InFlight(w) : InFlight(w)' = InFlight(w) \ {s}
Forgets(w) == now' = now /\ misses'[w] = <<>> /\ failed'[w] = <<>>
              /\ InFlight(w)' \subseteq InFlight(w)

\* Pruning leaves times.
LEMMA PrunedType == ASSUME ThrottleTypes, NEW w \in Process, Remembers(w) PROVE Pruned(failed[w]) \in Seq(Nat)
<1>1. misses[w] \in Seq(Nat)
  BY DEF ThrottleTypes
<1> QED
  BY <1>1, PrunedRemembers, Suffix

\* Whatever the step, each worker sees one of these.
LEMMA Effects ==
    ASSUME ThrottleTypes, \A w \in Process : Remembers(w), [ThrottleNext]_throttleVars, NEW w \in Process
    PROVE  /\ ThrottleTypes'
           /\ Waits(w) \/ Answers(w) \/ Admits(w) \/ Fails(w) \/ Forgets(w)
<1> USE DEF ThrottleTypes
<1>0. \A v \in Process : v # Nobody /\ Pruned(failed[v]) \in Seq(Nat)
  BY ThrottleAssumption, PrunedType
<1>1. CASE UNCHANGED throttleVars
  BY <1>1 DEF throttleVars, Answers, InFlight
<1>2. CASE Elapse
  BY <1>2 DEF Elapse, Waits, InFlight
<1>3. ASSUME NEW v \in Process, Restart(v)
      PROVE  ThrottleTypes' /\ (Answers(w) \/ Forgets(w))
  <2>1. ThrottleTypes'
    BY <1>3, EmptySeq DEF Restart, Forget
  <2>2. CASE v = w
    BY <1>0, <1>3, <2>2 DEF Restart, Forget, Forgets, InFlight
  <2>3. CASE v # w
    BY <1>0, <1>3, <2>3 DEF Restart, Forget, Answers, InFlight
  <2> QED
    BY <2>1, <2>2, <2>3
<1>4. ASSUME NEW v \in Process, NEW s \in Caller, Check(s, v)
      PROVE  ThrottleTypes' /\ (Answers(w) \/ Admits(w))
  <2>1. ThrottleTypes'
    <3>1. failed' = [failed EXCEPT ![v] = Pruned(failed[v])] /\ UNCHANGED <<now, misses>>
      BY <1>4 DEF Check
    <3>2. serving' = [serving EXCEPT ![s] = Nobody] \/ serving' = [serving EXCEPT ![s] = v]
      BY <1>4 DEF Check
    <3>3. Pruned(failed[v]) \in Seq(Nat)
      BY <1>0
    <3>4. failed' \in [Process -> Seq(Nat)]
      BY <3>1, <3>3
    <3>5. serving' \in [Caller -> Process \cup {Nobody}]
      BY <3>2
    <3> QED
      BY <3>1, <3>4, <3>5
  <2>2. CASE v = w /\ ~(Remaining(Pruned(failed[w])) > 0)
    BY <1>4, <2>1, <2>2 DEF Check, Admits
  <2>3. CASE v = w /\ Remaining(Pruned(failed[w])) > 0
    BY <1>0, <1>4, <2>3 DEF Check, Answers, InFlight
  <2>4. CASE v # w
    BY <1>0, <1>4, <2>4 DEF Check, Answers, InFlight
  <2> QED
    BY <2>1, <2>2, <2>3, <2>4
<1>5. ASSUME NEW s \in Caller, Wrong(s)
      PROVE  ThrottleTypes' /\ (Answers(w) \/ Fails(w))
  <2>1. serving[s] \in Process
    BY <1>5 DEF Wrong, Answer
  <2>2. PICK v \in Process : v = serving[s]
    BY <2>1
  <2>3. /\ now' = now /\ serving' = [serving EXCEPT ![s] = Nobody]
        /\ failed' = [failed EXCEPT ![v] = Append(Pruned(failed[v]), now)]
        /\ misses' = [misses EXCEPT ![v] = Append(misses[v], now)]
    BY <1>5, <2>2 DEF Wrong, Answer, Recorded
  <2>4. Append(Pruned(failed[v]), now) \in Seq(Nat) /\ Append(misses[v], now) \in Seq(Nat)
    BY <1>0
  <2>5. ThrottleTypes'
    BY <2>3, <2>4
  <2>6. CASE v = w
    <3>1. s \in InFlight(w) /\ InFlight(w)' = InFlight(w) \ {s}
      <4>1. w # Nobody /\ serving[s] = w
        BY <1>0, <2>2, <2>6
      <4>2. ASSUME NEW c \in Caller PROVE serving'[c] = w <=> serving[c] = w /\ c # s
        BY <2>3, <4>1
      <4> QED
        BY <4>1, <4>2 DEF InFlight
    <3> QED
      BY <2>3, <2>5, <2>6, <3>1 DEF Fails
  <2>7. CASE v # w
    BY <1>0, <2>3, <2>7 DEF Answers, InFlight
  <2> QED
    BY <2>5, <2>6, <2>7
<1>6. ASSUME NEW s \in Caller, Right(s)
      PROVE  ThrottleTypes' /\ (Answers(w) \/ Forgets(w))
  <2>1. serving[s] \in Process
    BY <1>6 DEF Right, Answer
  <2>2. ThrottleTypes'
    BY <1>6, <2>1, EmptySeq DEF Right, Answer, Forget
  <2>3. CASE serving[s] = w
    BY <1>0, <1>6, <2>3 DEF Right, Answer, Forget, Forgets, InFlight
  <2>4. CASE serving[s] # w
    BY <1>0, <1>6, <2>4 DEF Right, Answer, Forget, Answers, InFlight
  <2> QED
    BY <2>2, <2>3, <2>4
<1>7. ASSUME NEW s \in Caller, Inactive(s)
      PROVE  ThrottleTypes' /\ Answers(w)
  BY <1>0, <1>7 DEF Inactive, Answer, Answers, InFlight
<1> QED
  BY <1>1, <1>2, <1>3, <1>4, <1>5, <1>6, <1>7 DEF ThrottleNext

\* No step makes a worker forget a failure that is still in the window.
LEMMA NextRemembers ==
    ASSUME ThrottleTypes, NEW w \in Process, Remembers(w), ThrottleTypes',
           Waits(w) \/ Answers(w) \/ Admits(w) \/ Fails(w) \/ Forgets(w)
    PROVE  Remembers(w)'
<1> DEFINE m == misses[w]
<1>0. /\ m \in Seq(Nat) /\ Len(m) \in Nat /\ DOMAIN m = 1..Len(m) /\ \A i \in 1..Len(m) : m[i] \in Nat
      /\ now \in Nat
  BY DEF ThrottleTypes
<1>1. PICK n \in 0..Len(m) : /\ Pruned(failed[w]) = SubSeq(m, n + 1, Len(m))
                             /\ \A i \in 1..n : now - m[i] >= Window
  BY PrunedRemembers
<1>2. CASE Waits(w)
  <2>1. PICK k \in 0..Len(m) : failed[w] = SubSeq(m, k + 1, Len(m)) /\ \A i \in 1..k : now - m[i] >= Window
    BY DEF Remembers
  <2>2. \A i \in 1..k : now + 1 - m[i] >= Window
    <3> SUFFICES ASSUME NEW i \in 1..k PROVE now + 1 - m[i] >= Window
      OBVIOUS
    <3>1. m[i] \in Nat /\ now - m[i] >= Window
      BY <1>0, <2>1
    <3> HIDE DEF m
    <3> QED
      BY <1>0, <3>1, Positive
  <2>3. \A i \in DOMAIN m : m[i] <= now + 1
    <3> SUFFICES ASSUME NEW i \in DOMAIN m PROVE m[i] <= now + 1
      OBVIOUS
    <3>1. m[i] \in Nat /\ m[i] <= now
      BY <1>0 DEF Remembers
    <3> HIDE DEF m
    <3> QED
      BY <1>0, <3>1
  <2>4. misses'[w] = m /\ failed'[w] = failed[w] /\ now' = now + 1
    BY <1>2 DEF Waits
  <2>5. \A i, j \in DOMAIN m : i <= j => m[i] <= m[j]
    BY DEF Remembers
  <2>6. failed'[w] = SubSeq(m, k + 1, Len(m)) /\ \A i \in 1..k : now' - m[i] >= Window
    <3>1. failed'[w] = SubSeq(m, k + 1, Len(m))
      BY <2>1, <2>4
    <3>2. ASSUME NEW i \in 1..k PROVE now' - m[i] >= Window
      <4>1. now + 1 - m[i] >= Window /\ now' = now + 1 /\ m[i] \in Nat
        BY <1>0, <2>1, <2>2, <2>4
      <4> HIDE DEF m
      <4> QED
        BY <1>0, <4>1, Positive
    <3> QED
      BY <3>1, <3>2
  <2>7. \A i \in DOMAIN m : m[i] <= now'
    BY <2>3, <2>4
  <2> HIDE DEF m
  <2> QED
    BY <2>4, <2>5, <2>6, <2>7 DEF Remembers
<1>3. CASE Answers(w) \/ Admits(w)
  BY <1>1, <1>3 DEF Answers, Admits, Remembers
<1>4. CASE Fails(w)
  <2> DEFINE new == Append(m, now)
  <2>1. /\ new \in Seq(Nat) /\ Len(new) = Len(m) + 1 /\ new[Len(m) + 1] = now
        /\ \A i \in 1..Len(m) : new[i] = m[i]
    <3> HIDE DEF m
    <3> QED
      BY <1>0
  <2>2. Append(SubSeq(m, n + 1, Len(m)), now) = SubSeq(new, n + 1, Len(new))
    <3> HIDE DEF m
    <3> QED
      BY <1>0
  <2>3. n \in 0..Len(new) /\ \A i \in 1..n : now - new[i] >= Window
    <3> HIDE DEF new, m
    <3> QED
      BY <1>0, <1>1, <2>1
  <2>4. ASSUME NEW i \in DOMAIN new PROVE new[i] <= now
    <3>1. i \in DOMAIN m \/ i = Len(m) + 1
      <4> HIDE DEF m, new
      <4> QED
        BY <1>0, <2>1
    <3>2. CASE i \in DOMAIN m
      <4>1. m[i] <= now /\ new[i] = m[i]
        BY <1>0, <2>1, <3>2 DEF Remembers
      <4> QED
        BY <4>1
    <3>3. CASE i = Len(m) + 1
      <4> HIDE DEF m, new
      <4> QED
        BY <1>0, <2>1, <3>3
    <3> QED
      BY <3>1, <3>2, <3>3
  <2>5. ASSUME NEW i \in DOMAIN new, NEW j \in DOMAIN new, i <= j PROVE new[i] <= new[j]
    <3>1. CASE j = Len(m) + 1
      <4> HIDE DEF m, new
      <4> QED
        BY <2>1, <2>4, <3>1
    <3>2. CASE j # Len(m) + 1
      <4>1. i \in DOMAIN m /\ j \in DOMAIN m /\ new[i] = m[i] /\ new[j] = m[j]
        <5> HIDE DEF m, new
        <5> QED
          BY <1>0, <2>1, <2>5, <3>2, SMTT(30)
      <4>2. m[i] <= m[j]
        BY <2>5, <4>1 DEF Remembers
      <4> QED
        BY <4>1, <4>2
    <3> QED
      BY <3>1, <3>2
  <2>6. now' = now /\ misses'[w] = new /\ failed'[w] = SubSeq(new, n + 1, Len(new))
    BY <1>1, <1>4, <2>2 DEF Fails
  <2> HIDE DEF new
  <2> QED
    BY <2>3, <2>4, <2>5, <2>6 DEF Remembers
<1>5. CASE Forgets(w)
  <2>1. now' = now /\ misses'[w] = <<>> /\ failed'[w] = <<>>
    BY <1>5 DEF Forgets
  <2>2. SubSeq(<<>>, 1, 0) = <<>>
    BY SubSeqEmpty
  <2> QED
    BY <2>1, <2>2 DEF Remembers
<1> QED
  BY <1>2, <1>3, <1>4, <1>5

\* Indices of a sequence and sign-ins in flight can be counted.
LEMMA CountsOf ==
    ASSUME NEW m \in Seq(Nat), NEW F \in SUBSET DOMAIN m, NEW B \in SUBSET Caller
    PROVE  /\ IsFiniteSet(F) /\ Cardinality(F) \in Nat
           /\ IsFiniteSet(B) /\ Cardinality(B) \in Nat
           /\ Cardinality(Caller) \in Nat /\ Cardinality(B) <= Cardinality(Caller)
<1>1. IsFiniteSet(DOMAIN m)
  <2>1. Len(m) \in Nat /\ DOMAIN m = 1..Len(m)
    OBVIOUS
  <2> QED
    BY <2>1, FS_Interval
<1> QED
  BY <1>1, FS_Subset, FS_CardinalityType, ThrottleAssumption

\* So can the failures of a window and the attempts in flight.
LEMMA Counts ==
    ASSUME ThrottleTypes, NEW w \in Process, NEW t \in Nat
    PROVE  /\ IsFiniteSet(Failures(w, t)) /\ Cardinality(Failures(w, t)) \in Nat
           /\ IsFiniteSet(InFlight(w)) /\ Cardinality(InFlight(w)) \in Nat
           /\ Cardinality(Caller) \in Nat /\ Cardinality(InFlight(w)) <= Cardinality(Caller)
<1>1. misses[w] \in Seq(Nat) /\ Failures(w, t) \subseteq DOMAIN misses[w] /\ InFlight(w) \subseteq Caller
  BY DEF ThrottleTypes, Failures, InFlight
<1> QED
  BY <1>1, CountsOf

\* A failure counts in the windows it falls into.
LEMMA OneMoreFailure ==
    ASSUME ThrottleTypes, NEW w \in Process, NEW t \in Nat, misses'[w] = Append(misses[w], now)
    PROVE  Cardinality(Failures(w, t)') = Cardinality(Failures(w, t))
              + (IF now \in t..(t + Window - 1) THEN 1 ELSE 0)
<1> DEFINE m == misses[w]
           k == Len(m) + 1
           new == Append(m, now)
<1>0. m \in Seq(Nat) /\ now \in Nat /\ Len(m) \in Nat
  BY DEF ThrottleTypes
<1>1. DOMAIN m = 1..Len(m) /\ DOMAIN new = (DOMAIN m) \cup {k} /\ k \notin DOMAIN m
      /\ new[k] = now /\ \A i \in DOMAIN m : new[i] = m[i]
  <2> HIDE DEF m
  <2> QED
    BY <1>0
<1>2. misses'[w] = new
  OBVIOUS
<1> HIDE DEF new, k, m
<1>3. Failures(w, t)' = {i \in DOMAIN new : new[i] \in t..(t + Window - 1)}
      /\ Failures(w, t) = {i \in DOMAIN m : m[i] \in t..(t + Window - 1)}
  BY <1>2 DEF Failures, m
<1>4. CASE now \in t..(t + Window - 1)
  <2>1. Failures(w, t)' = Failures(w, t) \cup {k} /\ k \notin Failures(w, t)
    BY <1>1, <1>3, <1>4
  <2> QED
    BY <1>4, <2>1, Counts, FS_AddElement
<1>5. CASE now \notin t..(t + Window - 1)
  <2>1. Failures(w, t)' = Failures(w, t)
    BY <1>1, <1>3, <1>5
  <2> QED
    BY <1>5, <2>1, Counts
<1> QED
  BY <1>4, <1>5

\* No step breaks the bound of a window: attempts let in before its closure are
\* counted with those in flight, and only those in flight at the closure come after.
LEMMA NextBounded ==
    ASSUME LockoutCovers, ThrottleTypes, ThrottleTypes', NEW w \in Process, Remembers(w), NEW t \in Nat, Bounded(w, t),
           Waits(w) \/ Answers(w) \/ Admits(w) \/ Fails(w) \/ Forgets(w)
    PROVE  Bounded(w, t)'
<1> DEFINE count == Cardinality(Failures(w, t))
           busy == Cardinality(InFlight(w))
           most == MaxFailed - 1 + Cardinality(Caller)
           callers == Cardinality(Caller)
           late == FailedLate(w, t)
<1> USE Positive
<1>1. count \in Nat /\ busy \in Nat /\ callers \in Nat /\ busy <= callers /\ now \in Nat
  BY Counts DEF ThrottleTypes
<1>2. most \in Nat /\ most = MaxFailed - 1 + callers
  BY <1>1
<1>3. Closure \in Int
  BY DEF Closure
<1>4. count' \in Nat /\ busy' \in Nat /\ busy' <= callers /\ now' \in Nat
  <2>1. misses'[w] \in Seq(Nat) /\ Failures(w, t)' \subseteq DOMAIN misses'[w] /\ InFlight(w)' \subseteq Caller
        /\ now' \in Nat
    BY DEF ThrottleTypes, Failures, InFlight
  <2> QED
    BY <2>1, CountsOf
<1>5. /\ count <= most + callers
      /\ now < t + Window =>
            /\ count + busy <= most + callers
            /\ now < t + Closure => count + busy <= most
            /\ count <= most \/ late
  BY DEF Bounded, Within
<1>6. PICK c \in Nat, b \in Nat, n \in Nat : c = count' /\ b = busy' /\ n = now' /\ b <= callers
  BY <1>4
<1>7. b <= callers
  BY <1>6
<1>8. SUFFICES Within(c, b, n, t, late')
  <2> HIDE DEF count, busy, late, Within
  <2>1. Bounded(w, t)' <=> Within(count', busy', now', t, late')
    BY DEF Bounded, count, busy, late
  <2> QED
    BY <1>6, <2>1, Zenon
<1> DEFINE Goal == /\ c <= most + callers
                   /\ n < t + Window =>
                         /\ c + b <= most + callers
                         /\ n < t + Closure => c + b <= most
                         /\ c <= most \/ late'
<1>9. SUFFICES Goal
  <2> HIDE DEF late
  <2> QED
    BY Zenon DEF Within
<1>10. CASE Waits(w)
  <2>1. c = count /\ b = busy /\ (late' <=> late) /\ n = now + 1
    BY <1>6, <1>10 DEF Waits, Failures, FailedLate
  <2> HIDE DEF count, busy, most, late, callers
  <2> QED
    BY <1>1, <1>2, <1>3, <1>5, <2>1
<1>11. CASE Answers(w)
  <2>1. c = count /\ (late' <=> late) /\ n = now
    BY <1>6, <1>11 DEF Answers, Failures, FailedLate
  <2>2. b <= busy
    BY <1>6, <1>11, Counts, FS_Subset DEF Answers
  <2> HIDE DEF count, busy, most, late, callers
  <2>3. c + b <= count + busy
    BY <1>1, <1>7, <2>1, <2>2
  <2>4. c <= most + callers /\ (n < t + Window => c <= most \/ late')
    BY <1>5, <2>1
  <2>5. n < t + Window => c + b <= most + callers
    BY <1>1, <1>2, <1>5, <1>7, <2>1, <2>3
  <2>6. n < t + Window /\ n < t + Closure => c + b <= most
    BY <1>1, <1>2, <1>5, <1>7, <2>1, <2>3
  <2> QED
    BY <2>4, <2>5, <2>6
<1>12. CASE Admits(w)
  <2>1. c = count /\ (late' <=> late) /\ n = now
    BY <1>6, <1>12 DEF Admits, Failures, FailedLate
  <2>2. ASSUME now < t + Window, count >= MaxFailed
        PROVE  ~(now < t + Closure) /\ ~late
    <3>1. /\ \A i \in DOMAIN misses[w] : misses[w][i] + Closure <= now
          /\ \E i \in DOMAIN misses[w] : misses[w][i] >= t
      BY <1>12, <2>2, Locked DEF Admits
    <3>2. \A i \in DOMAIN misses[w] : misses[w][i] \in Nat
      BY DEF ThrottleTypes
    <3>3. ~(now < t + Closure)
      BY <1>1, <1>3, <3>1, <3>2
    <3>4. ASSUME NEW i \in DOMAIN misses[w], misses[w][i] >= t + Closure PROVE FALSE
      BY <1>1, <1>3, <2>2, <3>1, <3>2, <3>4 DEF LockoutCovers
    <3> QED
      BY <3>3, <3>4 DEF FailedLate
  <2> HIDE DEF count, busy, most, late, callers
  <2>3. c <= most + callers /\ (n < t + Window => c <= most \/ late')
    BY <1>5, <2>1
  <2>4. now < t + Window => count <= most
    BY <1>1, <1>2, <1>5, <2>2
  <2>5. n < t + Window => c + b <= most + callers
    BY <1>1, <1>2, <1>7, <2>1, <2>4
  <2>6. n < t + Window /\ n < t + Closure => c + b <= most
    <3>1. now < t + Window /\ now < t + Closure => count <= MaxFailed - 1
      BY <1>1, <2>2
    <3> QED
      BY <1>1, <1>2, <1>7, <2>1, <3>1
  <2> QED
    BY <2>3, <2>5, <2>6
<1>13. CASE Fails(w)
  <2>1. n = now /\ b = busy - 1
    <3>1. PICK s \in InFlight(w) : InFlight(w)' = InFlight(w) \ {s}
      BY <1>13 DEF Fails
    <3>2. Cardinality(InFlight(w) \ {s}) = Cardinality(InFlight(w)) - 1
      BY Counts, FS_RemoveElement
    <3> QED
      BY <1>6, <1>13, <3>1, <3>2 DEF Fails
  <2>2. c = count + (IF now \in t..(t + Window - 1) THEN 1 ELSE 0)
    BY <1>6, <1>13, OneMoreFailure DEF Fails
  <2>3. (late => late') /\ (now >= t + Closure => late')
    <3> DEFINE m == misses[w]
    <3>1. m \in Seq(Nat)
      BY DEF ThrottleTypes
    <3>2. misses'[w] = Append(m, now)
      BY <1>13 DEF Fails
    <3>3. /\ \A i \in DOMAIN m : i \in DOMAIN Append(m, now) /\ Append(m, now)[i] = m[i]
          /\ Len(m) + 1 \in DOMAIN Append(m, now) /\ Append(m, now)[Len(m) + 1] = now
      <4> HIDE DEF m
      <4> QED
        BY <1>1, <3>1
    <3> QED
      BY <3>2, <3>3 DEF FailedLate
  <2> HIDE DEF count, busy, most, late, callers
  <2> QED
    BY <1>1, <1>2, <1>3, <1>7, <1>5, <2>1, <2>2, <2>3
<1>14. CASE Forgets(w)
  <2>1. c = 0 /\ n = now
    <3>1. Failures(w, t)' = {}
      BY <1>14 DEF Forgets, Failures
    <3> QED
      BY <1>6, <1>14, <3>1, FS_EmptySet DEF Forgets
  <2> HIDE DEF count, busy, most, late, callers
  <2>2. c + b <= most
    BY <1>1, <1>2, <1>7, <2>1
  <2>3. c <= most /\ most <= most + callers
    BY <1>1, <1>2, <2>1
  <2> QED
    BY <1>1, <1>2, <1>7, <2>2, <2>3
<1> QED
  BY <1>10, <1>11, <1>12, <1>13, <1>14

\* The invariant of the throttle.
LEMMA ThrottleInvHolds == LockoutCovers => (ThrottleSpec => []ThrottleInv)
<1> SUFFICES ASSUME LockoutCovers PROVE ThrottleSpec => []ThrottleInv
  OBVIOUS
<1>1. ThrottleInit => ThrottleInv
  <2> SUFFICES ASSUME ThrottleInit PROVE ThrottleInv
    OBVIOUS
  <2>1. ThrottleTypes
    BY EmptySeq DEF ThrottleInit, ThrottleTypes
  <2>2. ASSUME NEW w \in Process PROVE Remembers(w)
    <3>1. misses[w] = <<>> /\ failed[w] = <<>>
      BY DEF ThrottleInit
    <3> QED
      BY <3>1, SubSeqEmpty DEF Remembers
  <2>3. ASSUME NEW w \in Process, NEW t \in Nat PROVE Bounded(w, t)
    <3>1. Failures(w, t) = {}
      BY DEF ThrottleInit, Failures
    <3>2. Cardinality(Failures(w, t)) = 0
      BY <3>1, FS_EmptySet
    <3> HIDE DEF Failures
    <3> QED
      BY <2>1, <3>2, Counts, Positive DEF Bounded, Within
  <2> QED
    BY <2>1, <2>2, <2>3 DEF ThrottleInv
<1>2. ThrottleInv /\ [ThrottleNext]_throttleVars => ThrottleInv'
  <2> SUFFICES ASSUME ThrottleInv, [ThrottleNext]_throttleVars PROVE ThrottleInv'
    OBVIOUS
  <2>1. ThrottleTypes /\ \A w \in Process : Remembers(w) /\ \A t \in Nat : Bounded(w, t)
    BY DEF ThrottleInv
  <2>2. ASSUME NEW w \in Process
        PROVE  ThrottleTypes' /\ (Waits(w) \/ Answers(w) \/ Admits(w) \/ Fails(w) \/ Forgets(w))
    BY <2>1, Effects
  <2>3. ThrottleTypes'
    <3>1. CASE Process # {}
      BY <2>2, <3>1
    <3>2. CASE Process = {}
      <4>1. \A s \in Caller : serving[s] = Nobody
        BY <2>1, <3>2 DEF ThrottleTypes
      <4>2. UNCHANGED throttleVars \/ Elapse
        BY <3>2, <4>1 DEF ThrottleNext, Wrong, Right, Inactive, Answer
      <4> QED
        BY <2>1, <4>2 DEF ThrottleTypes, Elapse, throttleVars
    <3> QED
      BY <3>1, <3>2
  <2>4. ASSUME NEW w \in Process PROVE Remembers(w)'
    BY <2>1, <2>2, <2>3, NextRemembers
  <2>5. ASSUME NEW w \in Process, NEW t \in Nat PROVE Bounded(w, t)'
    BY <2>1, <2>2, <2>3, NextBounded
  <2> QED
    BY <2>3, <2>4, <2>5 DEF ThrottleInv
<1> QED
  BY <1>1, <1>2, PTL DEF ThrottleSpec

\* In every window a worker lets at most MaxFailed - 1 attempts fail and those in
\* flight, twice (auth.py login, _login_retry_after, _record_failed_login), for any
\* number of workers and sign-ins, if the lockout covers the window as it does there.
THEOREM FailuresBoundedHolds == LockoutCovers => (ThrottleSpec => []FailuresBounded)
<1> SUFFICES ASSUME LockoutCovers PROVE ThrottleSpec => []FailuresBounded
  OBVIOUS
<1>1. ThrottleInv => FailuresBounded
  <2> SUFFICES ASSUME ThrottleInv, NEW w \in Process, NEW t \in 0..now
               PROVE  Cardinality({i \in DOMAIN misses[w] : misses[w][i] \in t..(t + Window - 1)})
                         <= MaxFailed - 1 + 2 * Cardinality(Caller)
    BY DEF FailuresBounded
  <2>1. t \in Nat /\ ThrottleTypes
    BY DEF ThrottleInv, ThrottleTypes
  <2>2. Bounded(w, t)
    BY <2>1 DEF ThrottleInv
  <2>3. Cardinality(Failures(w, t)) <= MaxFailed - 1 + Cardinality(Caller) + Cardinality(Caller)
    BY <2>2 DEF Bounded, Within
  <2>4. Cardinality(Failures(w, t)) <= MaxFailed - 1 + 2 * Cardinality(Caller)
    BY <2>1, <2>3, Counts, Positive
  <2> QED
    BY <2>4 DEF Failures
<1> QED
  BY <1>1, ThrottleInvHolds, PTL
=============================================================================
