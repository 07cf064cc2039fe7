----------------------------- MODULE KeyRotation -----------------------------
(***************************************************************************)
(* Bank details at rest and the change of their key (core/encryption.py,   *)
(* main.py lifespan, scripts/rotate_encryption_key.py): the columns that   *)
(* hold a value under some key, the keys in the environment and in the     *)
(* memory of each worker, the script that rewrites every value, and the    *)
(* operator who follows the procedure in encryption.py:                    *)
(*   configure a new key beside the old one and restart the workers; run   *)
(*   the script until it reports nothing left; remove the old key.         *)
(*                                                                         *)
(* Encryption is perfect: a value is read with its key and with no other.  *)
(* A column stands for the value as a whole, empty ones left out; Value    *)
(* are plain texts.                                                        *)
(***************************************************************************)
EXTENDS Naturals

CONSTANTS
    Worker,
    Column, Table, TableOf,   \* TARGETS
    Value,
    Key, Legacy,              \* Legacy is the published default key
    Lost,                     \* a key that is configured nowhere
    Clear,                    \* under no key: a row from before the encryption
    Writes,                   \* how many writes there are at most (a bound)
    None

ASSUME RotationAssumption ==
    /\ TableOf \in [Column -> Table]
    /\ Legacy \in Key /\ {Lost, Clear, None} \cap Key = {}
    /\ Lost # Clear /\ Clear # None /\ Lost # None
    /\ Writes \in Nat

VARIABLES
    store,     \* the columns of TARGETS
    env,       \* the environment: the primary key and the fallbacks
    cipher,    \* _cipher of each worker; Down when it does not run
    copying,   \* the request each worker serves: the column it writes, and what it holds
    script,    \* rotate_encryption_key.py
    clean,     \* its last report: nothing re-encrypted, nothing failed
    meant,     \* history: what each column should hold
    overwritten,   \* history: columns the script wrote over a change it had not read
    writes     \* history: how many writes there were

rotationVars == <<store, env, cipher, copying, script, clean, meant, overwritten, writes>>

Down == [primary |-> None, fallbacks |-> {}]
Free == [to |-> None, value |-> None, under |-> None]
Off  == [at |-> "off", cipher |-> Down, tables |-> {}, found |-> <<>>, updated |-> <<>>,
         stale |-> {}, failed |-> FALSE]

\* The rows are from before the key left the code: in the clear, under the
\* default key, or restored from elsewhere under a key nobody has.
RotationInit ==
    /\ store \in [Column -> [value : Value, under : {Legacy, Lost, Clear}]]
    /\ env = Down
    /\ cipher = [w \in Worker |-> Down]
    /\ copying = [w \in Worker |-> Free]
    /\ script = Off
    /\ clean = FALSE
    /\ meant = [c \in Column |-> store[c].value]
    /\ overwritten = {} /\ writes = 0

\* decrypt_bank_detail: what no key reads is returned as it is stored.
Keys(k) == {k.primary} \cup k.fallbacks
Readable(k, stored) == stored.under \in Keys(k) \cup {Clear}
Decrypted(k, stored) == IF Readable(k, stored) THEN [stored EXCEPT !.under = Clear] ELSE stored

\* encrypt_bank_detail: with the primary key, unless it looks encrypted already.
Encrypted(k, value) == IF value.under = Clear THEN [value EXCEPT !.under = k.primary] ELSE value

-----------------------------------------------------------------------------
(* The workers *)

\* lifespan: no key, or the published one, refuses to start (_load_keys).
Loadable == env.primary \notin {None, Legacy}
Start(w) == /\ Loadable
            /\ cipher' = [cipher EXCEPT ![w] = env]
            /\ copying' = [copying EXCEPT ![w] = Free]
            /\ UNCHANGED <<store, env, script, clean, meant, overwritten, writes>>

Stop(w) == /\ cipher[w] # Down
           /\ cipher' = [cipher EXCEPT ![w] = Down]
           /\ copying' = [copying EXCEPT ![w] = Free]
           /\ UNCHANGED <<store, env, script, clean, meant, overwritten, writes>>

\* A commit of one column; a row the script has updated is locked until it ends.
Written(c, stored, value) ==
    /\ writes < Writes /\ writes' = writes + 1
    /\ c \notin DOMAIN script.updated
    /\ store' = [store EXCEPT ![c] = stored]
    /\ meant' = [meant EXCEPT ![c] = value]
    /\ overwritten' = overwritten \ {c}

\* A new value, typed or imported.
Write(w, c, value) ==
    /\ cipher[w] # Down
    /\ Written(c, Encrypted(cipher[w], [value |-> value, under |-> Clear]), value)
    /\ UNCHANGED <<env, cipher, copying, script, clean>>

\* A value read from one column and written to another: a change request approved.
CopyRead(w, from, to) ==
    /\ cipher[w] # Down /\ copying[w] = Free
    /\ LET read == Decrypted(cipher[w], store[from])
       IN  copying' = [copying EXCEPT ![w] = [to |-> to, value |-> read.value, under |-> read.under]]
    /\ UNCHANGED <<store, env, cipher, script, clean, meant, overwritten, writes>>

CopyCommit(w) ==
    LET held == [value |-> copying[w].value, under |-> copying[w].under]
    IN  /\ copying[w] # Free
        /\ Written(copying[w].to, Encrypted(cipher[w], held), held.value)
        /\ copying' = [copying EXCEPT ![w] = Free]
        /\ UNCHANGED <<env, cipher, script, clean>>

-----------------------------------------------------------------------------
(* rotate_encryption_key.py *)

\* Step 2, when every worker that runs has been started with the keys.
ScriptStart ==
    /\ script.at = "off" /\ Loadable
    /\ \A w \in Worker : cipher[w] \in {Down, env}
    /\ script' = [Off EXCEPT !.at = "next", !.cipher = env, !.tables = Table]
    /\ UNCHANGED <<store, env, cipher, copying, clean, meant, overwritten, writes>>

ScriptRead(t) ==
    /\ script.at = "next" /\ t \in script.tables
    /\ script' = [script EXCEPT !.at = "update", !.tables = @ \ {t},
                     !.found = [c \in {d \in Column : TableOf[d] = t} |-> store[c]]]
    /\ UNCHANGED <<store, env, cipher, copying, clean, meant, overwritten, writes>>

\* _readable_by_primary: such a value needs nothing.
\* Mutant: nor does a value under a fallback.
AlreadyReadable(k, stored) == stored.under \in Keys(k)
Already(k, stored) == stored.under = k.primary

\* The values of the table, decrypted and encrypted again; what cannot be read
\* is skipped.
ScriptUpdate ==
    LET k == script.cipher
        found == script.found
        due == {c \in DOMAIN found : Readable(k, found[c]) /\ ~Already(k, found[c])}
    IN  /\ script.at = "update"
        /\ script' = [script EXCEPT !.at = "next", !.found = <<>>,
                         !.updated = [c \in due \cup DOMAIN @ |->
                                        IF c \in due THEN Encrypted(k, Decrypted(k, found[c]))
                                        ELSE script.updated[c]],
                         !.stale = @ \cup {c \in due : store[c] # found[c]},
                         !.failed = @ \/ \E c \in DOMAIN found : ~Readable(k, found[c])]
        /\ UNCHANGED <<store, env, cipher, copying, clean, meant, overwritten, writes>>

\* The commit and the report.
ScriptCommit ==
    /\ script.at = "next" /\ script.tables = {}
    /\ store' = [c \in Column |-> IF c \in DOMAIN script.updated THEN script.updated[c] ELSE store[c]]
    /\ overwritten' = overwritten \cup script.stale
    /\ clean' = (DOMAIN script.updated = {} /\ ~script.failed)
    /\ script' = Off
    /\ UNCHANGED <<env, cipher, copying, meant, writes>>

\* A dry run ends, or the script dies: all is rolled back.
ScriptRollback == /\ script.at # "off"
                  /\ script' = Off
                  /\ UNCHANGED <<store, env, cipher, copying, clean, meant, overwritten, writes>>

-----------------------------------------------------------------------------
(* The operator *)

\* Step 1, not while the script runs.
SetKey(k) ==
    /\ script.at = "off" /\ k # env.primary
    /\ env' = [primary   |-> k,
               fallbacks |-> (env.fallbacks \cup {IF env.primary = None THEN Legacy ELSE env.primary}) \ {k}]
    /\ clean' = FALSE
    /\ UNCHANGED <<store, cipher, copying, script, meant, overwritten, writes>>

\* Step 3, after a run that reported nothing re-encrypted and nothing failed.
RemoveFallbacks == /\ clean /\ env.fallbacks # {}
                   /\ env' = [env EXCEPT !.fallbacks = {}]
                   /\ clean' = FALSE
                   /\ UNCHANGED <<store, cipher, copying, script, meant, overwritten, writes>>

RotationNext ==
    \/ \E w \in Worker :
        \/ Start(w) \/ Stop(w) \/ CopyCommit(w)
        \/ \E c \in Column, v \in Value : Write(w, c, v)
        \/ \E from, to \in Column : from # to /\ CopyRead(w, from, to)
    \/ ScriptStart \/ ScriptUpdate \/ ScriptCommit \/ ScriptRollback \/ \E t \in Table : ScriptRead(t)
    \/ RemoveFallbacks \/ \E k \in Key : SetKey(k)

RotationSpec == RotationInit /\ [][RotationNext]_rotationVars

(***************************************************************************)
(* Rotation loses nothing (encryption.py's procedure, the Safety section   *)
(* of rotate_encryption_key.py): whatever the workers write meanwhile, and *)
(* wherever the script stops, every value can be read with the keys        *)
(* configured - or was under a key nobody has - and it is the value last   *)
(* written, unless the script had read the column before that write and    *)
(* wrote it after.                                                         *)
(***************************************************************************)
RotationKeeps ==
    \A c \in Column :
        /\ env # Down => store[c].under \in Keys(env) \cup {Clear, Lost}
        /\ c \notin overwritten => store[c].value = meant[c]
=============================================================================
