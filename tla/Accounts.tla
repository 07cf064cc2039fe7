------------------------------- MODULE Accounts -------------------------------
(***************************************************************************)
(* The accounts administrators manage (api/v1/users.py, api/v1/auth.py     *)
(* register and login, api/deps.py, scripts/create_user.py and             *)
(* scripts/promote_admin.py): the table users, the tokens that name its    *)
(* rows, and the requests that change it.                                  *)
(*                                                                         *)
(* An account is identified by one name; the address registered with it is *)
(* left out, and so are the failures the throttle counts.                  *)
(***************************************************************************)
EXTENDS Naturals

CONSTANTS
    Session,   \* requests and scripts that run at once
    Person,
    Password,
    Script,    \* who makes a change from the command line, without a token
    NoPassword

ASSUME AccountsAssumption == Script \notin Person /\ NoPassword \notin Password

VARIABLES
    users,     \* the table users
    tokens,    \* the accounts named by the tokens that are out and have not expired
    change,    \* what each session is about to write, and has loaded
    raced    \* history: an account deactivated meanwhile still deactivated another

accountsVars == <<users, tokens, change, raced>>

Absent == [role |-> "none", active |-> FALSE, password |-> NoPassword]
Account(role, password) == [role |-> role, active |-> TRUE, password |-> password]
Row == {Absent} \cup [role : {"admin", "user"}, active : BOOLEAN, password : Password]
Exists(p) == users[p] # Absent
NoChange == [at |-> "idle", by |-> Script, of |-> Script, row |-> Absent, to |-> Absent]

\* create_user.py has made the first administrator.
AccountsInit ==
    /\ \E p \in Person, w \in Password :
          users = [q \in Person |-> IF q = p THEN Account("admin", w) ELSE Absent]
    /\ tokens = {}
    /\ change = [s \in Session |-> NoChange]
    /\ raced = FALSE

\* login, of an attempt the throttle let in.
SignIn(p, password) ==
    /\ Exists(p) /\ users[p].active /\ users[p].password = password
    /\ tokens' = tokens \cup {p}
    /\ UNCHANGED <<users, change, raced>>

Expire(p) == /\ p \in tokens
             /\ tokens' = tokens \ {p}
             /\ UNCHANGED <<users, change, raced>>

\* get_current_user and require_admin: the row decides, once, as the request begins.
Admin(p) == p \in tokens /\ users[p].active /\ users[p].role = "admin"

Begin(s, by, of, to) ==
    /\ change[s].at = "idle"
    /\ change' = [change EXCEPT ![s] =
                     [at |-> "commit", by |-> by, of |-> of, row |-> users[of], to |-> to]]
    /\ UNCHANGED <<users, tokens, raced>>

\* create_user and create_user.py, and register_user, which gives no role but
\* that of a user: refused when the name is taken.
CreateRead(s, by, of, role, password) ==
    /\ by = Script \/ Admin(by)
    /\ ~Exists(of)
    /\ Begin(s, by, of, Account(role, password))

\* update_user_status.
\* Mutant: administrators may deactivate themselves.
MaySetAnyone(by, of, active) == Exists(of)
MaySet(by, of, active) == Exists(of) /\ (by = of => active)
StatusRead(s, by, of, active) ==
    /\ Admin(by) /\ MaySet(by, of, active)
    /\ Begin(s, by, of, [users[of] EXCEPT !.active = active])

\* reset_user_password.
ResetRead(s, by, of, password) ==
    /\ Admin(by) /\ Exists(of)
    /\ Begin(s, by, of, [users[of] EXCEPT !.password = password])

\* promote_admin.py: an account that exists gets the role and a password, and
\* is not made active; one that does not is created.
PromoteRead(s, of, password) ==
    Begin(s, Script, of, IF Exists(of) THEN [users[of] EXCEPT !.role = "admin", !.password = password]
                        ELSE Account("admin", password))

\* The commit: a new row, unless its name was taken meanwhile, or the columns
\* that differ from what was loaded.
Finish(s) ==
    LET r == change[s]
    IN  /\ r.at = "commit"
        /\ change' = [change EXCEPT ![s] = NoChange]
        /\ IF r.row = Absent /\ Exists(r.of)
           THEN UNCHANGED <<users, raced>>
           ELSE /\ users' = [users EXCEPT ![r.of] =
                               [role     |-> IF r.to.role = r.row.role THEN @.role ELSE r.to.role,
                                active   |-> IF r.to.active = r.row.active THEN @.active ELSE r.to.active,
                                password |-> IF r.to.password = r.row.password THEN @.password
                                             ELSE r.to.password]]
                /\ raced' = (raced \/ (r.by # Script /\ ~users[r.by].active /\ r.row.active /\ ~r.to.active))
        /\ UNCHANGED tokens

GiveUp(s) == /\ change[s].at # "idle"
            /\ change' = [change EXCEPT ![s] = NoChange]
            /\ UNCHANGED <<users, tokens, raced>>

AccountsNext ==
    \/ \E p \in Person : Expire(p) \/ \E w \in Password : SignIn(p, w)
    \/ \E s \in Session : Finish(s) \/ GiveUp(s)
    \/ \E s \in Session, of \in Person, w \in Password :
        \/ PromoteRead(s, of, w)
        \/ \E by \in Person \cup {Script}, role \in {"admin", "user"} : CreateRead(s, by, of, role, w)
        \/ \E by \in Person : ResetRead(s, by, of, w)
    \/ \E s \in Session, by \in Person, of \in Person, active \in BOOLEAN : StatusRead(s, by, of, active)

AccountsSpec == AccountsInit /\ [][AccountsNext]_accountsVars

(***************************************************************************)
(* An administrator who can sign in is always left, unless one whose own   *)
(* account had just been deactivated went on to deactivate another: each   *)
(* request reads its administrator once, as it begins, and                 *)
(* update_user_status refuses only to deactivate oneself.                  *)
(***************************************************************************)
AdminRemains == raced \/ \E p \in Person : users[p].active /\ users[p].role = "admin"
=============================================================================
