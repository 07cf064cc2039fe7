---------------------------- MODULE LoginThrottle ----------------------------
(***************************************************************************)
(* The limit on failed sign-ins (api/v1/auth.py): each worker process      *)
(* keeps, in its own memory and for each client address and name, the      *)
(* times of the last failures.  login checks the list before it reads the  *)
(* account and adds to it after, so other attempts run in between.  The    *)
(* attempts modelled are those of one client and one name; what the row    *)
(* of the account says of an attempt is a choice among the three answers.  *)
(***************************************************************************)
EXTENDS Integers, FiniteSets, Sequences, SequencesExt

CONSTANTS
    Caller,     \* sign-ins served at once
    Process,
    MaxFailed,   \* _MAX_FAILED_LOGINS
    Window,      \* _LOGIN_WINDOW_SECONDS, in ticks
    Lockout,     \* _LOGIN_LOCKOUT_SECONDS, in ticks
    Tick,        \* ticks in a second
    Tries,       \* how many attempts there are (a bound)
    Time,        \* the last tick (a bound)
    Nobody

ASSUME ThrottleAssumption ==
    /\ {MaxFailed, Window, Lockout, Tick} \subseteq Nat \ {0}
    /\ Tries \in Nat /\ Time \in Nat /\ Nobody \notin Process /\ IsFiniteSet(Caller)

VARIABLES
    now,       \* time.monotonic()
    failed,    \* _failed_logins of each worker
    serving,   \* the worker each session is past the check on, Nobody when it is idle
    misses,    \* history: when attempts failed on each worker since it last forgot them
    tries      \* history: how many attempts there were

throttleVars == <<now, failed, serving, misses, tries>>

ThrottleInit ==
    /\ now = 0
    /\ failed = [w \in Process |-> <<>>]
    /\ serving = [s \in Caller |-> Nobody]
    /\ misses = [w \in Process |-> <<>>]
    /\ tries = 0

\* _prune: the times that are still in the window, in their order.
Pruned(times) ==
    LET kept[i \in 0..Len(times)] ==
            IF i = 0 THEN <<>>
            ELSE IF now - times[i] < Window THEN Append(kept[i - 1], times[i]) ELSE kept[i - 1]
    IN  kept[Len(times)]

\* _login_retry_after: what is left of the lockout is cut to whole seconds, and
\* with none left the attempt goes on.
Remaining(times) ==
    IF Len(times) < MaxFailed THEN 0
    ELSE LET left == Last(times) + Lockout - now
         IN  IF left > 0 THEN left \div Tick ELSE 0

\* _record_failed_login
\* Mutant: the failure takes the place of those before it.
RecordedAlone(times) == <<now>>
Recorded(times) == Append(Pruned(times), now)

\* login, up to the query of the account.
Check(s, w) ==
    /\ serving[s] = Nobody /\ tries < Tries
    /\ tries' = tries + 1
    /\ failed' = [failed EXCEPT ![w] = Pruned(@)]
    /\ serving' = [serving EXCEPT ![s] = IF Remaining(Pruned(failed[w])) > 0 THEN Nobody ELSE w]
    /\ UNCHANGED <<now, misses>>

Answer(s) == /\ serving[s] # Nobody
             /\ serving' = [serving EXCEPT ![s] = Nobody]
             /\ UNCHANGED <<now, tries>>

\* The rest of login: a wrong name or password is recorded, a right one clears
\* the record, and with an inactive account the record stays as it is.
Wrong(s) == /\ Answer(s)
            /\ failed' = [failed EXCEPT ![serving[s]] = Recorded(@)]
            /\ misses' = [misses EXCEPT ![serving[s]] = Append(@, now)]

Forget(w) == /\ failed' = [failed EXCEPT ![w] = <<>>]
             /\ misses' = [misses EXCEPT ![w] = <<>>]

Right(s) == Answer(s) /\ Forget(serving[s])

Inactive(s) == Answer(s) /\ UNCHANGED <<failed, misses>>

\* A worker restarts, and remembers nothing of what it was doing.
Restart(w) == /\ Forget(w)
              /\ serving' = [s \in Caller |-> IF serving[s] = w THEN Nobody ELSE serving[s]]
              /\ UNCHANGED <<now, tries>>

Elapse == now < Time /\ now' = now + 1 /\ UNCHANGED <<failed, serving, misses, tries>>

ThrottleNext ==
    \/ Elapse
    \/ \E w \in Process : Restart(w) \/ \E s \in Caller : Check(s, w)
    \/ \E s \in Caller : Wrong(s) \/ Right(s) \/ Inactive(s)

ThrottleSpec == ThrottleInit /\ [][ThrottleNext]_throttleVars

(***************************************************************************)
(* Between two successes and two restarts, a worker lets no more attempts  *)
(* fail within one window than the limit allows, plus those that were      *)
(* already past the check when the limit was reached (login awaits the     *)
(* account between the check and the record) - twice over, because the     *)
(* last second of a lockout is rounded to none and lets them in again      *)
(* before the first failures have left the window.                         *)
(***************************************************************************)
FailuresBounded ==
    \A w \in Process : \A t \in 0..now :
        Cardinality({i \in DOMAIN misses[w] : misses[w][i] \in t..(t + Window - 1)})
            <= MaxFailed - 1 + 2 * Cardinality(Caller)
=============================================================================
