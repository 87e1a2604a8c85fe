----------------------------- MODULE LoginLimits -----------------------------
(***************************************************************************)
(* Guessing one account's password: the per-email limit on sign-ins        *)
(* (checkEmailRateLimit, in one process's memory) and the brute-force lock *)
(* of the users row, under sign-ins whose SELECT, Argon2 verify and UPDATE *)
(* interleave, an admin's unlock, restarts and time.                       *)
(*                                                                         *)
(* A time is kept relative to now, in units of the first lock's length: a  *)
(* Tick takes one off all of them, and none is followed past LOCK_DECAY    *)
(* ago.  lock_count is not followed past the 6 that LEAST reads.  What     *)
(* disabling an account, its sessions and the audit row add is in          *)
(* StaffAccounts; the throttle per address is the framework's.             *)
(***************************************************************************)
EXTENDS Integers

CONSTANTS
    SignIns,           \* sign-ins in flight at once
    Null,           \* SQL's NULL
    LOGIN_ATTEMPT_LIMIT, LOGIN_ATTEMPT_WINDOW,
    LOCK_THRESHOLD, LOCK_BASE, LOCK_MAX, LOCK_DECAY

ASSUME LimitConstants ==
    /\ LOGIN_ATTEMPT_LIMIT \in Nat /\ LOGIN_ATTEMPT_WINDOW \in Nat
    /\ {LOCK_THRESHOLD, LOCK_BASE, LOCK_MAX, LOCK_DECAY} \subseteq Nat \ {0}
    /\ LOCK_BASE <= LOCK_MAX
    /\ Null \notin Int

\* The code's 60 minutes and 15: LOCK_MAX stops the doubling before the 6 does.
ASSUME CapBeforeExponent == LOCK_MAX <= 64 * LOCK_BASE

VARIABLES
    user,       \* the account's row: the columns of the lock
    attempts,   \* loginAttempts of this email: how many, and how long they are kept
    signIn,        \* what each sign-in does next
    counted,    \* history: wrong passwords since a lock was in force, a good one, an unlock or a day without
    lastLock    \* history: length of the last lock since a good sign-in or an unlock, or 0

llvars == <<user, attempts, signIn, counted, lastLock>>

SignInStages == {"idle", "read", "verify", "dummy", "fail", "success"}

LeastOf(a, b) == IF a <= b THEN a ELSE b
Pow2 == <<1, 2, 4, 8, 16, 32, 64>>      \* POW(2, n) is Pow2[n + 1]

(* locked_until and last_failed_login_at: this long from now, or NULL. *)
LockTimes == {Null} \cup (-LOCK_DECAY)..LOCK_MAX
PastTimes == {Null} \cup (-LOCK_DECAY)..0
User == [locked_until : LockTimes, last_failed_login_at : PastTimes,
         failed_logins : 0..(LOCK_THRESHOLD - 1), lock_count : 0..6]

Decayed(time) == time # Null /\ time <= -LOCK_DECAY
isBruteForceLocked == user.locked_until # Null /\ user.locked_until > 0

LLInit ==
    /\ user = [locked_until |-> Null, last_failed_login_at |-> Null, failed_logins |-> 0, lock_count |-> 0]
    /\ attempts = [count |-> 0, ttl |-> 0]
    /\ signIn = [r \in SignIns |-> "idle"]
    /\ counted = 0 /\ lastLock = 0

-----------------------------------------------------------------------------
(* checkEmailRateLimit: a sign-in let in counts, and keeps the count for   *)
(* another window; one refused does neither.                               *)
Login(r) ==
    /\ signIn[r] = "idle"
    /\ attempts.count < LOGIN_ATTEMPT_LIMIT
    /\ attempts' = [count |-> attempts.count + 1, ttl |-> LOGIN_ATTEMPT_WINDOW]
    /\ signIn' = [signIn EXCEPT ![r] = "read"]
    /\ UNCHANGED <<user, counted, lastLock>>

\* Mutant: the lock is not looked at before the password is.
Read_LockNotSeen(r) ==
    /\ signIn[r] = "read"
    /\ signIn' = [signIn EXCEPT ![r] = "verify"]
    /\ UNCHANGED <<user, attempts, counted, lastLock>>

(* The SELECT decides which hash the password is verified against. *)
Read(r) ==
    /\ signIn[r] = "read"
    /\ signIn' = [signIn EXCEPT ![r] = IF isBruteForceLocked THEN "dummy" ELSE "verify"]
    /\ UNCHANGED <<user, attempts, counted, lastLock>>

(* The verify ends: right or wrong; against the dummy hash it is 401 either way. *)
Verify(r) ==
    /\ signIn[r] \in {"verify", "dummy"}
    /\ \E next \in {"fail", "success"} :
          signIn' = [signIn EXCEPT ![r] = IF signIn[r] = "dummy" THEN "idle" ELSE next]
    /\ UNCHANGED <<user, attempts, counted, lastLock>>

LockLength(lock_count) == LeastOf(LOCK_BASE * Pow2[LeastOf(lock_count, 6) + 1], LOCK_MAX)

\* Mutant: every SET expression sees the row as it was (SIMULTANEOUS_ASSIGNMENT).
Failed_Simultaneous(u) ==
    LET locks == u.failed_logins >= LOCK_THRESHOLD
    IN  [locked_until |-> IF locks THEN LockLength(u.lock_count) ELSE u.locked_until,
         last_failed_login_at |-> 0,
         failed_logins |-> IF locks THEN 0 ELSE u.failed_logins,
         lock_count |-> IF locks THEN LeastOf(u.lock_count + 1, 6) ELSE u.lock_count]

\* Mutant: the backoff decays as soon as the lock has ended.
Failed_DecaysAtOnce(u) ==
    LET lock_count == IF u.locked_until # Null /\ u.locked_until <= 0 THEN 0 ELSE u.lock_count
        failed_logins == (IF Decayed(u.last_failed_login_at) THEN 0 ELSE u.failed_logins) + 1
        locks == failed_logins >= LOCK_THRESHOLD
    IN  [locked_until |-> IF locks THEN LockLength(lock_count) ELSE u.locked_until,
         last_failed_login_at |-> 0,
         failed_logins |-> IF locks THEN 0 ELSE failed_logins,
         lock_count |-> IF locks THEN LeastOf(lock_count + 1, 6) ELSE lock_count]

(* The UPDATE of registerFailedAttempt: SET is evaluated left to right. *)
Failed(u) ==
    LET lock_count == IF Decayed(u.locked_until) THEN 0 ELSE u.lock_count
        failed_logins == (IF Decayed(u.last_failed_login_at) THEN 0 ELSE u.failed_logins) + 1
        locks == failed_logins >= LOCK_THRESHOLD
    IN  [locked_until |-> IF locks THEN LockLength(lock_count) ELSE u.locked_until,
         last_failed_login_at |-> 0,
         failed_logins |-> IF locks THEN 0 ELSE failed_logins,
         lock_count |-> IF locks THEN LeastOf(lock_count + 1, 6) ELSE lock_count]

(* This UPDATE has set a lock. *)
Locks == user'.locked_until # user.locked_until

registerFailedAttempt(r) ==
    /\ signIn[r] = "fail"
    /\ user' = Failed(user)
    /\ signIn' = [signIn EXCEPT ![r] = "idle"]
    /\ counted' = IF isBruteForceLocked' THEN 0
                  ELSE IF Decayed(user.last_failed_login_at) THEN 1 ELSE counted + 1
    /\ lastLock' = IF Locks THEN user'.locked_until ELSE lastLock
    /\ UNCHANGED attempts

(* The targeted UPDATE of a good sign-in, and resetEmailRateLimit. *)
Success(r) ==
    /\ signIn[r] = "success"
    /\ user' = [user EXCEPT !.failed_logins = 0, !.lock_count = 0]
    /\ attempts' = [count |-> 0, ttl |-> 0]
    /\ signIn' = [signIn EXCEPT ![r] = "idle"]
    /\ counted' = 0 /\ lastLock' = 0

(* An admin's unlock. *)
Unlock ==
    /\ user' = [user EXCEPT !.locked_until = Null, !.failed_logins = 0, !.lock_count = 0]
    /\ counted' = 0 /\ lastLock' = 0
    /\ UNCHANGED <<attempts, signIn>>

Earlier(time) == IF time = Null \/ time = -LOCK_DECAY THEN time ELSE time - 1

Tick ==
    /\ user' = [user EXCEPT !.locked_until = Earlier(@), !.last_failed_login_at = Earlier(@)]
    /\ attempts' = IF attempts.ttl <= 1 THEN [count |-> 0, ttl |-> 0]
                   ELSE [attempts EXCEPT !.ttl = @ - 1]
    /\ UNCHANGED <<signIn, counted, lastLock>>

(* The process restarts: its memory and the sign-ins in flight are lost. *)
Restart ==
    /\ attempts' = [count |-> 0, ttl |-> 0]
    /\ signIn' = [r \in SignIns |-> "idle"]
    /\ UNCHANGED <<user, counted, lastLock>>

LLNext ==
    \/ \E r \in SignIns :
          Login(r) \/ Read(r) \/ Verify(r) \/ registerFailedAttempt(r) \/ Success(r)
    \/ Unlock \/ Tick \/ Restart

LLSpec == LLInit /\ [][LLNext]_llvars

(* Time passes; nothing is asked of the sign-ins, which may come for ever. *)
LLLiveSpec == LLSpec /\ WF_llvars(Tick)

-----------------------------------------------------------------------------
(* The row stays in the ranges its columns and constants give it: no lock  *)
(* is longer than LOCK_MAX, and the count stays below the threshold.       *)
LLTypeOK ==
    /\ user \in User
    /\ attempts \in [count : 0..LOGIN_ATTEMPT_LIMIT, ttl : 0..LOGIN_ATTEMPT_WINDOW]
    /\ signIn \in [SignIns -> SignInStages]
    /\ counted \in Nat /\ lastLock \in 0..LOCK_MAX

(* No guess is lost: LOCK_THRESHOLD wrong passwords, none a LOCK_DECAY     *)
(* after the one before and with no good sign-in or unlock between them,   *)
(* lock the account, whatever else is in flight.                           *)
GuessesLeadToLock == counted < LOCK_THRESHOLD

(* A lock that follows another within LOCK_DECAY of its end, with no good  *)
(* sign-in or unlock between, is twice as long, up to LOCK_MAX.            *)
BackoffDoubles ==
    [][\A r \in SignIns :
          registerFailedAttempt(r) /\ Locks /\ lastLock > 0 /\ ~Decayed(user.locked_until)
             => user'.locked_until = LeastOf(2 * lastLock, LOCK_MAX)]_llvars

(* Nobody can keep an account locked: however sign-ins hammer it, again    *)
(* and again there is a moment at which the right password gets in.        *)
LockEnds == []<>~isBruteForceLocked
=============================================================================
