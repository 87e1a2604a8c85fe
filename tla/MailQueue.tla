----------------------------- MODULE MailQueue -----------------------------
(***************************************************************************)
(* Outgoing mail (mail.service.ts): the mail_log table, the in-process map *)
(* of rendered content, delivery attempts by send(), by the retry sweep    *)
(* and by an admin, and the process that may stop between any two steps.   *)
(*                                                                         *)
(* Each awaited statement, with the code that runs when it returns, is one *)
(* step.  A statement that fails has no effect.  The content of a mail is  *)
(* either at hand or not; next_retry_at is null, in the future ("later")   *)
(* or past ("due").  Left out: rendering, locales, the 8 s bound on        *)
(* awaitDelivery (it only ends the caller's wait) and the 90-day purge.    *)
(***************************************************************************)
EXTENDS Naturals, FiniteSets

CONSTANTS
    Mails,          \* rows of mail_log; a mail's first attempt is named after it
    Sweep, Admin,   \* the attempts of the retry sweep and of an admin's retry
    Retries,        \* the length of RETRY_DELAYS_MINUTES
    MaxPending,     \* MAX_PENDING
    MaxRetryNow,    \* bound: retries by an admin
    MaxErrors,      \* bound: UPDATEs that fail after sendMail
    MaxCrashes      \* bound: restarts of the process

ASSUME MailConstants ==
    /\ IsFiniteSet(Mails)
    /\ Sweep \notin Mails /\ Admin \notin Mails /\ Sweep # Admin
    /\ {Retries, MaxPending} \subseteq Nat \ {0}
    /\ {MaxRetryNow, MaxErrors, MaxCrashes} \subseteq Nat

MaxAttempts == 1 + Retries
Attempters == Mails \cup {Sweep, Admin}

VARIABLES
    row,        \* mail_log
    pending,    \* the map of rendered content, and whether an entry is terminal
    attempt,    \* calls of attemptDelivery in flight
    swept,      \* ids the running sweep has still to attempt
    sweeping,
    delivered,  \* history: how often the server accepted the mail
    lost,       \* history: acceptances of which the process did not hear, or that
                \* it did not write down
    retryNows, errors, crashes

vars == <<row, pending, attempt, swept, sweeping, delivered, lost, retryNows, errors, crashes>>
history == <<delivered, lost>>
bounds == <<retryNows, errors, crashes>>

Row == [status : {"none", "queued", "sent", "failed", "skipped"}, attempts : Nat,
        next : {"null", "later", "due"}, payload : BOOLEAN]
NoRow == [status |-> "none", attempts |-> 0, next |-> "null", payload |-> FALSE]
Attempt == [stage : {"idle", "load", "giveUp", "connect", "smtp", "accepted", "refused",
                     "failing"},
            mail : Mails \cup {Sweep}, attempts : Nat]
NoAttempt == [stage |-> "idle", mail |-> Sweep, attempts |-> 0]

TypeOK ==
    /\ row \in [Mails -> Row]
    /\ pending \in [Mails -> {"none", "live", "terminal"}]
    /\ attempt \in [Attempters -> Attempt]
    /\ swept \in SUBSET Mails
    /\ sweeping \in BOOLEAN
    /\ delivered \in [Mails -> Nat]
    /\ lost \in [Mails -> Nat]
    /\ {retryNows, errors, crashes} \subseteq Nat

Init ==
    /\ row = [m \in Mails |-> NoRow]
    /\ pending = [m \in Mails |-> "none"]
    /\ attempt = [w \in Attempters |-> NoAttempt]
    /\ swept = {}
    /\ sweeping = FALSE
    /\ delivered = [m \in Mails |-> 0]
    /\ lost = [m \in Mails |-> 0]
    /\ retryNows = 0 /\ errors = 0 /\ crashes = 0

-----------------------------------------------------------------------------
(* pending, and the place of an attempt                                    *)

Held == {m \in Mails : pending[m] # "none"}

\* evictIfAtCapacity, then pending.set: a full map gives up a terminal entry,
\* if it has one, and grows otherwise.
AddPending(m) ==
    LET ended == {v \in Mails : pending[v] = "terminal"} IN
    IF Cardinality(Held) < MaxPending \/ ended = {}
    THEN pending' = [pending EXCEPT ![m] = "live"]
    ELSE \E v \in ended : pending' = [pending EXCEPT ![v] = "none", ![m] = "live"]

Start(w, m) == attempt' = [attempt EXCEPT ![w] = [NoAttempt EXCEPT !.stage = "load", !.mail = m]]
Goto(w, stage) == attempt' = [attempt EXCEPT ![w].stage = stage]
End(w) == attempt' = [attempt EXCEPT ![w] = NoAttempt]

-----------------------------------------------------------------------------
(* send: the row is saved; a mail that is to be sent is attempted at once. *)

\* A mail with sensitive values has no payload.
Send(m, sensitive) ==
    /\ row[m] = NoRow
    /\ row' = [row EXCEPT ![m] = [NoRow EXCEPT !.status = "queued", !.payload = ~sensitive]]
    /\ AddPending(m)
    /\ Start(m, m)
    /\ UNCHANGED <<swept, sweeping, history, bounds>>

\* No recipient, mail switched off, or a template that cannot be rendered.
SendSkipped(m) ==
    /\ row[m] = NoRow
    /\ row' = [row EXCEPT ![m] = [NoRow EXCEPT !.status = "skipped"]]
    /\ UNCHANGED <<pending, attempt, swept, sweeping, history, bounds>>

-----------------------------------------------------------------------------
(* attemptDelivery                                                         *)

AttemptLoad(w) ==
    LET m == attempt[w].mail
        found == row[m].status # "sent"
        content == pending[m] # "none" \/ row[m].payload
        alive == row[m].status = "queued" \/ (row[m].status = "failed" /\ row[m].next # "null")
    IN
    /\ attempt[w].stage = "load"
    /\ \/ ~found /\ pending' = [pending EXCEPT ![m] = "none"] /\ End(w)
       \/ found /\ ~content /\ ~alive /\ End(w) /\ UNCHANGED pending
       \/ found /\ ~content /\ alive /\ Goto(w, "giveUp") /\ UNCHANGED pending
       \/ /\ found /\ content
          /\ IF pending[m] = "none" THEN AddPending(m) ELSE UNCHANGED pending
          /\ attempt' = [attempt EXCEPT ![w].stage = "connect",
                                        ![w].attempts = row[m].attempts + 1]
    /\ UNCHANGED <<row, swept, sweeping, history, bounds>>

\* "Content no longer available to retry".
AttemptGiveUp(w) ==
    LET m == attempt[w].mail IN
    /\ attempt[w].stage = "giveUp"
    /\ row' = [row EXCEPT ![m].status = "failed", ![m].next = "null"]
    /\ End(w)
    /\ UNCHANGED <<pending, swept, sweeping, history, bounds>>

\* getTransporter: a transport, or none because SMTP is not configured.
AttemptConnect(w) ==
    /\ attempt[w].stage = "connect"
    /\ Goto(w, "smtp") \/ Goto(w, "refused")
    /\ UNCHANGED <<row, pending, swept, sweeping, history, bounds>>

\* sendMail resolves, or it rejects: because the server did not take the mail, or
\* because its answer was lost (the connection broke or timed out after DATA).
AttemptSmtp(w) ==
    LET m == attempt[w].mail
        accepted == delivered' = [delivered EXCEPT ![m] = @ + 1]
    IN
    /\ attempt[w].stage = "smtp"
    /\ \/ Goto(w, "accepted") /\ accepted /\ UNCHANGED lost
       \/ Goto(w, "failing") /\ UNCHANGED history
       \/ Goto(w, "failing") /\ accepted /\ lost' = [lost EXCEPT ![m] = @ + 1]
    /\ UNCHANGED <<row, pending, swept, sweeping, bounds>>

AttemptRecordSent(w) ==
    LET m == attempt[w].mail IN
    /\ attempt[w].stage = "accepted"
    /\ row' = [row EXCEPT ![m] = [status |-> "sent", attempts |-> attempt[w].attempts,
                                  next |-> "null", payload |-> FALSE]]
    /\ pending' = [pending EXCEPT ![m] = "none"]
    /\ End(w)
    /\ UNCHANGED <<swept, sweeping, history, bounds>>

\* The UPDATE rejects inside the same try as sendMail: recorded as a failure.
AttemptSentUnrecorded(w) ==
    /\ attempt[w].stage = "accepted"
    /\ errors < MaxErrors
    /\ errors' = errors + 1
    /\ lost' = [lost EXCEPT ![attempt[w].mail] = @ + 1]
    /\ Goto(w, "failing")
    /\ UNCHANGED <<row, pending, swept, sweeping, delivered, retryNows, crashes>>

\* Mutant: no limit on attempts.
Terminal_OnlyForced(w) == attempt[w].stage = "refused"

Terminal(w) == attempt[w].stage = "refused" \/ attempt[w].attempts >= MaxAttempts

\* Now + RETRY_DELAYS_MINUTES[attempts - 1]: a date while the index is in range.
NextRetry(n) == IF n \in 1 .. Retries THEN "later" ELSE "invalid"

\* Mutant: a terminal failure keeps its payload.
FailedPayload_Kept(w, payload) == payload

FailedPayload(w, payload) == payload /\ ~Terminal(w)

AttemptRecordFailure(w) ==
    LET m == attempt[w].mail IN
    /\ attempt[w].stage \in {"failing", "refused"}
    /\ row' = [row EXCEPT ![m] =
                 [status |-> "failed", attempts |-> attempt[w].attempts,
                  next |-> IF Terminal(w) THEN "null" ELSE NextRetry(attempt[w].attempts),
                  payload |-> FailedPayload(w, row[m].payload)]]
    /\ pending' = [pending EXCEPT ![m] = IF @ = "none" THEN "none"
                                         ELSE IF Terminal(w) THEN "terminal" ELSE "live"]
    /\ End(w)
    /\ UNCHANGED <<swept, sweeping, history, bounds>>

\* Any statement, or getTransporter, throws: logged, and the attempt is over.  It
\* may do so at every attempt; only after sendMail, when the mail may have gone
\* out, is it counted.
AttemptThrows(w) ==
    /\ attempt[w].stage \in {"load", "giveUp", "connect", "failing", "refused"}
    /\ IF attempt[w].stage = "failing" THEN errors < MaxErrors /\ errors' = errors + 1
                                       ELSE UNCHANGED errors
    /\ End(w)
    /\ UNCHANGED <<row, pending, swept, sweeping, history, retryNows, crashes>>

-----------------------------------------------------------------------------
(* The retry sweep, an admin's retry, time and restarts                    *)

Ripen(m) ==
    /\ row[m].next = "later"
    /\ row' = [row EXCEPT ![m].next = "due"]
    /\ UNCHANGED <<pending, attempt, swept, sweeping, history, bounds>>

\* Mutant: the sweep looks for queued rows too.
DueRows_QueuedToo == {m \in Mails : row[m].status = "queued" \/ row[m].next = "due"}

DueRows == {m \in Mails : row[m].status = "failed" /\ row[m].next = "due"}

SweepStart ==
    /\ ~sweeping
    /\ DueRows # {}
    /\ sweeping' = TRUE
    /\ swept' = DueRows
    /\ UNCHANGED <<row, pending, attempt, history, bounds>>

SweepNext(m) ==
    /\ sweeping /\ attempt[Sweep] = NoAttempt
    /\ m \in swept
    /\ swept' = swept \ {m}
    /\ Start(Sweep, m)
    /\ UNCHANGED <<row, pending, sweeping, history, bounds>>

SweepEnd ==
    /\ sweeping /\ swept = {} /\ attempt[Sweep] = NoAttempt
    /\ sweeping' = FALSE
    /\ UNCHANGED <<row, pending, attempt, swept, history, bounds>>

\* POST /admin/mail/log/:id/retry.
RetryNow(m) ==
    /\ retryNows < MaxRetryNow
    /\ attempt[Admin] = NoAttempt
    /\ row[m].status \notin {"none", "sent"}
    /\ pending[m] # "none" \/ row[m].payload
    /\ retryNows' = retryNows + 1
    /\ Start(Admin, m)
    /\ UNCHANGED <<row, pending, swept, sweeping, history, errors, crashes>>

Crash ==
    /\ crashes < MaxCrashes
    /\ crashes' = crashes + 1
    /\ lost' = [m \in Mails |-> lost[m] + Cardinality({w \in Attempters :
                   attempt[w].stage = "accepted" /\ attempt[w].mail = m})]
    /\ pending' = [m \in Mails |-> "none"]
    /\ attempt' = [w \in Attempters |-> NoAttempt]
    /\ swept' = {}
    /\ sweeping' = FALSE
    /\ UNCHANGED <<row, delivered, retryNows, errors>>

AttemptStep(w) ==
    \/ AttemptLoad(w) \/ AttemptGiveUp(w) \/ AttemptConnect(w) \/ AttemptSmtp(w)
    \/ AttemptRecordSent(w) \/ AttemptRecordFailure(w)

Next ==
    \/ \E m \in Mails : \/ \E sensitive \in BOOLEAN : Send(m, sensitive)
                        \/ SendSkipped(m) \/ Ripen(m) \/ SweepNext(m) \/ RetryNow(m)
    \/ \E w \in Attempters : AttemptStep(w) \/ AttemptSentUnrecorded(w) \/ AttemptThrows(w)
    \/ SweepStart \/ SweepEnd \/ Crash

\* Statements and SMTP are answered (or time out), time passes, the interval
\* keeps firing.
Fairness ==
    /\ \A w \in Attempters : WF_vars(AttemptStep(w))
    /\ \A m \in Mails : WF_vars(Ripen(m))
    /\ WF_vars(SweepStart) /\ WF_vars(SweepEnd) /\ WF_vars(\E m \in Mails : SweepNext(m))

Spec == Init /\ [][Next]_vars /\ Fairness

-----------------------------------------------------------------------------
(* Properties                                                              *)

\* recordFailure and I-6: rendered content is in the database only for a mail
\* that may still be attempted by itself, whatever attempts of it overlapped.
ContentExpires ==
    \A m \in Mails : row[m].payload =>
        row[m].status = "queued" \/ (row[m].status = "failed" /\ row[m].next # "null")

\* FR-E-09 (mail.service.ts:14): three retries after the first try.  A row that
\* is scheduled has tries left, also after attempts that overlapped.
ScheduledHasTriesLeft ==
    \A m \in Mails : row[m].next # "null" => row[m].attempts \in 1 .. Retries

\* The log tells what was delivered, while no admin intervenes: a mail is marked
\* sent when it was accepted once more than acceptances were lost, and not marked
\* sent when there was none but those.  An acceptance is lost when its answer does
\* not arrive (sendMail rejects), when the UPDATE fails, or in a crash; overlapping
\* attempts, sweeps and retries never send a mail twice on their own account.
LogTellsDelivery ==
    retryNows = 0 => \A m \in Mails :
        LET recording == {w \in Attempters : attempt[w].stage = "accepted" /\ attempt[w].mail = m}
        IN delivered[m] = lost[m] + Cardinality(recording)
                            + (IF row[m].status = "sent" THEN 1 ELSE 0)

\* sweepRetries and recordFailure: the retries of a mail come to an end, through
\* overlapping attempts, lost answers, restarts and an admin's retries (finitely
\* many of both), unless attempts of this very mail go on throwing outside the
\* send path, which leaves its row as it was.  Another mail's throwing transport
\* does not hold it up.
Throwing(m) == \E w \in Attempters : attempt[w].mail = m /\ AttemptThrows(w)

RetriesEnd == \A m \in Mails : []<><<Throwing(m)>>_vars \/ <>[](row[m].next = "null")

\* mail.service.ts:14: "FR-E-09: 'retried three times with increasing delay' - read
\* as 3 retries after the first try, i.e. 4 attempts total", so retries end while
\* the database answers.  They do not if getTransporter keeps throwing, at a wrong
\* key or a damaged password (README, section 5).
StatementThrows == \E w \in Attempters : attempt[w].stage # "connect" /\ AttemptThrows(w)

RetriesAlwaysEnd == []<><<StatementThrows>>_vars \/ <>[](\A m \in Mails : row[m].next = "null")

\* mail.service.ts:34: "so a retry survives a process restart - the database,
\* not the in-process pending map, is the source of truth for what's still
\* deliverable": a mail whose content is stored is being attempted or scheduled.
\* The code does not keep this (README, section 5).
StoredMailIsDeliverable ==
    \A m \in Mails : row[m].payload =>
        \/ row[m].status = "failed" /\ row[m].next # "null"
        \/ \E w \in Attempters : attempt[w].stage # "idle" /\ attempt[w].mail = m

=============================================================================
