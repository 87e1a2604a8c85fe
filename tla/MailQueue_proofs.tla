-------------------------- MODULE MailQueue_proofs --------------------------
(***************************************************************************)
(* Proofs about MailQueue, for any mails, number of retries, size of the   *)
(* pending map and number of faults.                                       *)
(***************************************************************************)
EXTENDS MailQueue, FiniteSetTheorems, TLAPS

Stages == {"idle", "load", "giveUp", "connect", "smtp", "accepted", "refused", "failing"}
Delivering == {"connect", "smtp", "accepted", "refused", "failing"}

\* A row that was never written is as it was created, an attempt in flight is
\* of a mail that was sent, and what it carries from load to the record.
RowsSound ==
    /\ \A m \in Mails : row[m].status = "none" => row[m] = NoRow
    /\ \A m \in swept : row[m].status # "none"
AttemptsSound ==
    \A w \in Attempters : attempt[w].stage # "idle" =>
        /\ attempt[w].mail \in Mails
        /\ row[attempt[w].mail].status # "none"
        /\ attempt[w].stage = "giveUp" => ~row[attempt[w].mail].payload
        /\ attempt[w].stage \in Delivering => attempt[w].attempts > 0

Inv == TypeOK /\ RowsSound /\ AttemptsSound /\ ContentExpires /\ ScheduledHasTriesLeft

-----------------------------------------------------------------------------
(* Lemmas                                                                  *)

LEMMA Settings == /\ Retries \in Nat \ {0} /\ MaxAttempts \in Nat
                  /\ Sweep \in Attempters /\ Admin \in Attempters /\ Mails \subseteq Attempters
                  /\ Sweep \notin Mails /\ Admin \notin Mails /\ Sweep # Admin
  BY MailConstants DEF MaxAttempts, Attempters

\* The attempts of a mail that was accepted and is not yet recorded.
Recording(m) == {w \in Attempters : attempt[w].stage = "accepted" /\ attempt[w].mail = m}

LEMMA RecordingFinite ==
    ASSUME NEW m
    PROVE  IsFiniteSet(Recording(m)) /\ Cardinality(Recording(m)) \in Nat
<1>1. IsFiniteSet(Attempters)
  <2>1. IsFiniteSet(Mails \cup {Sweep}) /\ IsFiniteSet((Mails \cup {Sweep}) \cup {Admin})
    BY MailConstants, FS_AddElement
  <2>2. Attempters = (Mails \cup {Sweep}) \cup {Admin}
    BY DEF Attempters
  <2> QED
    BY <2>1, <2>2
<1>2. Recording(m) \in SUBSET Attempters
  BY DEF Recording
<1> QED
  BY <1>1, <1>2, FS_Subset, FS_CardinalityType

LEMMA InitInv == Init => Inv
<1> SUFFICES ASSUME Init
             PROVE  Inv
  OBVIOUS
<1> USE DEF Init
<1>1. NoRow \in Row /\ NoAttempt \in Attempt /\ NoRow.payload = FALSE /\ NoRow.next = "null"
  BY DEF NoRow, Row, NoAttempt, Attempt
<1>2. TypeOK
  <2>1. row \in [Mails -> Row] /\ attempt \in [Attempters -> Attempt]
    BY <1>1
  <2>2. {retryNows, errors, crashes} \subseteq Nat /\ swept \in SUBSET Mails
    OBVIOUS
  <2> QED
    BY <2>1, <2>2 DEF TypeOK
<1>3. AttemptsSound
  BY DEF AttemptsSound, NoAttempt
<1> QED
  BY <1>1, <1>2, <1>3 DEF Inv, RowsSound, ContentExpires, ScheduledHasTriesLeft

\* A failure that is not the last one has a date for the next attempt.
LEMMA NextRetryDates ==
    ASSUME Inv, NEW w \in Attempters, attempt[w].stage \in Delivering, ~ Terminal(w)
    PROVE  /\ attempt[w].attempts \in 1 .. Retries
           /\ NextRetry(attempt[w].attempts) = "later"
  BY Settings DEF Inv, TypeOK, Attempt, AttemptsSound, Delivering, Terminal, MaxAttempts, NextRetry

\* Moving, starting or ending an attempt.
LEMMA AttemptTypes ==
    ASSUME TypeOK, NEW w \in Attempters
    PROVE  /\ \A stage \in Stages : Goto(w, stage) => attempt' \in [Attempters -> Attempt]
           /\ End(w) => attempt' \in [Attempters -> Attempt]
           /\ \A m \in Mails : Start(w, m) => attempt' \in [Attempters -> Attempt]
<1>1. attempt \in [Attempters -> Attempt]
  BY DEF TypeOK
<1>2. ASSUME NEW stage \in Stages, Goto(w, stage)
      PROVE  attempt' \in [Attempters -> Attempt]
  <2>1. [attempt[w] EXCEPT !.stage = stage] \in Attempt
    BY <1>1 DEF Attempt, Stages
  <2> QED
    BY <1>1, <1>2, <2>1 DEF Goto
<1>3. NoAttempt \in Attempt /\ \A m \in Mails : [NoAttempt EXCEPT !.stage = "load", !.mail = m] \in Attempt
  BY DEF NoAttempt, Attempt
<1> QED
  BY <1>1, <1>2, <1>3 DEF End, Start

LEMMA AddPendingTypes ==
    ASSUME TypeOK, NEW m \in Mails, AddPending(m)
    PROVE  pending' \in [Mails -> {"none", "live", "terminal"}]
  BY DEF TypeOK, AddPending

\* A step that leaves the rows and the sweep's list as they are.
LEMMA RowsUntouched ==
    ASSUME Inv, TypeOK', UNCHANGED row, swept' \subseteq swept, AttemptsSound'
    PROVE  Inv'
  BY DEF Inv, RowsSound, ContentExpires, ScheduledHasTriesLeft

\* Attempts other than w stay, and w ends or moves on with what it has.
LEMMA AttemptMoves ==
    ASSUME Inv, NEW w \in Attempters, UNCHANGED row,
           \/ End(w)
           \/ \E stage \in Delivering : Goto(w, stage) /\ attempt[w].stage \in Delivering
    PROVE  AttemptsSound'
  BY DEF Inv, TypeOK, AttemptsSound, Goto, End, NoAttempt, Attempt, Delivering

-----------------------------------------------------------------------------
(* One step at a time                                                      *)

LEMMA SendInv ==
    ASSUME Inv, NEW m \in Mails, NEW sensitive \in BOOLEAN, Send(m, sensitive)
    PROVE  Inv'
<1> USE DEF Inv
<1> DEFINE new == [NoRow EXCEPT !.status = "queued", !.payload = ~sensitive]
<1>1. new \in Row /\ new.status = "queued" /\ new.next = "null" /\ new.attempts = 0
  BY DEF NoRow, Row
<1>2. row' = [row EXCEPT ![m] = new]
  BY DEF Send
<1> HIDE DEF new
<1>3. row'[m] = new /\ \A k \in Mails \ {m} : row'[k] = row[k]
  BY <1>2 DEF TypeOK
<1>4. TypeOK'
  BY <1>1, <1>2, AttemptTypes, AddPendingTypes, Settings DEF Send, TypeOK, history, bounds
<1>5. \A w \in Attempters : attempt[w].stage # "idle" => attempt[w].mail # m
  BY DEF Send, AttemptsSound, NoRow
<1>6. /\ attempt'[m].stage = "load" /\ attempt'[m].mail = m
      /\ \A w \in Attempters \ {m} : attempt'[w] = attempt[w]
  BY Settings DEF Send, Start, TypeOK, NoAttempt
<1>7. AttemptsSound'
  <2> SUFFICES ASSUME NEW w \in Attempters, attempt'[w].stage # "idle"
               PROVE  /\ attempt'[w].mail \in Mails
                      /\ row'[attempt'[w].mail].status # "none"
                      /\ attempt'[w].stage = "giveUp" => ~row'[attempt'[w].mail].payload
                      /\ attempt'[w].stage \in Delivering => attempt'[w].attempts > 0
    BY DEF AttemptsSound
  <2>1. CASE w = m
    BY <1>1, <1>3, <1>6, <2>1 DEF Delivering
  <2>2. CASE w # m
    BY <1>3, <1>5, <1>6, <2>2 DEF AttemptsSound
  <2> QED
    BY <2>1, <2>2
<1> QED
  BY <1>1, <1>3, <1>4, <1>7 DEF Send, RowsSound, ContentExpires, ScheduledHasTriesLeft

LEMMA SkippedInv ==
    ASSUME Inv, NEW m \in Mails, SendSkipped(m)
    PROVE  Inv'
<1> USE DEF Inv
<1> DEFINE new == [NoRow EXCEPT !.status = "skipped"]
<1>1. new \in Row /\ new.status = "skipped" /\ new.next = "null" /\ ~ new.payload
  BY DEF NoRow, Row
<1>2. row' = [row EXCEPT ![m] = new]
  BY DEF SendSkipped
<1> HIDE DEF new
<1>3. row'[m] = new /\ \A k \in Mails \ {m} : row'[k] = row[k]
  BY <1>2 DEF TypeOK
<1>4. TypeOK'
  BY <1>1, <1>2 DEF SendSkipped, TypeOK, history, bounds
<1>5. AttemptsSound'
  <2>1. attempt' = attempt
    BY DEF SendSkipped
  <2> QED
    BY <1>1, <1>3, <2>1 DEF AttemptsSound
<1>6. swept' = swept
  BY DEF SendSkipped
<1>7. RowsSound'
  BY <1>1, <1>3, <1>6, <1>4 DEF RowsSound, TypeOK
<1> QED
  BY <1>1, <1>3, <1>4, <1>5, <1>7 DEF ContentExpires, ScheduledHasTriesLeft

\* A statement of an attempt that writes its mail's row and ends the attempt.
LEMMA RecordInv ==
    ASSUME Inv, NEW w \in Attempters, attempt[w].stage # "idle", End(w),
           NEW new \in Row, row' = [row EXCEPT ![attempt[w].mail] = new],
           new.status \in {"sent", "failed"},
           new.payload => row[attempt[w].mail].payload /\ new.status = "failed" /\ new.next # "null",
           new.next # "null" => new.attempts \in 1 .. Retries,
           pending' \in [Mails -> {"none", "live", "terminal"}],
           UNCHANGED <<swept, sweeping, history, bounds>>
    PROVE  Inv'
<1> USE DEF Inv
<1> DEFINE m == attempt[w].mail
<1>1. m \in Mails
  BY DEF AttemptsSound
<1>2. row'[m] = new /\ \A k \in Mails \ {m} : row'[k] = row[k]
  BY <1>1 DEF TypeOK
<1>3. TypeOK'
  BY AttemptTypes DEF TypeOK, history, bounds
<1>4. attempt'[w] = NoAttempt /\ \A v \in Attempters \ {w} : attempt'[v] = attempt[v]
  BY DEF End, TypeOK
<1>5. AttemptsSound'
  BY <1>1, <1>2, <1>4 DEF AttemptsSound, NoAttempt, Delivering
<1> QED
  BY <1>1, <1>2, <1>3, <1>5 DEF RowsSound, ContentExpires, ScheduledHasTriesLeft

LEMMA LoadInv ==
    ASSUME Inv, NEW w \in Attempters, AttemptLoad(w)
    PROVE  Inv'
<1> USE DEF Inv
<1> DEFINE m == attempt[w].mail
<1>1. m \in Mails /\ row[m] \in Row /\ attempt[w] \in Attempt /\ row[m].status # "none"
  BY DEF AttemptLoad, AttemptsSound, TypeOK
<1>2. UNCHANGED <<row, swept, sweeping, history, bounds>>
  BY DEF AttemptLoad
<1>3. CASE End(w)
  <2>1. pending' \in [Mails -> {"none", "live", "terminal"}]
    BY <1>1, <1>3, AddPendingTypes DEF AttemptLoad, TypeOK
  <2>2. TypeOK'
    BY <1>2, <1>3, <2>1, AttemptTypes DEF TypeOK, history, bounds
  <2> QED
    BY <1>2, <1>3, <2>2, AttemptMoves, RowsUntouched
<1>4. CASE ~ row[m].payload /\ Goto(w, "giveUp") /\ UNCHANGED pending
  <2>1. TypeOK'
    BY <1>2, <1>4, AttemptTypes DEF TypeOK, history, bounds, Stages
  <2>2. /\ attempt'[w] = [attempt[w] EXCEPT !.stage = "giveUp"]
        /\ \A v \in Attempters \ {w} : attempt'[v] = attempt[v]
    BY <1>4 DEF Goto, TypeOK
  <2>3. AttemptsSound'
    BY <1>1, <1>2, <1>4, <2>2 DEF AttemptsSound, Delivering, Attempt
  <2> QED
    BY <1>2, <2>1, <2>3, RowsUntouched
<1>5. CASE /\ IF pending[m] = "none" THEN AddPending(m) ELSE UNCHANGED pending
           /\ attempt' = [attempt EXCEPT ![w].stage = "connect",
                                         ![w].attempts = row[m].attempts + 1]
  <2> DEFINE moved == [attempt[w] EXCEPT !.stage = "connect", !.attempts = row[m].attempts + 1]
  <2>1. moved \in Attempt /\ moved.mail = m /\ moved.stage = "connect" /\ moved.attempts > 0
    <3>1. row[m].attempts + 1 \in Nat /\ row[m].attempts + 1 > 0
      BY <1>1 DEF Row
    <3> DEFINE n == row[m].attempts + 1
    <3> HIDE DEF n
    <3>2. [attempt[w] EXCEPT !.stage = "connect", !.attempts = n] \in Attempt
      BY <1>1, <3>1 DEF Attempt, n
    <3> QED
      BY <1>1, <3>1, <3>2 DEF Attempt, n
  <2>2. attempt' = [attempt EXCEPT ![w] = moved]
    BY <1>5 DEF TypeOK
  <2> HIDE DEF moved
  <2>3. attempt'[w] = moved /\ \A v \in Attempters \ {w} : attempt'[v] = attempt[v]
    BY <2>2 DEF TypeOK
  <2>4. pending' \in [Mails -> {"none", "live", "terminal"}]
    BY <1>1, <1>5, AddPendingTypes DEF TypeOK
  <2>5. TypeOK'
    BY <1>2, <2>1, <2>2, <2>4 DEF TypeOK, history, bounds
  <2>6. AttemptsSound'
    BY <1>1, <1>2, <2>1, <2>3 DEF AttemptsSound
  <2> QED
    BY <1>2, <2>5, <2>6, RowsUntouched
<1> QED
  BY <1>3, <1>4, <1>5 DEF AttemptLoad

LEMMA FailureInv ==
    ASSUME Inv, NEW w \in Attempters, AttemptRecordFailure(w)
    PROVE  Inv'
<1> USE DEF Inv
<1> DEFINE m == attempt[w].mail
           new == [status |-> "failed", attempts |-> attempt[w].attempts,
                   next |-> IF Terminal(w) THEN "null" ELSE NextRetry(attempt[w].attempts),
                   payload |-> FailedPayload(w, row[m].payload)]
<1>1. m \in Mails /\ row[m] \in Row /\ attempt[w] \in Attempt /\ attempt[w].stage \in Delivering
  BY DEF AttemptRecordFailure, AttemptsSound, TypeOK, Delivering
<1>2. /\ new.status = "failed" /\ new.attempts = attempt[w].attempts /\ new.attempts \in Nat
      /\ new.payload = FailedPayload(w, row[m].payload)
      /\ new.next = IF Terminal(w) THEN "null" ELSE NextRetry(attempt[w].attempts)
  BY <1>1 DEF Attempt
<1>3. FailedPayload(w, row[m].payload) \in BOOLEAN
  BY DEF FailedPayload
<1>4. new.next \in {"null", "later"} /\ (new.next # "null" => new.attempts \in 1 .. Retries)
  BY <1>1, <1>2, NextRetryDates
<1>5. new.payload => row[m].payload /\ new.next # "null"
  BY <1>1, <1>2, NextRetryDates DEF FailedPayload
<1>6. new \in Row
  BY <1>2, <1>3, <1>4 DEF Row
<1>7. row' = [row EXCEPT ![m] = new] /\ End(w) /\ UNCHANGED <<swept, sweeping, history, bounds>>
  BY DEF AttemptRecordFailure
<1>8. pending' \in [Mails -> {"none", "live", "terminal"}]
  BY <1>1 DEF AttemptRecordFailure, TypeOK
<1>9. attempt[w].stage # "idle" /\ new.status \in {"sent", "failed"}
  BY <1>1, <1>2 DEF Delivering
<1> HIDE DEF new
<1> QED
  BY <1>2, <1>4, <1>5, <1>6, <1>7, <1>8, <1>9, RecordInv

LEMMA SentInv ==
    ASSUME Inv, NEW w \in Attempters, AttemptRecordSent(w)
    PROVE  Inv'
<1> USE DEF Inv
<1> DEFINE m == attempt[w].mail
           new == [status |-> "sent", attempts |-> attempt[w].attempts,
                   next |-> "null", payload |-> FALSE]
<1>1. new \in Row /\ new.status = "sent" /\ new.next = "null" /\ ~ new.payload
  BY DEF TypeOK, Attempt, Row
<1>2. row' = [row EXCEPT ![m] = new] /\ End(w) /\ UNCHANGED <<swept, sweeping, history, bounds>>
  BY DEF AttemptRecordSent
<1>3. pending' \in [Mails -> {"none", "live", "terminal"}] /\ attempt[w].stage # "idle"
  BY DEF AttemptRecordSent, TypeOK
<1> HIDE DEF new
<1> QED
  BY <1>1, <1>2, <1>3, RecordInv

LEMMA GiveUpInv ==
    ASSUME Inv, NEW w \in Attempters, AttemptGiveUp(w)
    PROVE  Inv'
<1> USE DEF Inv
<1> DEFINE m == attempt[w].mail
           new == [row[m] EXCEPT !.status = "failed", !.next = "null"]
<1>1. m \in Mails /\ row[m] \in Row /\ ~ row[m].payload /\ attempt[w].stage # "idle"
  BY DEF AttemptGiveUp, AttemptsSound, TypeOK
<1>2. new \in Row /\ new.status = "failed" /\ new.next = "null" /\ new.payload = row[m].payload
  BY <1>1 DEF Row
<1>3. row' = [row EXCEPT ![m] = new] /\ End(w) /\ UNCHANGED <<swept, sweeping, history, bounds>>
  BY <1>1 DEF AttemptGiveUp, TypeOK
<1>4. pending' \in [Mails -> {"none", "live", "terminal"}]
  BY DEF AttemptGiveUp, TypeOK
<1> HIDE DEF new
<1> QED
  BY <1>1, <1>2, <1>3, <1>4, RecordInv

LEMMA MoveInv ==
    ASSUME Inv, NEW w \in Attempters,
           \/ AttemptConnect(w) \/ AttemptSmtp(w) \/ AttemptSentUnrecorded(w) \/ AttemptThrows(w)
    PROVE  Inv'
<1> USE DEF Inv
<1>1. AttemptsSound'
  BY AttemptMoves DEF AttemptConnect, AttemptSmtp, AttemptSentUnrecorded, AttemptThrows, Delivering
<1>2. attempt' \in [Attempters -> Attempt]
  BY AttemptTypes DEF AttemptConnect, AttemptSmtp, AttemptSentUnrecorded, AttemptThrows, Stages
<1>3. delivered' \in [Mails -> Nat] /\ lost' \in [Mails -> Nat]
  BY DEF AttemptConnect, AttemptSmtp, AttemptSentUnrecorded, AttemptThrows, history, TypeOK
<1>4. {retryNows, errors, crashes}' \subseteq Nat
  BY DEF AttemptConnect, AttemptSmtp, AttemptSentUnrecorded, AttemptThrows, bounds, TypeOK
<1>5. UNCHANGED <<row, pending, swept, sweeping>>
  BY DEF AttemptConnect, AttemptSmtp, AttemptSentUnrecorded, AttemptThrows
<1>6. TypeOK'
  BY <1>2, <1>3, <1>4, <1>5 DEF TypeOK
<1> QED
  BY <1>1, <1>5, <1>6, RowsUntouched

LEMMA RipenInv ==
    ASSUME Inv, NEW m \in Mails, Ripen(m)
    PROVE  Inv'
<1> USE DEF Inv
<1> DEFINE new == [row[m] EXCEPT !.next = "due"]
<1>1. /\ new \in Row /\ new.next = "due" /\ row[m].next = "later"
      /\ new.status = row[m].status /\ new.payload = row[m].payload /\ new.attempts = row[m].attempts
  BY DEF Ripen, TypeOK, Row
<1>2. row' = [row EXCEPT ![m] = new]
  BY DEF Ripen, TypeOK
<1> HIDE DEF new
<1>3. row'[m] = new /\ \A k \in Mails \ {m} : row'[k] = row[k]
  BY <1>2 DEF TypeOK
<1>4. row[m].status # "none"
  BY <1>1 DEF RowsSound, NoRow
<1>5. TypeOK'
  BY <1>1, <1>2 DEF Ripen, TypeOK, history, bounds
<1>6. AttemptsSound'
  BY <1>1, <1>3 DEF Ripen, AttemptsSound
<1> QED
  BY <1>1, <1>3, <1>4, <1>5, <1>6 DEF Ripen, RowsSound, ContentExpires, ScheduledHasTriesLeft

\* The sweep and an admin start an attempt of a mail that was sent.
LEMMA StartInv ==
    ASSUME Inv, NEW w \in Attempters, NEW m \in Mails, row[m].status # "none", Start(w, m),
           UNCHANGED <<row, pending, sweeping, delivered, lost, errors, crashes>>,
           swept' \subseteq swept, retryNows' \in Nat
    PROVE  Inv'
<1> USE DEF Inv
<1>1. /\ attempt'[w] = [NoAttempt EXCEPT !.stage = "load", !.mail = m]
      /\ \A v \in Attempters \ {w} : attempt'[v] = attempt[v]
  BY DEF Start, TypeOK
<1>2. AttemptsSound'
  BY <1>1 DEF AttemptsSound, NoAttempt, Delivering
<1>3. TypeOK'
  BY AttemptTypes DEF TypeOK
<1> QED
  BY <1>2, <1>3, RowsUntouched

LEMMA CrashInv ==
    ASSUME Inv, Crash
    PROVE  Inv'
<1> USE DEF Inv
<1>1. \A m \in Mails : Cardinality({w \in Attempters :
                  attempt[w].stage = "accepted" /\ attempt[w].mail = m}) \in Nat
  BY RecordingFinite DEF Recording
<1>2. TypeOK'
  <2>1. lost' \in [Mails -> Nat]
    BY <1>1 DEF Crash, TypeOK
  <2>2. attempt' \in [Attempters -> Attempt]
    BY DEF Crash, NoAttempt, Attempt
  <2>3. {retryNows, errors, crashes}' \subseteq Nat
    BY DEF Crash, TypeOK
  <2> QED
    BY <2>1, <2>2, <2>3 DEF Crash, TypeOK
<1>3. AttemptsSound'
  BY DEF Crash, AttemptsSound, NoAttempt
<1> QED
  BY <1>2, <1>3, RowsUntouched DEF Crash

LEMMA InvStep == Inv /\ [Next]_vars => Inv'
<1> SUFFICES ASSUME Inv, [Next]_vars
             PROVE  Inv'
  OBVIOUS
<1>1. ASSUME NEW m \in Mails,
             \/ \E sensitive \in BOOLEAN : Send(m, sensitive)
             \/ SendSkipped(m) \/ Ripen(m)
      PROVE  Inv'
  BY <1>1, SendInv, SkippedInv, RipenInv
<1>2. ASSUME NEW m \in Mails, SweepNext(m)
      PROVE  Inv'
  <2>1. retryNows \in Nat /\ row[m].status # "none"
    BY <1>2 DEF Inv, TypeOK, RowsSound, SweepNext
  <2> QED
    BY <1>2, <2>1, StartInv, Settings DEF SweepNext, history, bounds
<1>3. ASSUME NEW m \in Mails, RetryNow(m)
      PROVE  Inv'
  <2>1. retryNows' \in Nat
    BY <1>3 DEF Inv, TypeOK, RetryNow
  <2> QED
    BY <1>3, <2>1, StartInv, Settings DEF RetryNow, history
<1>4. ASSUME NEW w \in Attempters,
             AttemptStep(w) \/ AttemptSentUnrecorded(w) \/ AttemptThrows(w)
      PROVE  Inv'
  BY <1>4, LoadInv, GiveUpInv, SentInv, FailureInv, MoveInv DEF AttemptStep
<1>5. CASE SweepStart
  <2>1. TypeOK' /\ AttemptsSound' /\ UNCHANGED row
    BY <1>5 DEF SweepStart, DueRows, Inv, TypeOK, AttemptsSound, history, bounds
  <2>2. RowsSound'
    BY <1>5, <2>1 DEF SweepStart, DueRows, Inv, RowsSound
  <2> QED
    BY <2>1, <2>2 DEF Inv, ContentExpires, ScheduledHasTriesLeft
<1>6. CASE SweepEnd \/ UNCHANGED vars
  <2>1. UNCHANGED <<row, pending, attempt, swept, history, bounds>> /\ sweeping' \in BOOLEAN
    BY <1>6 DEF SweepEnd, vars, history, bounds, Inv, TypeOK
  <2>2. TypeOK' /\ AttemptsSound'
    BY <2>1 DEF Inv, TypeOK, AttemptsSound, history, bounds
  <2> QED
    BY <2>1, <2>2, RowsUntouched
<1>7. CASE Crash
  BY <1>7, CrashInv
<1> QED
  BY <1>1, <1>2, <1>3, <1>4, <1>5, <1>6, <1>7 DEF Next

LEMMA Invariance == Spec => []Inv
  BY InitInv, InvStep, PTL DEF Spec

\* mail.service.ts, recordFailure and I-6: rendered content is in the database
\* only for a mail that may still be attempted by itself.
THEOREM ContentIsNotKept == Spec => []ContentExpires
<1>1. Inv => ContentExpires
  BY DEF Inv
<1> QED
  BY <1>1, Invariance, PTL

\* mail.service.ts:14 (FR-E-09), three retries after the first try: a row that is
\* scheduled has tries left, also after attempts of it overlapped.
THEOREM RetriesAreCounted == Spec => []ScheduledHasTriesLeft
<1>1. Inv => ScheduledHasTriesLeft
  BY DEF Inv
<1> QED
  BY <1>1, Invariance, PTL

-----------------------------------------------------------------------------
(* The log and what was delivered, while no admin intervenes               *)

Active(w) == attempt[w].stage # "idle"

\* A mail has its own attempt while it is queued and the sweep's after it failed.
Alone ==
    /\ ~ Active(Admin)
    /\ \A m \in Mails : Active(m) =>
          attempt[m].mail = m /\ row[m].status = "queued"
    /\ Active(Sweep) => /\ sweeping
                        /\ attempt[Sweep].mail \notin swept
                        /\ row[attempt[Sweep].mail].status = "failed"
    /\ \A m \in swept : row[m].status = "failed"
    /\ ~ sweeping => swept = {}

Counted(m) == delivered[m] = lost[m] + Cardinality(Recording(m))
                               + (IF row[m].status = "sent" THEN 1 ELSE 0)

LogInv == Inv /\ (retryNows = 0 => Alone /\ \A m \in Mails : Counted(m))

LEMMA OneAttempt ==
    ASSUME Inv, Alone, NEW w \in Attempters, Active(w)
    PROVE  /\ \A v \in Attempters : Active(v) /\ attempt[v].mail = attempt[w].mail => v = w
           /\ row[attempt[w].mail].status \in {"queued", "failed"}
           /\ attempt[w].mail \notin swept
           /\ attempt[w].mail \in Mails
<1>1. w \in Mails \/ w = Sweep
  BY DEF Attempters, Alone
<1>2. \A v \in Attempters : Active(v) => v \in Mails \/ v = Sweep
  BY DEF Attempters, Alone
<1>3. attempt[w].mail \in Mails
  BY DEF Inv, AttemptsSound, Active
<1> QED
  BY <1>1, <1>2, <1>3 DEF Alone

LEMMA RecordingOf ==
    ASSUME Inv, Alone, NEW w \in Attempters, Active(w)
    PROVE  Recording(attempt[w].mail) = IF attempt[w].stage = "accepted" THEN {w} ELSE {}
  BY OneAttempt DEF Recording, Active

\* Recordings are untouched by an attempt that neither was nor becomes accepted.
LEMMA RecordingKept ==
    ASSUME NEW w \in Attempters, \A v \in Attempters \ {w} : attempt'[v] = attempt[v],
           attempt[w].stage # "accepted", attempt'[w].stage # "accepted", NEW m
    PROVE  Recording(m)' = Recording(m)
  BY DEF Recording

LEMMA RecordingOthers ==
    ASSUME NEW w \in Attempters, \A v \in Attempters \ {w} : attempt'[v] = attempt[v],
           NEW m, m # attempt[w].mail, attempt'[w].stage = "accepted" => attempt'[w].mail # m
    PROVE  Recording(m)' = Recording(m)
  BY DEF Recording

LEMMA CountedKept ==
    ASSUME NEW m \in Mails, Counted(m), Recording(m)' = Recording(m),
           delivered'[m] = delivered[m], lost'[m] = lost[m],
           row'[m].status = "sent" <=> row[m].status = "sent"
    PROVE  Counted(m)'
  BY DEF Counted

LEMMA GotoFacts ==
    ASSUME TypeOK, NEW w \in Attempters, NEW stage, Goto(w, stage)
    PROVE  /\ attempt'[w].stage = stage /\ attempt'[w].mail = attempt[w].mail
           /\ \A v \in Attempters \ {w} : attempt'[v] = attempt[v]
  BY DEF Goto, TypeOK, Attempt

LEMMA EndFacts ==
    ASSUME TypeOK, NEW w \in Attempters, End(w)
    PROVE  /\ attempt'[w].stage = "idle"
           /\ \A v \in Attempters \ {w} : attempt'[v] = attempt[v]
  BY DEF End, TypeOK, NoAttempt

\* An attempt moves on or ends, and no row, no list is written.
LEMMA AloneMoves ==
    ASSUME Inv, Alone, NEW w \in Attempters, Active(w),
           \A v \in Attempters \ {w} : attempt'[v] = attempt[v],
           Active(w)' => attempt'[w].mail = attempt[w].mail,
           UNCHANGED <<row, swept, sweeping>>
    PROVE  Alone'
  BY Settings DEF Alone, Active

\* An attempt ends and leaves its mail failed or sent.
LEMMA AloneRecords ==
    ASSUME Inv, Alone, NEW w \in Attempters, Active(w), End(w),
           \A k \in Mails \ {attempt[w].mail} : row'[k] = row[k],
           UNCHANGED <<swept, sweeping>>
    PROVE  Alone'
<1> DEFINE m == attempt[w].mail
<1>1. TypeOK
  BY DEF Inv
<1>2. attempt'[w].stage = "idle" /\ \A v \in Attempters \ {w} : attempt'[v] = attempt[v]
  BY <1>1, EndFacts
<1>3. \A v \in Attempters \ {w} : Active(v) => attempt[v].mail # m /\ attempt[v].mail \in Mails
  BY OneAttempt DEF Inv, AttemptsSound, Active
<1>4. m \notin swept /\ swept \subseteq Mails
  BY <1>1, OneAttempt DEF TypeOK
<1>5. \A v \in Attempters : Active(v)' => v # w /\ Active(v) /\ row'[attempt[v].mail] = row[attempt[v].mail]
  BY <1>2, <1>3 DEF Active
<1>6. ~ Active(Admin)'
  BY <1>5, Settings DEF Alone
<1>7. \A k \in Mails : Active(k)' => attempt'[k].mail = k /\ row'[k].status = "queued"
  BY <1>2, <1>5, Settings DEF Alone
<1>8. Active(Sweep)' => /\ sweeping'
                       /\ attempt'[Sweep].mail \notin swept'
                       /\ row'[attempt'[Sweep].mail].status = "failed"
  BY <1>2, <1>5, Settings DEF Alone
<1>9. \A k \in swept' : row'[k].status = "failed"
  BY <1>4 DEF Alone
<1> QED
  BY <1>6, <1>7, <1>8, <1>9 DEF Alone

LEMMA LogMoves ==
    ASSUME Inv, Alone, \A m \in Mails : Counted(m), NEW w \in Attempters, Active(w),
           AttemptLoad(w) \/ AttemptConnect(w) \/ AttemptSmtp(w) \/ AttemptSentUnrecorded(w)
              \/ AttemptThrows(w)
    PROVE  Alone' /\ \A m \in Mails : Counted(m)'
<1>0. PICK m \in Mails : m = attempt[w].mail
  BY OneAttempt
<1> USE <1>0 DEF Inv
<1>1. UNCHANGED <<row, swept, sweeping>>
  BY DEF AttemptLoad, AttemptConnect, AttemptSmtp, AttemptSentUnrecorded, AttemptThrows
<1>2. /\ \A v \in Attempters \ {w} : attempt'[v] = attempt[v]
      /\ attempt'[w].stage = "idle" \/ attempt'[w].mail = m
  <2>1. CASE AttemptLoad(w)
    <3>1. CASE End(w)
      BY <1>0, <3>1, EndFacts
    <3>2. CASE Goto(w, "giveUp")
      BY <1>0, <3>2, GotoFacts
    <3>3. CASE attempt' = [attempt EXCEPT ![w].stage = "connect",
                                         ![w].attempts = row[m].attempts + 1]
      BY <1>0, <3>3 DEF TypeOK, Attempt
    <3> QED
      BY <2>1, <3>1, <3>2, <3>3 DEF AttemptLoad
  <2>2. CASE AttemptConnect(w) \/ AttemptSmtp(w) \/ AttemptSentUnrecorded(w) \/ AttemptThrows(w)
    BY <1>0, <2>2, GotoFacts, EndFacts
       DEF AttemptConnect, AttemptSmtp, AttemptSentUnrecorded, AttemptThrows
  <2> QED
    BY <2>1, <2>2
<1>3. Alone'
  BY <1>1, <1>2, AloneMoves DEF Active
<1>4. ASSUME NEW k \in Mails, k # m
      PROVE  Counted(k)'
  <2>1. Recording(k)' = Recording(k)
    BY <1>2, <1>4, RecordingOthers
  <2>2. delivered'[k] = delivered[k] /\ lost'[k] = lost[k]
    BY <1>0, <1>4 DEF AttemptLoad, AttemptConnect, AttemptSmtp, AttemptSentUnrecorded,
       AttemptThrows, history, TypeOK
  <2> QED
    BY <1>1, <2>1, <2>2, CountedKept
<1>5. Counted(m)'
  <2>1. CASE attempt[w].stage # "accepted" /\ attempt'[w].stage # "accepted"
    <3>1. Recording(m)' = Recording(m)
      BY <1>2, <2>1, RecordingKept
    <3>2. CASE UNCHANGED history
      BY <1>0, <1>1, <3>1, <3>2, CountedKept DEF history
    <3>3. CASE delivered'[m] = delivered[m] + 1 /\ lost'[m] = lost[m] + 1
      <4>1. delivered[m] \in Nat /\ lost[m] \in Nat /\ Cardinality(Recording(m)) \in Nat
        BY <1>0, RecordingFinite DEF TypeOK
      <4> QED
        BY <1>0, <1>1, <3>1, <3>3, <4>1 DEF Counted
    <3>4. AttemptSmtp(w) => \/ UNCHANGED history
                            \/ delivered'[m] = delivered[m] + 1 /\ lost'[m] = lost[m] + 1
      BY <1>0, <2>1, GotoFacts DEF AttemptSmtp, history, TypeOK
    <3>5. AttemptSmtp(w) \/ UNCHANGED history
      BY <2>1 DEF AttemptLoad, AttemptConnect, AttemptSentUnrecorded, AttemptThrows
    <3> QED
      BY <3>2, <3>3, <3>4, <3>5
  <2>2. CASE attempt[w].stage = "accepted"
    <3>1. AttemptSentUnrecorded(w)
      BY <2>2 DEF AttemptLoad, AttemptConnect, AttemptSmtp, AttemptThrows
    <3>2. attempt'[w].stage = "failing" /\ attempt'[w].mail = m
      BY <1>0, <3>1, GotoFacts DEF AttemptSentUnrecorded
    <3>3. Recording(m) = {w}
      BY <2>2, RecordingOf
    <3>4. Recording(m)' = {}
      BY <1>2, <3>2, <3>3 DEF Recording
    <3>5. lost'[m] = lost[m] + 1 /\ delivered'[m] = delivered[m]
      BY <1>0, <3>1 DEF AttemptSentUnrecorded, TypeOK
    <3>6. Cardinality(Recording(m)) = 1 /\ Cardinality(Recording(m)') = 0
      BY <3>3, <3>4, FS_Singleton, FS_EmptySet
    <3>7. lost[m] \in Nat /\ delivered[m] \in Nat
      BY <1>0 DEF TypeOK
    <3> QED
      BY <1>0, <1>1, <3>5, <3>6, <3>7 DEF Counted
  <2>3. CASE attempt[w].stage # "accepted" /\ attempt'[w].stage = "accepted"
    <3>1. AttemptSmtp(w) /\ Goto(w, "accepted") /\ delivered'[m] = delivered[m] + 1 /\ lost'[m] = lost[m]
      <4>1. ~ AttemptLoad(w)
        BY <1>0, <2>3, EndFacts, GotoFacts DEF AttemptLoad, TypeOK, Attempt
      <4>2. ~ AttemptConnect(w) /\ ~ AttemptSentUnrecorded(w) /\ ~ AttemptThrows(w)
        BY <1>0, <2>3, EndFacts, GotoFacts DEF AttemptConnect, AttemptSentUnrecorded, AttemptThrows
      <4>3. AttemptSmtp(w)
        BY <4>1, <4>2
      <4> QED
        BY <1>0, <2>3, <4>3, GotoFacts DEF AttemptSmtp, TypeOK
    <3>2. Recording(m) = {}
      BY <2>3, RecordingOf
    <3>3. Recording(m)' = {w}
      BY <1>0, <1>2, <2>3, <3>2 DEF Recording
    <3>4. Cardinality(Recording(m)) = 0 /\ Cardinality(Recording(m)') = 1
      BY <3>2, <3>3, FS_Singleton, FS_EmptySet
    <3>5. lost[m] \in Nat /\ delivered[m] \in Nat
      BY <1>0 DEF TypeOK
    <3> QED
      BY <1>0, <1>1, <3>1, <3>4, <3>5 DEF Counted
  <2> QED
    BY <2>1, <2>2, <2>3
<1> QED
  BY <1>3, <1>4, <1>5

LEMMA LogRecords ==
    ASSUME Inv, Alone, \A m \in Mails : Counted(m), NEW w \in Attempters, Active(w),
           AttemptGiveUp(w) \/ AttemptRecordSent(w) \/ AttemptRecordFailure(w)
    PROVE  Alone' /\ \A m \in Mails : Counted(m)'
<1>0. PICK m \in Mails : m = attempt[w].mail /\ row[m].status # "sent"
  BY OneAttempt
<1> USE <1>0 DEF Inv
<1>1. End(w) /\ UNCHANGED <<swept, sweeping, delivered, lost>>
  BY DEF AttemptGiveUp, AttemptRecordSent, AttemptRecordFailure, history
<1>2. \A k \in Mails \ {m} : row'[k] = row[k]
  BY <1>0 DEF AttemptGiveUp, AttemptRecordSent, AttemptRecordFailure, TypeOK
<1>3. Alone'
  BY <1>1, <1>2, AloneRecords
<1>4. attempt'[w].stage = "idle" /\ \A v \in Attempters \ {w} : attempt'[v] = attempt[v]
  BY <1>0, <1>1, EndFacts
<1>5. ASSUME NEW k \in Mails, k # m
      PROVE  Counted(k)'
  BY <1>1, <1>2, <1>4, <1>5, RecordingOthers, CountedKept
<1>6. CASE AttemptGiveUp(w) \/ AttemptRecordFailure(w)
  <2>1. attempt[w].stage # "accepted"
    BY <1>6 DEF AttemptGiveUp, AttemptRecordFailure
  <2>2. Recording(m)' = Recording(m)
    BY <1>4, <2>1, RecordingKept
  <2>3. row'[m].status = "failed"
    <3>1. CASE AttemptGiveUp(w)
      BY <1>0, <3>1 DEF AttemptGiveUp, TypeOK, Row
    <3>2. CASE AttemptRecordFailure(w)
      BY <1>0, <3>2 DEF AttemptRecordFailure, TypeOK
    <3> QED
      BY <1>6, <3>1, <3>2
  <2>4. Counted(m)'
    BY <1>0, <1>1, <2>2, <2>3, CountedKept
  <2> QED
    BY <1>3, <1>5, <2>4
<1>7. CASE AttemptRecordSent(w)
  <2>1. attempt[w].stage = "accepted" /\ row'[m].status = "sent"
    BY <1>0, <1>7 DEF AttemptRecordSent, TypeOK
  <2>2. Recording(m) = {w}
    BY <2>1, RecordingOf
  <2>3. Recording(m)' = {}
    BY <1>4, <2>2 DEF Recording
  <2>4. Cardinality(Recording(m)) = 1 /\ Cardinality(Recording(m)') = 0
    BY <2>2, <2>3, FS_Singleton, FS_EmptySet
  <2>5. lost[m] \in Nat /\ delivered[m] \in Nat
    BY <1>0 DEF TypeOK
  <2>6. Counted(m)'
    BY <1>0, <1>1, <2>1, <2>4, <2>5 DEF Counted
  <2> QED
    BY <1>3, <1>5, <2>6
<1> QED
  BY <1>6, <1>7

LEMMA LogSends ==
    ASSUME Inv, Alone, \A m \in Mails : Counted(m), NEW m \in Mails,
           \/ \E sensitive \in BOOLEAN : Send(m, sensitive)
           \/ SendSkipped(m)
    PROVE  Alone' /\ \A k \in Mails : Counted(k)'
<1> USE DEF Inv
<1>1. UNCHANGED <<swept, sweeping, delivered, lost>>
  BY DEF Send, SendSkipped, history
<1>2. /\ row[m].status = "none" /\ row'[m].status \in {"queued", "skipped"}
      /\ \A k \in Mails \ {m} : row'[k] = row[k]
  <2>1. row[m].status = "none"
    <3>1. row[m] = NoRow
      BY DEF Send, SendSkipped
    <3> QED
      BY <3>1 DEF NoRow
  <2>2. ASSUME NEW sensitive \in BOOLEAN, Send(m, sensitive)
        PROVE  row'[m].status = "queued" /\ \A k \in Mails \ {m} : row'[k] = row[k]
    BY <2>2 DEF Send, TypeOK, NoRow
  <2>3. ASSUME SendSkipped(m)
        PROVE  row'[m].status = "skipped" /\ \A k \in Mails \ {m} : row'[k] = row[k]
    BY <2>3 DEF SendSkipped, TypeOK, NoRow
  <2> QED
    BY <2>1, <2>2, <2>3
<1>3. m \notin swept /\ \A w \in Attempters : Active(w) => attempt[w].mail # m
  BY <1>2 DEF RowsSound, AttemptsSound, Active
<1>4. \/ attempt' = attempt
      \/ /\ row'[m].status = "queued"
         /\ attempt'[m].stage = "load" /\ attempt'[m].mail = m
         /\ \A v \in Attempters \ {m} : attempt'[v] = attempt[v]
  <2>1. ASSUME NEW sensitive \in BOOLEAN, Send(m, sensitive)
        PROVE  /\ row'[m].status = "queued"
               /\ attempt'[m].stage = "load" /\ attempt'[m].mail = m
               /\ \A v \in Attempters \ {m} : attempt'[v] = attempt[v]
    <3>1. row'[m].status = "queued"
      BY <2>1 DEF Send, TypeOK, NoRow
    <3> QED
      BY <2>1, <3>1, Settings DEF Send, Start, NoAttempt, TypeOK
  <2>2. SendSkipped(m) => attempt' = attempt
    BY DEF SendSkipped
  <2> QED
    BY <2>1, <2>2
<1>5. ~ Active(m)
  BY <1>3, Settings DEF Alone
<1>6. Alone'
  <2>1. \A w \in Attempters : Active(w) => attempt[w].mail \in Mails \ {m}
    BY <1>3 DEF AttemptsSound, Active
  <2>2. \A w \in Attempters : Active(w) => row'[attempt[w].mail] = row[attempt[w].mail]
    BY <1>2, <2>1
  <2>3. \A k \in swept : row'[k] = row[k]
    BY <1>2, <1>3 DEF TypeOK
  <2>4. ~ Active(Admin)' /\ (Active(Sweep)' => Active(Sweep)) /\ attempt'[Sweep] = attempt[Sweep]
    BY <1>4, Settings DEF Alone, Active
  <2>5. \A k \in Mails : Active(k)' => attempt'[k].mail = k /\ row'[k].status = "queued"
    BY <1>2, <1>4, <2>2, Settings DEF Alone, Active
  <2> QED
    BY <1>1, <2>2, <2>3, <2>4, <2>5, Settings DEF Alone
<1>7. \A k \in Mails : Recording(k)' = Recording(k)
  BY <1>4, <1>5 DEF Recording, Active
<1> QED
  BY <1>1, <1>2, <1>6, <1>7, CountedKept

LEMMA LogStep == LogInv /\ [Next]_vars => LogInv'
<1> SUFFICES ASSUME LogInv, [Next]_vars, retryNows' = 0
             PROVE  Alone' /\ \A m \in Mails : Counted(m)'
  BY InvStep DEF LogInv
<1>1. Inv /\ TypeOK
  BY DEF LogInv, Inv
<1>2. CASE \E m \in Mails : RetryNow(m)
  BY <1>1, <1>2 DEF RetryNow, TypeOK
<1>3. SUFFICES ASSUME ~ \E m \in Mails : RetryNow(m)
               PROVE  Alone' /\ \A m \in Mails : Counted(m)'
  BY <1>2
<1>4. retryNows = 0
  <2>1. CASE \E m \in Mails : \/ \E sensitive \in BOOLEAN : Send(m, sensitive)
                             \/ SendSkipped(m) \/ Ripen(m) \/ SweepNext(m)
    BY <2>1 DEF Send, SendSkipped, Ripen, SweepNext, bounds
  <2>2. CASE \E w \in Attempters : AttemptStep(w)
    BY <2>2 DEF AttemptStep, AttemptLoad, AttemptGiveUp, AttemptConnect, AttemptSmtp,
       AttemptRecordSent, AttemptRecordFailure, bounds
  <2>3. CASE \E w \in Attempters : AttemptSentUnrecorded(w) \/ AttemptThrows(w)
    BY <2>3 DEF AttemptSentUnrecorded, AttemptThrows
  <2>4. CASE SweepStart \/ SweepEnd \/ Crash \/ UNCHANGED vars
    BY <2>4 DEF SweepStart, SweepEnd, Crash, vars, bounds
  <2> QED
    BY <1>3, <2>1, <2>2, <2>3, <2>4 DEF Next
<1>5. Alone /\ \A m \in Mails : Counted(m)
  BY <1>4 DEF LogInv
<1>6. ASSUME NEW m \in Mails,
             \/ \E sensitive \in BOOLEAN : Send(m, sensitive)
             \/ SendSkipped(m)
      PROVE  Alone' /\ \A k \in Mails : Counted(k)'
  BY <1>1, <1>5, <1>6, LogSends
<1>7. ASSUME NEW w \in Attempters,
             AttemptStep(w) \/ AttemptSentUnrecorded(w) \/ AttemptThrows(w)
      PROVE  Alone' /\ \A m \in Mails : Counted(m)'
  <2>1. Active(w)
    BY <1>7 DEF Active, AttemptStep, AttemptLoad, AttemptGiveUp, AttemptConnect, AttemptSmtp,
       AttemptRecordSent, AttemptRecordFailure, AttemptSentUnrecorded, AttemptThrows
  <2> QED
    BY <1>1, <1>5, <1>7, <2>1, LogMoves, LogRecords DEF AttemptStep
<1>8. ASSUME NEW m \in Mails, Ripen(m)
      PROVE  Alone' /\ \A k \in Mails : Counted(k)'
  <2>1. \A k \in Mails : row'[k].status = row[k].status
    BY <1>1, <1>8 DEF Ripen, TypeOK, Row
  <2>2. UNCHANGED <<attempt, swept, sweeping, delivered, lost>>
    BY <1>8 DEF Ripen, history
  <2>3. \A k \in Mails : Recording(k)' = Recording(k)
    BY <2>2 DEF Recording
  <2>4. \A w \in Attempters : Active(w) => attempt[w].mail \in Mails
    BY <1>1 DEF Inv, AttemptsSound, Active
  <2>5. Alone'
    BY <1>1, <1>5, <2>1, <2>2, <2>4, Settings DEF Alone, Active, TypeOK
  <2> QED
    BY <1>5, <2>1, <2>2, <2>3, <2>5, CountedKept
<1>9. ASSUME NEW m \in Mails, SweepNext(m)
      PROVE  Alone' /\ \A k \in Mails : Counted(k)'
  <2>1. /\ attempt'[Sweep].stage = "load" /\ attempt'[Sweep].mail = m
        /\ \A v \in Attempters \ {Sweep} : attempt'[v] = attempt[v]
    BY <1>1, <1>9, Settings DEF SweepNext, Start, NoAttempt, TypeOK
  <2>2. sweeping /\ m \in swept /\ swept' = swept \ {m} /\ attempt[Sweep].stage = "idle"
    BY <1>9 DEF SweepNext, NoAttempt
  <2>3. UNCHANGED <<row, sweeping, delivered, lost>>
    BY <1>9 DEF SweepNext, history
  <2>4. \A k \in Mails : Recording(k)' = Recording(k)
    BY <2>1, <2>2, Settings, RecordingKept
  <2>5. Alone'
    BY <1>5, <2>1, <2>2, <2>3, Settings DEF Alone, Active
  <2> QED
    BY <1>5, <2>3, <2>4, <2>5, CountedKept
<1>10. CASE SweepStart \/ SweepEnd \/ UNCHANGED vars
  <2>1. UNCHANGED <<row, attempt, delivered, lost>>
    BY <1>10 DEF SweepStart, SweepEnd, vars, history
  <2>2. \A k \in Mails : Recording(k)' = Recording(k)
    BY <2>1 DEF Recording
  <2>3. Alone'
    <3>1. CASE SweepStart
      BY <1>5, <2>1, <3>1 DEF SweepStart, DueRows, Alone, Active
    <3>2. CASE SweepEnd
      BY <1>5, <2>1, <3>2 DEF SweepEnd, Alone, Active, NoAttempt
    <3>3. CASE UNCHANGED vars
      BY <1>5, <3>3 DEF vars, Alone, Active
    <3> QED
      BY <1>10, <3>1, <3>2, <3>3
  <2> QED
    BY <1>5, <2>1, <2>2, <2>3, CountedKept
<1>11. CASE Crash
  <2>1. \A w \in Attempters : ~ Active(w)'
    BY <1>11 DEF Crash, Active, NoAttempt
  <2>2. Alone'
    BY <1>11, <2>1, Settings DEF Crash, Alone
  <2>3. ASSUME NEW m \in Mails
        PROVE  Counted(m)'
    <3>1. Cardinality(Recording(m)') = 0
      <4>1. Recording(m)' = {}
        BY <2>1 DEF Recording, Active
      <4> QED
        BY <4>1, FS_EmptySet
    <3>2. lost'[m] = lost[m] + Cardinality(Recording(m)) /\ delivered' = delivered /\ row' = row
      BY <1>11 DEF Crash, Recording
    <3>3. lost[m] \in Nat /\ Cardinality(Recording(m)) \in Nat
      BY <1>1, RecordingFinite DEF TypeOK
    <3> QED
      BY <1>5, <3>1, <3>2, <3>3 DEF Counted
  <2> QED
    BY <2>2, <2>3
<1> QED
  BY <1>3, <1>6, <1>7, <1>8, <1>9, <1>10, <1>11 DEF Next

LEMMA LogInit == Init => LogInv
<1> SUFFICES ASSUME Init
             PROVE  Alone /\ \A m \in Mails : Counted(m)
  BY InitInv DEF LogInv
<1>1. \A w \in Attempters : ~ Active(w)
  BY DEF Init, Active, NoAttempt
<1>2. Alone
  BY <1>1, Settings DEF Init, Alone
<1>3. ASSUME NEW m \in Mails
      PROVE  Counted(m)
  <2>1. Recording(m) = {}
    BY <1>1 DEF Recording, Active
  <2>2. Cardinality(Recording(m)) = 0
    BY <2>1, FS_EmptySet
  <2> QED
    BY <2>2 DEF Init, Counted, NoRow
<1> QED
  BY <1>2, <1>3

\* mail.service.ts, attemptDelivery and sweepRetries: while no admin intervenes,
\* a mail was accepted exactly as often as the log says, plus the acceptances
\* that a lost answer, a failed UPDATE or a crash kept from it, however many
\* attempts and restarts.
THEOREM LogIsTrue == Spec => []LogTellsDelivery
<1>1. LogInv => LogTellsDelivery
  BY DEF LogInv, Counted, Recording, LogTellsDelivery
<1> QED
  BY <1>1, LogInit, LogStep, PTL DEF Spec

=============================================================================
