------------------------------ MODULE Messages ------------------------------
(***************************************************************************)
(* Contact messages and the replies to them (contact.service.ts submit,    *)
(* messages.service.ts), their rows in mail_log, and the nightly job that  *)
(* purges both (maintenance.service.ts).                                   *)
(*                                                                         *)
(* Each awaited statement, with the code that runs when it returns, is one *)
(* step; a statement that fails ends its handler, and so does Crash.  A    *)
(* mail is its row in mail_log here: MailQueue has how it is delivered;    *)
(* "done" is sent, failed for good, or skipped.  save(message) reads the   *)
(* row again and writes the status if it differs; a row that is gone is    *)
(* inserted.  Of a message only counts whether it is 24 months old, of a   *)
(* mail whether it is 90 days old or may become so any time.  Left out:    *)
(* texts, locales, spam checks (a submission taken for spam changes        *)
(* nothing), lists, and the job's purge of dead sessions and tokens.       *)
(***************************************************************************)
EXTENDS Naturals, Sequences

CONSTANTS
    Msgs,       \* ids of contact_messages
    Reqs,       \* requests, handled over and over
    MaxHandled, \* bound: requests handled
    MaxMails    \* bound: rows of mail_log

ASSUME MessageConstants == {MaxHandled, MaxMails} \subseteq Nat

VARIABLES
    msg,        \* contact_messages
    used,       \* ids handed out
    mail,       \* mail_log, by id
    reply,      \* message_replies
    quoted,     \* messages that are the source of a testimonial
    req,        \* requests in flight
    handled,    \* requests begun
    clearing,   \* messages whose mail_log rows a transaction has locked
    job,        \* place of the nightly job
    erased,     \* history: messages removed while nothing else handled them
    uncopied,   \* history: mails that the last copy of outcomes missed
    archived    \* history: messages archived, with no PATCH since

tables == <<msg, mail, reply, quoted>>
history == <<erased, uncopied, archived>>
vars == <<tables, used, req, handled, clearing, job, history>>

Statuses == {"unread", "read", "archived"}
Outcomes == {"queued", "done"}
NoMessage == [status |-> "none", old |-> FALSE]
Message == [status : Statuses, old : BOOLEAN] \cup {NoMessage}
Mail == [about : Msgs, key : {"contact", "message_reply"}, status : Outcomes \cup {"deleted"},
         age : {"new", "near", "old"}]
\* mail is mail_log_id, 0 for null.  own is the mail the reply's send() logged and
\* was the one it was linked to first; neither is in the row.
Reply == [about : Msgs, own : Nat, was : Nat, mail : Nat, kept : Outcomes \cup {"null"}]
Request == [op : {"submit", "view", "patch", "reply", "convert", "remove"},
            stage : {"mail", "mail2", "load", "write", "insert", "lookup"},
            on : Msgs, wasUnread : BOOLEAN, old : BOOLEAN, want : Statuses, own : Nat, found : Nat]
Idle == [stage |-> "idle"]

TypeOK ==
    /\ msg \in [Msgs -> Message]
    /\ mail \in Seq(Mail) /\ Len(mail) <= MaxMails
    /\ reply \in SUBSET Reply
    /\ req \in [Reqs -> Request \cup {Idle}]
    /\ handled \in 0..MaxHandled
    /\ job \in {"idle", "copy", "mail", "messages"}
    /\ {used, quoted, clearing, erased, archived} \subseteq SUBSET Msgs
    /\ uncopied \subseteq DOMAIN mail
    \* the foreign keys of message_replies and testimonials
    /\ \A p \in reply : msg[p.about] # NoMessage /\ (p.mail # 0 => mail[p.mail].status # "deleted")
    /\ \A m \in quoted : msg[m] # NoMessage

\* A message may be there from earlier on.
Init ==
    /\ msg \in [Msgs -> {NoMessage, [status |-> "unread", old |-> FALSE]}]
    /\ used = {m \in Msgs : msg[m] # NoMessage}
    /\ mail = <<>> /\ reply = {} /\ quoted = {}
    /\ req = [r \in Reqs |-> Idle] /\ handled = 0
    /\ clearing = {} /\ job = "idle"
    /\ erased = {} /\ uncopied = {} /\ archived = {}

-----------------------------------------------------------------------------
(* Requests, and the rows they share                                       *)

At(r, op, stage) == req[r].stage = stage /\ req[r].op = op
Goto(r, stage) == req' = [req EXCEPT ![r].stage = stage]
End(r) == req' = [req EXCEPT ![r] = Idle]
Start(r, op, stage, m, want) ==
    /\ req[r] = Idle /\ handled < MaxHandled
    /\ handled' = handled + 1
    /\ req' = [req EXCEPT ![r] =
          [op |-> op, stage |-> stage, on |-> m, old |-> msg[m].old, want |-> want,
           wasUnread |-> op \in {"view", "reply"} /\ msg[m].status = "unread", own |-> 0, found |-> 0]]

MailsOf(m) == {i \in DOMAIN mail : mail[i].about = m /\ mail[i].status # "deleted"}
Locked == UNION {MailsOf(m) : m \in clearing}

\* MailService.send writes a row, or swallows what went wrong.  An insert between
\* the rows that a removal has locked waits for it.
Log(m, key) ==
    /\ m \notin clearing
    /\ \/ /\ Len(mail) < MaxMails
          /\ mail' = Append(mail, [about |-> m, key |-> key, status |-> "queued", age |-> "new"])
       \/ UNCHANGED mail

\* Rows of mail_log go; mail_log_id of their replies becomes null (mutant: it does not).
Without(gone) == [i \in DOMAIN mail |-> IF i \in gone THEN [mail[i] EXCEPT !.status = "deleted"] ELSE mail[i]]
Unlinked_Kept(replies, gone) == replies
Unlinked(replies, gone) == {[p EXCEPT !.mail = IF @ \in gone THEN 0 ELSE @] : p \in replies}

-----------------------------------------------------------------------------
(* submit: the message is stored, then contact_ack and contact_notify go.  *)

SubmitStore(r, m) ==
    /\ m \notin used
    /\ msg' = [msg EXCEPT ![m] = [status |-> "unread", old |-> FALSE]]
    /\ used' = used \cup {m}
    /\ Start(r, "submit", "mail", m, "unread")
    /\ UNCHANGED <<mail, reply, quoted, clearing, job, history>>

SubmitMail(r) ==
    /\ \/ At(r, "submit", "mail") /\ Goto(r, "mail2")
       \/ At(r, "submit", "mail2") /\ End(r)
    /\ Log(req[r].on, "contact")
    /\ UNCHANGED <<handled, msg, reply, quoted, used, clearing, job, history>>

-----------------------------------------------------------------------------
(* The handlers that begin with findOrNotFound                             *)

\* Mutant: any view marks the message read.
View_Any(r, m) == msg[m] # NoMessage /\ Start(r, "view", "load", m, "read")

View(r, m) == msg[m].status = "unread" /\ Start(r, "view", "load", m, "read")

Find(r, m) ==
    /\ msg[m] # NoMessage
    /\ \/ View(r, m)
       \/ \E s \in Statuses : Start(r, "patch", "load", m, s)
       \/ Start(r, "reply", "mail", m, "read")
       \/ Start(r, "convert", "insert", m, "read")
       \/ Start(r, "remove", "load", m, "read")
    /\ UNCHANGED <<tables, used, clearing, job, history>>

Saves(r) == req[r].stage \in {"load", "write"} /\ req[r].op \in {"view", "patch", "reply"}

\* archived follows the PATCHes.
Noted(r) ==
    LET m == req[r].on IN
    archived' = IF req[r].op # "patch" THEN archived
                ELSE IF req[r].want = "archived" THEN archived \cup {m} ELSE archived \ {m}

SaveLoad(r) ==
    LET m == req[r].on
        wanted == [status |-> req[r].want, old |-> req[r].old]
    IN
    /\ Saves(r) /\ req[r].stage = "load"
    /\ IF msg[m].status \in {"none", req[r].want}
       THEN /\ msg' = IF msg[m] = NoMessage THEN [msg EXCEPT ![m] = wanted] ELSE msg
            /\ Noted(r)
            /\ End(r)
       ELSE Goto(r, "write") /\ UNCHANGED <<msg, archived>>
    /\ UNCHANGED <<handled, mail, reply, quoted, used, clearing, job, erased, uncopied>>

SaveWrite(r) ==
    LET m == req[r].on IN
    /\ Saves(r) /\ req[r].stage = "write"
    /\ msg' = IF msg[m] = NoMessage THEN msg ELSE [msg EXCEPT ![m].status = req[r].want]
    /\ Noted(r)
    /\ End(r)
    /\ UNCHANGED <<handled, mail, reply, quoted, used, clearing, job, erased, uncopied>>

\* The foreign key: the message must still be there.
ConvertInsert(r) ==
    /\ At(r, "convert", "insert")
    /\ quoted' = IF msg[req[r].on] = NoMessage THEN quoted ELSE quoted \cup {req[r].on}
    /\ End(r)
    /\ UNCHANGED <<handled, msg, mail, reply, used, clearing, job, history>>

-----------------------------------------------------------------------------
(* reply: the mail, the look-up of its row, the reply, the status          *)

ReplySend(r) ==
    /\ At(r, "reply", "mail")
    /\ Log(req[r].on, "message_reply")
    /\ req' = [req EXCEPT ![r].stage = "lookup", ![r].own = IF mail' = mail THEN 0 ELSE Len(mail')]
    /\ UNCHANGED <<handled, msg, reply, quoted, used, clearing, job, history>>

\* Mutant: the look-up without the template.
Newest_AnyTemplate(m) ==
    IF MailsOf(m) = {} THEN 0 ELSE CHOOSE i \in MailsOf(m) : \A j \in MailsOf(m) : j <= i

\* The newest row of mail_log for the message and the template, or null.
Newest(m) ==
    LET replies == {i \in MailsOf(m) : mail[i].key = "message_reply"} IN
    IF replies = {} THEN 0 ELSE CHOOSE i \in replies : \A j \in replies : j <= i

ReplyLookup(r) ==
    /\ At(r, "reply", "lookup")
    /\ req' = [req EXCEPT ![r].stage = "insert", ![r].found = Newest(req[r].on)]
    /\ UNCHANGED <<handled, tables, used, clearing, job, history>>

\* The foreign keys: the message and the row of mail_log must still be there.
ReplyInsert(r) ==
    LET m == req[r].on
        f == req[r].found
        sound == msg[m] # NoMessage /\ (f # 0 => mail[f].status # "deleted")
    IN
    /\ At(r, "reply", "insert")
    /\ f # 0 => m \notin clearing
    /\ IF sound
       THEN reply' = reply \cup {[about |-> m, own |-> req[r].own, was |-> f, mail |-> f, kept |-> "null"]}
       ELSE reply' = reply
    /\ IF sound /\ req[r].wasUnread THEN Goto(r, "load") ELSE End(r)
    /\ UNCHANGED <<handled, msg, mail, quoted, used, clearing, job, history>>

-----------------------------------------------------------------------------
(* remove: one transaction; replies cascade, testimonials keep their text. *)

RemoveLock(r) ==
    /\ At(r, "remove", "load")
    /\ req[r].on \notin clearing
    /\ clearing' = clearing \cup {req[r].on}
    /\ Goto(r, "write")
    /\ UNCHANGED <<handled, tables, used, job, history>>

\* Mutant: mail_log outlives the message.
RemoveMails_None(m) == mail

RemoveMails(m) == Without(MailsOf(m))

RemoveCommit(r) ==
    LET m == req[r].on IN
    /\ At(r, "remove", "write")
    /\ mail' = RemoveMails(m)
    /\ msg' = [msg EXCEPT ![m] = NoMessage]
    /\ reply' = Unlinked({p \in reply : p.about # m}, MailsOf(m))
    /\ quoted' = quoted \ {m}
    /\ clearing' = clearing \ {m}
    /\ erased' = IF \E o \in Reqs \ {r} : req[o] # Idle /\ req[o].on = m THEN erased ELSE erased \cup {m}
    /\ archived' = archived \ {m}
    /\ End(r)
    /\ UNCHANGED <<handled, used, job, uncopied>>

-----------------------------------------------------------------------------
(* runNightlyJob; a statement that fails is passed over.                   *)

OldMails == {i \in DOMAIN mail : mail[i].status # "deleted" /\ mail[i].age = "old"}

JobStart ==
    /\ job = "idle" /\ job' = "copy"
    /\ UNCHANGED <<handled, tables, used, req, clearing, history>>

\* keepReplyDeliveryStatus, for the replies whose mail is about to be purged.
Copied(p) == [p EXCEPT !.kept = IF p.mail \in OldMails THEN mail[p.mail].status ELSE @]

\* Mutant: mail_log is purged before the copy.
JobCopy_Late ==
    /\ job = "copy" /\ OldMails \cap Locked = {}
    /\ job' = "mail"
    /\ mail' = Without(OldMails) /\ reply' = Unlinked(reply, OldMails)
    /\ UNCHANGED <<handled, msg, quoted, used, req, clearing, history>>

JobCopy ==
    /\ job = "copy" /\ OldMails \cap Locked = {}
    /\ job' = "mail"
    /\ \/ reply' = {Copied(p) : p \in reply} /\ uncopied' = uncopied \ OldMails
       \/ reply' = reply /\ uncopied' = uncopied \cup OldMails
    /\ UNCHANGED <<handled, msg, mail, quoted, used, req, clearing, erased, archived>>

\* purgeOldMailLog
JobMail ==
    /\ job = "mail" /\ OldMails \cap Locked = {}
    /\ job' = "messages"
    /\ \/ mail' = Without(OldMails) /\ reply' = Unlinked(reply, OldMails)
       \/ UNCHANGED <<mail, reply>>
    /\ UNCHANGED <<handled, msg, quoted, used, req, clearing, history>>


\* purgeOldContactMessages
JobMessages ==
    LET old == {m \in Msgs : msg[m].old} IN
    /\ job = "messages" /\ job' = "idle"
    /\ \/ /\ msg' = [m \in Msgs |-> IF m \in old THEN NoMessage ELSE msg[m]]
          /\ reply' = {p \in reply : p.about \notin old}
          /\ quoted' = quoted \ old
          /\ archived' = archived \ old
       \/ UNCHANGED <<msg, reply, quoted, archived>>
    /\ UNCHANGED <<handled, mail, used, req, clearing, erased, uncopied>>

-----------------------------------------------------------------------------
(* The mail queue, the process and time                                    *)

\* attemptDelivery records how an attempt ended.
Deliver(i) ==
    /\ i \notin Locked /\ mail[i].status = "queued"
    /\ mail' = [mail EXCEPT ![i].status = "done"]
    /\ UNCHANGED <<msg, reply, quoted, used, req, handled, clearing, job, history>>

\* The process stops; the transaction it was in is rolled back.
Crash ==
    /\ \E r \in Reqs : req[r] # Idle
    /\ req' = [r \in Reqs |-> Idle]
    /\ clearing' = {} /\ job' = "idle"
    /\ UNCHANGED <<handled, tables, used, history>>

\* A mail turns 90 days old at any moment, also of a running job, and after
\* those before it.
TurnsOld(i) ==
    /\ mail[i].age = "near"
    /\ \A h \in 1..(i - 1) : mail[h].age = "old"
    /\ mail' = [mail EXCEPT ![i].age = "old"]
    /\ uncopied' = IF job = "idle" THEN uncopied ELSE uncopied \cup {i}
    /\ UNCHANGED <<handled, msg, reply, quoted, used, req, clearing, job, erased, archived>>

\* More time than a request or the job takes: weeks, or two years.
TimePasses ==
    /\ job = "idle" /\ \A r \in Reqs : req[r] = Idle
    /\ \/ /\ mail' = [i \in DOMAIN mail |-> [mail[i] EXCEPT !.age = IF @ = "new" THEN "near" ELSE @]]
          /\ UNCHANGED msg
       \/ /\ mail' = [i \in DOMAIN mail |-> [mail[i] EXCEPT !.age = "old"]]
          /\ msg' = [m \in Msgs |-> IF msg[m] = NoMessage THEN NoMessage ELSE [msg[m] EXCEPT !.old = TRUE]]
    /\ UNCHANGED <<reply, quoted, used, req, handled, clearing, job, history>>

Next ==
    \/ \E r \in Reqs, m \in Msgs : SubmitStore(r, m) \/ Find(r, m)
    \/ \E r \in Reqs :
          \/ SubmitMail(r) \/ SaveLoad(r) \/ SaveWrite(r) \/ ConvertInsert(r)
          \/ ReplySend(r) \/ ReplyLookup(r) \/ ReplyInsert(r)
          \/ RemoveLock(r) \/ RemoveCommit(r)
    \/ JobStart \/ JobCopy \/ JobMail \/ JobMessages
    \/ \E i \in DOMAIN mail : Deliver(i) \/ TurnsOld(i)
    \/ Crash \/ TimePasses

Spec == Init /\ [][Next]_vars

-----------------------------------------------------------------------------
(* Properties                                                              *)

\* A removal leaves nothing of the message: no row, no reply, no testimonial that
\* names it, no mail about it (remove: a sender's data must not linger past a
\* deletion request).  Other requests on the message in flight at that moment
\* may bring some of it back, which is why they are excluded.
RemovedLeavesNothing ==
    \A m \in erased : msg[m] = NoMessage /\ MailsOf(m) = {} /\ m \notin quoted
                      /\ \A p \in reply : p.about # m

\* A reply is linked to a reply's mail about its message, and to none older than
\* the one its own send() logged, as long as that mail is there.
ReplyLinksItsMail ==
    \A p \in reply :
        /\ p.mail # 0 => mail[p.mail].about = p.about /\ mail[p.mail].key = "message_reply"
                         /\ p.mail >= p.own
        /\ p.own # 0 /\ mail[p.own].status # "deleted" => p.mail # 0

\* keepReplyDeliveryStatus: when the mail that a reply was linked to is purged, the
\* reply says how it ended, unless the copy failed that night or the mail turned 90
\* days old while the job ran.  A reply to a message that was removed, and inserted
\* again by a stale save, is linked to nothing from the start.
OutcomeKept ==
    \A p \in reply : p.own # 0 /\ p.was # 0 /\ p.mail = 0 => p.kept # "null" \/ p.was \in uncopied

\* findWithReplies and reply mark an unread message read and never bring an
\* archived one back, except a request that had read it before it was archived.
ArchivedStaysArchived ==
    [][\A m \in archived \cap archived' : msg[m].status = "archived" /\ msg'[m].status # "archived" =>
          \E r \in Reqs : Saves(r) /\ req[r].on = m /\ req[r].wasUnread]_vars
=============================================================================
