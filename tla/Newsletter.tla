----------------------------- MODULE Newsletter -----------------------------
(***************************************************************************)
(* Newsletter subscriptions with double opt-in: subscribe, confirm and     *)
(* unsubscribe (contact.service.ts), their signed links                    *)
(* (newsletter-token.util.ts), an admin's delete (admin-newsletter) and    *)
(* the nightly purge of inactive rows (maintenance.service.ts).            *)
(*                                                                         *)
(* Each awaited statement, with the code that runs when it returns, is one *)
(* step.  subscribe saves the row it found: save() reads it again by its   *)
(* id and writes the columns that differ.  Of a timestamp only counts      *)
(* whether it lies more than 30 days back, of a link whether its 7 days    *)
(* are over.  Left out: locale, the lists and the CSV export, spam checks  *)
(* (a submission taken for spam changes nothing).  The names that Messages *)
(* has as well are prefixed with NL, for the proofs about both.            *)
(***************************************************************************)
EXTENDS Naturals

CONSTANTS
    Addrs,      \* addresses that subscribe
    Calls,      \* requests to subscribe in flight
    MaxRows     \* bound: rows inserted for an address

ASSUME NewsletterConstants == MaxRows \in Nat

VARIABLES
    sub,        \* newsletter_subscribers
    ids,        \* the last id given to a row of each address
    link,       \* whether a confirmation link to the address is still valid
    call        \* calls of subscribe

nlvars == <<sub, ids, link, call>>

\* The columns that say what a row counts as.
Subscriber == [id : Nat \ {0}, confirmed : BOOLEAN, unsub : BOOLEAN, old : BOOLEAN, unsubOld : BOOLEAN]
NoSubscriber == [id |-> 0, confirmed |-> FALSE, unsub |-> FALSE, old |-> FALSE, unsubOld |-> FALSE]
Subscribe == [stage : {"load", "write", "mail"}, addr : Addrs, found : Subscriber \cup {NoSubscriber},
              cols : SUBSET {"confirmed", "unsub"}]
NoCall == [stage |-> "idle"]

NLTypeOK ==
    /\ sub \in [Addrs -> Subscriber \cup {NoSubscriber}]
    /\ ids \in [Addrs -> Nat]
    /\ link \in [Addrs -> BOOLEAN]
    /\ call \in [Calls -> Subscribe \cup {NoCall}]
    /\ \A a \in Addrs : sub[a].id <= ids[a]

Active(s) == s # NoSubscriber /\ s.confirmed /\ ~s.unsub
Pending(s) == s # NoSubscriber /\ ~s.confirmed /\ ~s.unsub

NLInit ==
    /\ sub = [a \in Addrs |-> NoSubscriber]
    /\ ids = [a \in Addrs |-> 0]
    /\ link = [a \in Addrs |-> FALSE]
    /\ call = [r \in Calls |-> NoCall]

-----------------------------------------------------------------------------
(* subscribe                                                               *)

CallAt(r, stage) == call[r].stage = stage
CallGoto(r, stage) == call' = [call EXCEPT ![r].stage = stage]
CallEnds(r) == call' = [call EXCEPT ![r] = NoCall]

\* Mutant: also for an address that is subscribed and confirmed.
SubscribeFind_Always(r, a) ==
    /\ call[r] = NoCall
    /\ call' = [call EXCEPT ![r] = [stage |-> "load", addr |-> a, found |-> sub[a], cols |-> {}]]
    /\ UNCHANGED <<sub, ids, link>>

\* An address that is subscribed and confirmed gets no second mail.
SubscribeFind(r, a) ==
    /\ call[r] = NoCall
    /\ ~Active(sub[a])
    /\ call' = [call EXCEPT ![r] = [stage |-> "load", addr |-> a, found |-> sub[a], cols |-> {}]]
    /\ UNCHANGED <<sub, ids, link>>

\* save() reads the row again, by the id it was found with.
There(r) == sub[call[r].addr] # NoSubscriber /\ sub[call[r].addr].id = call[r].found.id

SubscribeLoad(r) ==
    LET s == sub[call[r].addr] IN
    /\ CallAt(r, "load") /\ There(r)
    /\ call' = [call EXCEPT ![r].stage = "write",
                 ![r].cols = {c \in {"confirmed", "unsub"} :
                                  IF c = "confirmed" THEN s.confirmed ELSE s.unsub}]
    /\ UNCHANGED <<sub, ids, link>>

\* Mutant: every row is inserted with the next id.
Inserted_Anew(r) == [NoSubscriber EXCEPT !.id = ids[call[r].addr] + 1]

\* A row that is new, or that is gone, is inserted: a new one with the next id,
\* the other as it was found but for the two columns.
Inserted(r) ==
    LET f == call[r].found IN
    IF f = NoSubscriber THEN [NoSubscriber EXCEPT !.id = ids[call[r].addr] + 1]
    ELSE [f EXCEPT !.confirmed = FALSE, !.unsub = FALSE, !.unsubOld = FALSE]

SubscribeInsert(r) ==
    LET a == call[r].addr IN
    /\ CallAt(r, "load") /\ sub[a] = NoSubscriber
    /\ call[r].found = NoSubscriber => ids[a] < MaxRows
    /\ sub' = [sub EXCEPT ![a] = Inserted(r)]
    /\ ids' = [ids EXCEPT ![a] = IF call[r].found = NoSubscriber THEN @ + 1 ELSE @]
    /\ CallGoto(r, "mail")
    /\ UNCHANGED link

\* uq_newsletter_email: the address has another row by now.
SubscribeFails(r) ==
    /\ CallAt(r, "load") /\ ~There(r) /\ sub[call[r].addr] # NoSubscriber
    /\ CallEnds(r)
    /\ UNCHANGED <<sub, ids, link>>

\* Mutant: confirmed_at is left as it was.
Resubscribed_StillConfirmed(s, cols) ==
    [s EXCEPT !.unsub = IF "unsub" \in cols THEN FALSE ELSE @,
              !.unsubOld = IF "unsub" \in cols THEN FALSE ELSE @]

\* The columns that differed, in the row with that id.
Resubscribed(s, cols) ==
    [s EXCEPT !.confirmed = IF "confirmed" \in cols THEN FALSE ELSE @,
              !.unsub = IF "unsub" \in cols THEN FALSE ELSE @,
              !.unsubOld = IF "unsub" \in cols THEN FALSE ELSE @]

SubscribeWrite(r) ==
    /\ CallAt(r, "write")
    /\ sub' = IF There(r) THEN [sub EXCEPT ![call[r].addr] = Resubscribed(@, call[r].cols)] ELSE sub
    /\ CallGoto(r, "mail")
    /\ UNCHANGED <<ids, link>>

\* newsletter_confirm goes out with a link, or send() swallows what went wrong.
SubscribeSend(r) ==
    /\ CallAt(r, "mail")
    /\ link' = [link EXCEPT ![call[r].addr] = TRUE] \/ UNCHANGED link
    /\ CallEnds(r)
    /\ UNCHANGED <<sub, ids>>

-----------------------------------------------------------------------------
(* Links, the admin, the nightly purge, the process and time               *)

\* A link is not spent by its use: any that is still valid will do.
Confirm(a) ==
    /\ link[a]
    /\ Pending(sub[a])
    /\ sub' = [sub EXCEPT ![a].confirmed = TRUE]
    /\ UNCHANGED <<ids, link, call>>

\* The link in a newsletter does not expire.
Unsubscribe(a) ==
    /\ sub[a] # NoSubscriber /\ ~sub[a].unsub
    /\ sub' = [sub EXCEPT ![a].unsub = TRUE]
    /\ UNCHANGED <<ids, link, call>>

Remove(a) ==
    /\ sub[a] # NoSubscriber
    /\ sub' = [sub EXCEPT ![a] = NoSubscriber]
    /\ UNCHANGED <<ids, link, call>>

\* purgeInactiveNewsletterRows
Inactive(s) == s.unsubOld \/ (~s.confirmed /\ s.old)
Purge ==
    /\ \E a \in Addrs : Inactive(sub[a])
    /\ sub' = [a \in Addrs |-> IF Inactive(sub[a]) THEN NoSubscriber ELSE sub[a]]
    /\ UNCHANGED <<ids, link, call>>

Restart ==
    /\ \E r \in Calls : call[r] # NoCall
    /\ call' = [r \in Calls |-> NoCall]
    /\ UNCHANGED <<sub, ids, link>>

\* More time than a request lasts: the links' seven days, and 30 days.
WeekPasses ==
    /\ \A r \in Calls : call[r] = NoCall
    /\ link' = [a \in Addrs |-> FALSE]
    /\ UNCHANGED <<sub, ids, call>>

MonthPasses ==
    /\ \A r \in Calls : call[r] = NoCall
    /\ link' = [a \in Addrs |-> FALSE]
    /\ sub' = [a \in Addrs |-> IF sub[a] = NoSubscriber THEN NoSubscriber
                               ELSE [sub[a] EXCEPT !.old = TRUE, !.unsubOld = sub[a].unsub]]
    /\ UNCHANGED <<ids, call>>

NLNext ==
    \/ \E r \in Calls :
          \/ \E a \in Addrs : SubscribeFind(r, a)
          \/ SubscribeLoad(r) \/ SubscribeInsert(r) \/ SubscribeFails(r)
          \/ SubscribeWrite(r) \/ SubscribeSend(r)
    \/ \E a \in Addrs : Confirm(a) \/ Unsubscribe(a) \/ Remove(a)
    \/ Purge \/ Restart \/ WeekPasses \/ MonthPasses

NLSpec == NLInit /\ [][NLNext]_nlvars

-----------------------------------------------------------------------------
(* Properties                                                              *)

\* Double opt-in (subscribe, confirmSubscription): an address comes to count as
\* subscribed by a valid link to it and nothing else, whatever requests to
\* subscribe overlap; but for the save of one that read the row before another
\* was confirmed and unsubscribed again.
ActiveOnlyByLink ==
    [][\A a \in Addrs : ~Active(sub[a]) /\ Active(sub'[a]) =>
          \/ link[a] /\ ~sub[a].confirmed
          \/ \E r \in Calls : CallAt(r, "write") /\ call[r].addr = a /\ call[r].cols = {"unsub"}]_nlvars

\* A confirmed subscription ends by its link or by an admin: a new request for
\* the address leaves it alone, unless it had found the row before it counted.
ConfirmationKept ==
    [][\A a \in Addrs : Active(sub[a]) /\ sub'[a] # NoSubscriber /\ ~Active(sub'[a]) =>
          \/ sub'[a].unsub
          \/ \E r \in Calls : CallAt(r, "write") /\ call[r].addr = a /\ ~Active(call[r].found)]_nlvars

\* "Newsletter rows unsubscribed - or never confirmed - for 30 days": the purge
\* spares a subscription whose link is still valid for confirming it.  The code does
\* not keep this (README, section 5).
ConfirmableRowsStay ==
    [][Purge => \A a \in Addrs : link[a] /\ Pending(sub[a]) => sub'[a] # NoSubscriber]_nlvars
=============================================================================
