--------------------------- MODULE Contact_proofs ---------------------------
(***************************************************************************)
(* Proofs about Messages and about Newsletter, the two components behind   *)
(* contact.service.ts, for any messages, addresses and requests.  They     *)
(* share no state: the first part is about Spec, the second about NLSpec.  *)
(***************************************************************************)
EXTENDS Messages, Newsletter, FiniteSetTheorems, WellFoundedInduction, SequenceTheorems, TLAPS

-----------------------------------------------------------------------------
(* PART 1: Messages                                                        *)
-----------------------------------------------------------------------------
Stages == {"mail", "mail2", "load", "write", "insert", "lookup"}
Ops == {"submit", "view", "patch", "reply", "convert", "remove"}
Requests == Request \cup {Idle}

\* What a row of message_replies and a request refer to in mail_log is there.
Indices ==
    /\ \A p \in reply : {p.own, p.was, p.mail} \subseteq 0..Len(mail)
    /\ \A r \in Reqs : req[r] # Idle => {req[r].own, req[r].found} \subseteq 0..Len(mail)

Typed == TypeOK /\ Indices

-----------------------------------------------------------------------------
(* Requests                                                                *)

LEMMA ReqIs ==
    ASSUME TypeOK, NEW r \in Reqs
    PROVE  /\ req[r] \in Requests
           /\ req[r].stage = "idle" <=> req[r] = Idle
           /\ req[r] # Idle => /\ req[r] \in Request /\ req[r].on \in Msgs /\ req[r].stage \in Stages
                               /\ req[r].op \in Ops /\ req[r].want \in Statuses /\ req[r].old \in BOOLEAN
                               /\ req[r].own \in Nat /\ req[r].found \in Nat
<1>1. \A x \in Request : /\ x.stage \in Stages /\ x.on \in Msgs /\ x.op \in Ops /\ x.want \in Statuses
                         /\ x.old \in BOOLEAN /\ x.own \in Nat /\ x.found \in Nat
  BY DEF Request, Stages, Ops
<1>2. Idle.stage = "idle" /\ "idle" \notin Stages
  BY DEF Idle, Stages
<1>3. req[r] \in Request \cup {Idle}
  BY DEF TypeOK
<1> QED
  BY <1>1, <1>2, <1>3 DEF Requests

\* A request moves on: only its place changes.
LEMMA Moves ==
    ASSUME TypeOK, NEW r \in Reqs, req[r] # Idle, NEW stage \in Stages, Goto(r, stage)
    PROVE  /\ req' \in [Reqs -> Requests]
           /\ \A q \in Reqs \ {r} : req'[q] = req[q]
           /\ req'[r] \in Request /\ req'[r].stage = stage
           /\ req'[r].op = req[r].op /\ req'[r].on = req[r].on
           /\ req'[r].wasUnread = req[r].wasUnread /\ req'[r].want = req[r].want
           /\ req'[r].own = req[r].own /\ req'[r].found = req[r].found
<1> DEFINE new == [req[r] EXCEPT !.stage = stage]
<1>1. req[r] \in Request
  BY ReqIs
<1>2. /\ new \in Request /\ new.stage = stage /\ new.op = req[r].op /\ new.on = req[r].on
      /\ new.wasUnread = req[r].wasUnread /\ new.want = req[r].want
      /\ new.own = req[r].own /\ new.found = req[r].found
  BY <1>1 DEF Request, Stages
<1>3. req' = [req EXCEPT ![r] = new]
  BY DEF Goto, TypeOK
<1> HIDE DEF new
<1> QED
  BY <1>2, <1>3 DEF TypeOK, Requests

LEMMA Ends ==
    ASSUME TypeOK, NEW r \in Reqs, End(r)
    PROVE  /\ req' \in [Reqs -> Requests]
           /\ req'[r] = Idle /\ \A q \in Reqs \ {r} : req'[q] = req[q]
  BY DEF End, TypeOK, Requests

LEMMA Starts ==
    ASSUME TypeOK, NEW r \in Reqs, NEW op \in Ops, NEW stage \in Stages, NEW m \in Msgs,
           NEW want \in Statuses, Start(r, op, stage, m, want)
    PROVE  /\ req' \in [Reqs -> Requests] /\ handled' \in 0..MaxHandled
           /\ \A q \in Reqs \ {r} : req'[q] = req[q]
           /\ req[r] = Idle /\ req'[r] \in Request
           /\ req'[r].stage = stage /\ req'[r].op = op /\ req'[r].on = m
           /\ req'[r].wasUnread = (op \in {"view", "reply"} /\ msg[m].status = "unread")
           /\ req'[r].want = want /\ req'[r].own = 0 /\ req'[r].found = 0
<1> DEFINE new == [op |-> op, stage |-> stage, on |-> m, old |-> msg[m].old, want |-> want,
                   wasUnread |-> op \in {"view", "reply"} /\ msg[m].status = "unread",
                   own |-> 0, found |-> 0]
<1>1. msg[m].old \in BOOLEAN
  <2>1. msg[m] \in Message
    BY DEF TypeOK
  <2>2. CASE msg[m] = NoMessage
    BY <2>2 DEF NoMessage
  <2>3. CASE msg[m] \in [status : Statuses, old : BOOLEAN]
    BY <2>3
  <2> QED
    BY <2>1, <2>2, <2>3 DEF Message
<1>2. new \in Request /\ new.stage = stage /\ new.op = op /\ new.on = m /\ new.want = want
      /\ new.own = 0 /\ new.found = 0
      /\ new.wasUnread = (op \in {"view", "reply"} /\ msg[m].status = "unread")
  BY <1>1 DEF Request, Stages, Ops
<1>3. req' = [req EXCEPT ![r] = new] /\ req[r] = Idle /\ handled' = handled + 1 /\ handled < MaxHandled
  BY DEF Start
<1>4. handled' \in 0..MaxHandled
  BY <1>3, MessageConstants DEF TypeOK
<1> HIDE DEF new
<1> QED
  BY <1>2, <1>3, <1>4 DEF TypeOK, Requests

-----------------------------------------------------------------------------
(* mail_log                                                                *)

LEMMA MailIs ==
    ASSUME TypeOK
    PROVE  /\ Len(mail) \in Nat /\ DOMAIN mail = 1..Len(mail)
           /\ \A i \in 1..Len(mail) : mail[i] \in Mail
  BY DEF TypeOK

\* A function on the same ids is a log again.
LEMMA SameIds ==
    ASSUME TypeOK, NEW f, f = [i \in DOMAIN mail |-> f[i]], \A i \in DOMAIN mail : f[i] \in Mail
    PROVE  f \in Seq(Mail) /\ Len(f) = Len(mail)
<1>1. Len(mail) \in Nat /\ DOMAIN mail = 1..Len(mail)
  BY MailIs
<1>2. f \in [1..Len(mail) -> Mail]
  BY <1>1
<1> QED
  BY <1>1, <1>2

\* What no step takes back: rows are appended, keep what they are about, and
\* those deleted stay so.  While a request is under way a new row does not age.
Kept ==
    /\ mail' \in Seq(Mail) /\ Len(mail') <= MaxMails
    /\ Len(mail) <= Len(mail')
    /\ \A i \in 1..Len(mail) :
          /\ mail'[i].about = mail[i].about /\ mail'[i].key = mail[i].key
          /\ mail[i].status = "deleted" => mail'[i].status = "deleted"
    /\ \/ \A r \in Reqs : req[r] = Idle
       \/ /\ \A i \in 1..Len(mail) : mail[i].age = "new" => mail'[i].age = "new"
          /\ \A i \in 1..Len(mail') : i > Len(mail) => mail'[i].age = "new"

\* Rows age oldest first, and those about one message are deleted oldest first.
MailOrder ==
    \A i, j \in 1..Len(mail) : i < j =>
        /\ mail[j].age = "old" => mail[i].age = "old"
        /\ mail[j].status = "deleted" /\ mail[i].about = mail[j].about => mail[i].status = "deleted"

\* Steps that delete no row.
Spares == \A i \in 1..Len(mail) : mail'[i].status = "deleted" => mail[i].status = "deleted"

LEMMA Unlogged ==
    ASSUME TypeOK, MailOrder, mail' = mail
    PROVE  Kept /\ MailOrder' /\ Spares
  BY MailIs DEF TypeOK, Kept, MailOrder, Spares

LEMMA Logged ==
    ASSUME TypeOK, MailOrder, NEW m \in Msgs, NEW key \in {"contact", "message_reply"}, Log(m, key)
    PROVE  /\ Kept /\ MailOrder' /\ Spares
           /\ mail' # mail => /\ Len(mail') = Len(mail) + 1
                              /\ mail'[Len(mail')].about = m /\ mail'[Len(mail')].key = key
                              /\ mail'[Len(mail')].status = "queued"
                              /\ mail'[Len(mail')].age = "new"
<1>1. Len(mail) \in Nat /\ DOMAIN mail = 1..Len(mail) /\ \A i \in 1..Len(mail) : mail[i] \in Mail
  BY MailIs
<1>2. CASE mail' = mail
  BY <1>2, Unlogged
<1>3. CASE mail' # mail
  <2>1. PICK new \in Mail : new = [about |-> m, key |-> key, status |-> "queued", age |-> "new"]
    BY DEF Mail, Outcomes
  <2>2. Len(mail) < MaxMails /\ mail' = Append(mail, new)
    BY <1>3, <2>1 DEF Log
  <2>3. /\ mail' \in Seq(Mail) /\ Len(mail') = Len(mail) + 1
        /\ \A i \in 1..Len(mail) : mail'[i] = mail[i]
        /\ mail'[Len(mail) + 1] = new
    BY <2>2 DEF TypeOK
  <2>4. Len(mail') <= MaxMails
    BY <1>1, <2>2, <2>3, MessageConstants
  <2>5. \A i \in 1..Len(mail') : i \in 1..Len(mail) \/ i = Len(mail) + 1
    BY <1>1, <2>3
  <2>6. new.age = "new" /\ new.status = "queued" /\ new.about = m /\ new.key = key
    BY <2>1
  <2>7. Kept
    BY <1>1, <2>3, <2>4, <2>5, <2>6 DEF Kept
  <2>8. MailOrder'
    <3> SUFFICES ASSUME NEW i \in 1..Len(mail'), NEW j \in 1..Len(mail'), i < j
                 PROVE  /\ mail'[j].age = "old" => mail'[i].age = "old"
                        /\ mail'[j].status = "deleted" /\ mail'[i].about = mail'[j].about
                              => mail'[i].status = "deleted"
      BY DEF MailOrder
    <3>1. CASE j = Len(mail) + 1
      BY <2>3, <2>6, <3>1
    <3>2. CASE j # Len(mail) + 1
      <4>1. i \in 1..Len(mail) /\ j \in 1..Len(mail)
        BY <1>1, <2>5, <3>2
      <4> QED
        BY <2>3, <4>1 DEF MailOrder
    <3> QED
      BY <3>1, <3>2
  <2>9. Spares
    BY <2>3 DEF Spares
  <2> QED
    BY <2>3, <2>6, <2>7, <2>8, <2>9
<1> QED
  BY <1>2, <1>3

LEMMA Deleted ==
    ASSUME TypeOK, MailOrder, NEW gone, gone \subseteq DOMAIN mail, mail' = Without(gone),
           \A i, j \in 1..Len(mail) : i < j /\ j \in gone /\ mail[i].about = mail[j].about
                                         => i \in gone \/ mail[i].status = "deleted"
    PROVE  /\ Kept /\ MailOrder' /\ Len(mail') = Len(mail)
           /\ \A i \in 1..Len(mail) : mail'[i].status = IF i \in gone THEN "deleted" ELSE mail[i].status
<1>1. Len(mail) \in Nat /\ DOMAIN mail = 1..Len(mail) /\ \A i \in 1..Len(mail) : mail[i] \in Mail
  BY MailIs
<1>2. ASSUME NEW i \in 1..Len(mail)
      PROVE  /\ mail'[i] \in Mail /\ mail'[i].about = mail[i].about /\ mail'[i].key = mail[i].key
             /\ mail'[i].age = mail[i].age
             /\ mail'[i].status = IF i \in gone THEN "deleted" ELSE mail[i].status
  <2>1. mail'[i] = IF i \in gone THEN [mail[i] EXCEPT !.status = "deleted"] ELSE mail[i]
    BY <1>1 DEF Without
  <2> QED
    BY <1>1, <2>1 DEF Mail
<1>3. mail' = [i \in DOMAIN mail |-> mail'[i]]
  BY <1>1 DEF Without
<1>4. mail' \in Seq(Mail) /\ Len(mail') = Len(mail)
  BY <1>1, <1>2, <1>3, SameIds
<1>5. Kept
  BY <1>1, <1>2, <1>4 DEF Kept, TypeOK
<1>6. MailOrder'
  BY <1>2, <1>4 DEF MailOrder
<1> QED
  BY <1>2, <1>4, <1>5, <1>6

LEMMA DeliverStep ==
    ASSUME TypeOK, MailOrder, NEW i \in DOMAIN mail, Deliver(i)
    PROVE  Kept /\ MailOrder' /\ Spares /\ Len(mail') = Len(mail)
<1>1. Len(mail) \in Nat /\ DOMAIN mail = 1..Len(mail) /\ \A j \in 1..Len(mail) : mail[j] \in Mail
  BY MailIs
<1>2. ASSUME NEW j \in 1..Len(mail)
      PROVE  /\ mail'[j] \in Mail /\ mail'[j].about = mail[j].about /\ mail'[j].key = mail[j].key
             /\ mail'[j].age = mail[j].age
             /\ mail'[j].status = "deleted" <=> mail[j].status = "deleted"
  <2>1. mail'[j] = IF j = i THEN [mail[i] EXCEPT !.status = "done"] ELSE mail[j]
    BY <1>1 DEF Deliver
  <2>2. mail[i].status = "queued"
    BY DEF Deliver
  <2> QED
    BY <1>1, <2>1, <2>2 DEF Mail, Outcomes
<1>3. mail' = [j \in DOMAIN mail |-> mail'[j]]
  BY <1>1 DEF Deliver
<1>4. mail' \in Seq(Mail) /\ Len(mail') = Len(mail)
  BY <1>1, <1>2, <1>3, SameIds
<1>5. Kept
  <2>1. \A j \in 1..Len(mail) : mail[j].status = "deleted" => mail'[j].status = "deleted"
    BY <1>2
  <2> QED
    BY <1>1, <1>2, <1>4, <2>1 DEF Kept, TypeOK
<1>6. MailOrder'
  <2>1. \A h, j \in 1..Len(mail) : h < j =>
            /\ mail'[j].age = "old" => mail'[h].age = "old"
            /\ mail'[j].status = "deleted" /\ mail'[h].about = mail'[j].about => mail'[h].status = "deleted"
    BY <1>2 DEF MailOrder
  <2> QED
    BY <1>4, <2>1 DEF MailOrder
<1> QED
  BY <1>2, <1>4, <1>5, <1>6 DEF Spares

\* Time only ages rows.
LEMMA Aged ==
    ASSUME TypeOK, MailOrder, mail' = [i \in DOMAIN mail |-> mail'[i]],
           \A i \in 1..Len(mail) : /\ mail'[i] \in Mail /\ mail'[i].about = mail[i].about
                                   /\ mail'[i].key = mail[i].key /\ mail'[i].status = mail[i].status,
           \A i, j \in 1..Len(mail) : i < j /\ mail'[j].age = "old" => mail'[i].age = "old",
           \/ \A r \in Reqs : req[r] = Idle
           \/ \A i \in 1..Len(mail) : mail[i].age = "new" => mail'[i].age = "new"
    PROVE  Kept /\ MailOrder' /\ Spares /\ Len(mail') = Len(mail)
<1>1. Len(mail) \in Nat /\ DOMAIN mail = 1..Len(mail)
  BY MailIs
<1>2. mail' \in Seq(Mail) /\ Len(mail') = Len(mail)
  BY <1>1, SameIds
<1> QED
  BY <1>1, <1>2 DEF Kept, TypeOK, MailOrder, Spares

LEMMA TurnsOldStep ==
    ASSUME TypeOK, MailOrder, NEW i \in DOMAIN mail, TurnsOld(i)
    PROVE  Kept /\ MailOrder' /\ Spares /\ Len(mail') = Len(mail)
<1>1. Len(mail) \in Nat /\ DOMAIN mail = 1..Len(mail) /\ \A j \in 1..Len(mail) : mail[j] \in Mail
  BY MailIs
<1>2. /\ mail[i].age = "near" /\ \A h \in 1..(i - 1) : mail[h].age = "old"
      /\ mail' = [mail EXCEPT ![i].age = "old"]
  BY DEF TurnsOld
<1>3. ASSUME NEW j \in 1..Len(mail)
      PROVE  /\ mail'[j] \in Mail /\ mail'[j].about = mail[j].about /\ mail'[j].key = mail[j].key
             /\ mail'[j].status = mail[j].status
             /\ mail'[j].age = IF j = i THEN "old" ELSE mail[j].age
  <2>1. mail'[j] = IF j = i THEN [mail[i] EXCEPT !.age = "old"] ELSE mail[j]
    BY <1>1, <1>2
  <2> QED
    BY <1>1, <2>1 DEF Mail
<1>4. mail' = [j \in DOMAIN mail |-> mail'[j]]
  BY <1>1, <1>2
<1>5. ASSUME NEW h \in 1..Len(mail), NEW j \in 1..Len(mail), h < j, mail'[j].age = "old"
      PROVE  mail'[h].age = "old"
  <2>1. CASE j = i
    <3>1. h \in 1..(i - 1)
      BY <1>1, <1>5, <2>1
    <3> QED
      BY <1>2, <1>3, <3>1
  <2>2. CASE j # i
    BY <1>3, <1>5, <2>2 DEF MailOrder
  <2> QED
    BY <2>1, <2>2
<1>6. \A j \in 1..Len(mail) : mail[j].age = "new" => mail'[j].age = "new"
  BY <1>2, <1>3
<1> QED
  BY <1>3, <1>4, <1>5, <1>6, Aged

LEMMA TimeStep ==
    ASSUME TypeOK, MailOrder, TimePasses
    PROVE  Kept /\ MailOrder' /\ Spares /\ Len(mail') = Len(mail)
<1>1. Len(mail) \in Nat /\ DOMAIN mail = 1..Len(mail) /\ \A j \in 1..Len(mail) : mail[j] \in Mail
  BY MailIs
<1>2. \A r \in Reqs : req[r] = Idle
  BY DEF TimePasses
<1>3. CASE mail' = [i \in DOMAIN mail |-> [mail[i] EXCEPT !.age = IF @ = "new" THEN "near" ELSE @]]
  <2>1. ASSUME NEW i \in 1..Len(mail)
        PROVE  /\ mail'[i] \in Mail /\ mail'[i].about = mail[i].about /\ mail'[i].key = mail[i].key
               /\ mail'[i].status = mail[i].status
               /\ mail'[i].age = "old" <=> mail[i].age = "old"
    BY <1>1, <1>3 DEF Mail
  <2>2. mail' = [i \in DOMAIN mail |-> mail'[i]]
    BY <1>3
  <2>3. \A i, j \in 1..Len(mail) : i < j /\ mail'[j].age = "old" => mail'[i].age = "old"
    BY <2>1 DEF MailOrder
  <2> QED
    BY <1>2, <2>1, <2>2, <2>3, Aged
<1>4. CASE mail' = [i \in DOMAIN mail |-> [mail[i] EXCEPT !.age = "old"]]
  <2>1. ASSUME NEW i \in 1..Len(mail)
        PROVE  /\ mail'[i] \in Mail /\ mail'[i].about = mail[i].about /\ mail'[i].key = mail[i].key
               /\ mail'[i].status = mail[i].status /\ mail'[i].age = "old"
    BY <1>1, <1>4 DEF Mail
  <2>2. mail' = [i \in DOMAIN mail |-> mail'[i]]
    BY <1>4
  <2> QED
    BY <1>2, <2>1, <2>2, Aged
<1> QED
  BY <1>3, <1>4 DEF TimePasses

\* The log has a newest row of any kind: of the ids from each of them up, those from
\* one contain no others.
LEMMA LastOf ==
    ASSUME NEW n \in Nat, NEW S \in SUBSET (1..n), S # {}
    PROVE  \E m \in S : \A i \in S : i <= m
<1> DEFINE R == StrictSubsetOrdering(1..n)
           T == {i..n : i \in S}
<1>1. IsWellFoundedOn(R, SUBSET (1..n))
  <2>1. IsFiniteSet(1..n)
    BY FS_Interval
  <2>2. FiniteSubsetsOf(1..n) = SUBSET (1..n)
    BY <2>1, FS_FiniteSubsetsOfFinite
  <2>3. IsWellFoundedOn(R, FiniteSubsetsOf(1..n))
    BY FS_StrictSubsetOrderingWellFounded
  <2> QED
    BY <2>2, <2>3
<1>2. T \subseteq SUBSET (1..n) /\ T # {}
  <2>1. \A i \in S : i..n \subseteq 1..n
    OBVIOUS
  <2> QED
    BY <2>1
<1>3. PICK X \in T : \A Y \in T : <<Y, X>> \notin R
  <2> HIDE DEF R, T
  <2> QED
    BY <1>1, <1>2, WFMin
<1>4. PICK m \in S : X = m..n
  BY <1>3
<1>5. ASSUME NEW i \in S, m < i
      PROVE  FALSE
  <2>1. i..n \subseteq m..n /\ i..n # m..n
    BY <1>5
  <2>2. <<i..n, m..n>> \in R
    <3>1. i..n \in SUBSET (1..n) /\ m..n \in SUBSET (1..n)
      OBVIOUS
    <3> QED
      BY <2>1, <3>1 DEF StrictSubsetOrdering
  <2> QED
    BY <1>3, <1>4, <2>2
<1> QED
  BY <1>5

LEMMA NewestIs ==
    ASSUME TypeOK, NEW m \in Msgs
    PROVE  /\ Newest(m) \in 0..Len(mail)
           /\ Newest(m) # 0 => /\ mail[Newest(m)].about = m /\ mail[Newest(m)].key = "message_reply"
                               /\ mail[Newest(m)].status # "deleted"
           /\ \A i \in 1..Len(mail) :
                 mail[i].about = m /\ mail[i].key = "message_reply" /\ mail[i].status # "deleted"
                     => i <= Newest(m) /\ Newest(m) # 0
<1> DEFINE S == {i \in MailsOf(m) : mail[i].key = "message_reply"}
<1>1. Len(mail) \in Nat /\ DOMAIN mail = 1..Len(mail)
  BY MailIs
<1>2. S \in SUBSET (1..Len(mail))
  BY <1>1 DEF MailsOf
<1>3. CASE S = {}
  <2>1. Newest(m) = 0
    BY <1>3 DEF Newest
  <2> QED
    BY <1>1, <1>3, <2>1 DEF MailsOf
<1>4. CASE S # {}
  <2>1. Newest(m) = CHOOSE i \in S : \A j \in S : j <= i
    BY <1>4 DEF Newest
  <2>2. \E i \in S : \A j \in S : j <= i
    BY <1>1, <1>2, <1>4, LastOf
  <2> HIDE DEF S
  <2>3. Newest(m) \in S /\ \A j \in S : j <= Newest(m)
    BY <2>1, <2>2
  <2>4. Newest(m) \in 1..Len(mail)
    BY <1>2, <2>3
  <2> QED
    BY <1>1, <2>3, <2>4 DEF S, MailsOf
<1> QED
  BY <1>3, <1>4

LEMMA MailStep ==
    ASSUME TypeOK, MailOrder, [Next]_vars
    PROVE  Kept /\ MailOrder'
<1>1. Len(mail) \in Nat /\ DOMAIN mail = 1..Len(mail)
  BY MailIs
<1>2. ASSUME NEW r \in Reqs, SubmitMail(r) \/ ReplySend(r)
      PROVE  Kept /\ MailOrder'
  <2>1. req[r].on \in Msgs
    BY <1>2, ReqIs DEF SubmitMail, ReplySend, At, Idle
  <2>2. Log(req[r].on, "contact") \/ Log(req[r].on, "message_reply")
    BY <1>2 DEF SubmitMail, ReplySend
  <2> QED
    BY <2>1, <2>2, Logged
<1>3. ASSUME NEW r \in Reqs, RemoveCommit(r)
      PROVE  Kept /\ MailOrder'
  <2> DEFINE gone == MailsOf(req[r].on)
  <2>1. mail' = Without(gone) /\ gone \subseteq DOMAIN mail
    BY <1>3 DEF RemoveCommit, RemoveMails, MailsOf
  <2>2. \A i, j \in 1..Len(mail) : i < j /\ j \in gone /\ mail[i].about = mail[j].about
                                      => i \in gone \/ mail[i].status = "deleted"
    BY <1>1 DEF MailsOf
  <2> HIDE DEF gone
  <2> QED
    BY <2>1, <2>2, Deleted
<1>4. ASSUME JobMail
      PROVE  Kept /\ MailOrder'
  <2>1. CASE mail' = Without(OldMails)
    <3>1. OldMails \subseteq DOMAIN mail
      BY DEF OldMails
    <3>2. \A i, j \in 1..Len(mail) : i < j /\ j \in OldMails /\ mail[i].about = mail[j].about
                                        => i \in OldMails \/ mail[i].status = "deleted"
      BY <1>1 DEF OldMails, MailOrder
    <3> QED
      BY <2>1, <3>1, <3>2, Deleted
  <2> QED
    BY <1>4, <2>1, Unlogged DEF JobMail
<1>5. ASSUME NEW i \in DOMAIN mail, Deliver(i) \/ TurnsOld(i)
      PROVE  Kept /\ MailOrder'
  BY <1>5, DeliverStep, TurnsOldStep
<1>6. CASE TimePasses
  BY <1>6, TimeStep
<1>7. ASSUME NEW r \in Reqs, NEW m \in Msgs, SubmitStore(r, m) \/ Find(r, m)
      PROVE  mail' = mail
  BY <1>7 DEF SubmitStore, Find, tables
<1>8. ASSUME NEW r \in Reqs, \/ SaveLoad(r) \/ SaveWrite(r) \/ ConvertInsert(r)
                             \/ ReplyLookup(r) \/ ReplyInsert(r) \/ RemoveLock(r)
      PROVE  mail' = mail
  BY <1>8 DEF SaveLoad, SaveWrite, ConvertInsert, ReplyLookup, ReplyInsert, RemoveLock, tables
<1>9. CASE JobStart \/ JobCopy \/ JobMessages \/ Crash \/ UNCHANGED vars
  <2>1. mail' = mail
    BY <1>9 DEF JobStart, JobCopy, JobMessages, Crash, vars, tables
  <2> QED
    BY <2>1, Unlogged
<1> QED
  BY <1>2, <1>3, <1>4, <1>5, <1>6, <1>7, <1>8, <1>9, Unlogged DEF Next

-----------------------------------------------------------------------------
(* What a request knows                                                    *)

IsReplyMail(i, m) == mail[i].about = m /\ mail[i].key = "message_reply"

\* A request is on a message whose id was handed out.  The mail it logged is a
\* reply's mail about that message, and no row from there on has aged yet; the one
\* it found is not an older one, and it finds none only when its own was deleted.
\* Only for an unread message do view and reply mark anything.
Ask(q) ==
    /\ q.on \in used
    /\ q.own \in 0..Len(mail) /\ q.found \in 0..Len(mail)
    /\ q.own # 0 => /\ IsReplyMail(q.own, q.on)
                    /\ \A i \in 1..Len(mail) : i >= q.own => mail[i].age = "new"
    /\ q.found # 0 => IsReplyMail(q.found, q.on) /\ q.found >= q.own
    /\ q.stage = "insert" /\ q.op = "reply" /\ q.own # 0 /\ q.found = 0
          => mail[q.own].status = "deleted"
    /\ q.op # "reply" \/ q.stage = "mail" => q.own = 0 /\ q.found = 0
    /\ q.stage \in {"load", "write"} /\ q.op \in {"view", "reply"} => q.wasUnread

ReqSound == \A r \in Reqs : req[r] # Idle => Ask(req[r])

\* The id of a message was handed out.
Handed == \A m \in Msgs : msg[m] # NoMessage => m \in used

LEMMA AskStays ==
    ASSUME TypeOK, Kept, used \subseteq used', NEW q \in Request, Ask(q), \E r \in Reqs : req[r] # Idle
    PROVE  Ask(q)'
<1>1. Len(mail) \in Nat /\ Len(mail') \in Nat /\ Len(mail) <= Len(mail')
  BY MailIs DEF Kept
<1>2. q.own \in 0..Len(mail) /\ q.found \in 0..Len(mail)
  BY DEF Ask
<1>3. \A i \in 1..Len(mail) :
         /\ mail'[i].about = mail[i].about /\ mail'[i].key = mail[i].key
         /\ mail[i].status = "deleted" => mail'[i].status = "deleted"
  BY DEF Kept
<1>4. ASSUME q.own # 0, NEW i \in 1..Len(mail'), i >= q.own
      PROVE  mail'[i].age = "new"
  <2>1. CASE i \in 1..Len(mail)
    BY <1>4, <2>1 DEF Kept, Ask
  <2>2. CASE i \notin 1..Len(mail)
    BY <1>1, <1>4, <2>2 DEF Kept
  <2> QED
    BY <2>1, <2>2
<1>5. q.own # 0 => q.own \in 1..Len(mail)
  BY <1>1, <1>2
<1>6. q.found # 0 => q.found \in 1..Len(mail)
  BY <1>1, <1>2
<1> QED
  BY <1>1, <1>2, <1>3, <1>4, <1>5, <1>6 DEF Ask, IsReplyMail

LEMMA AskMoves ==
    ASSUME TypeOK, ReqSound, Kept, used \subseteq used', NEW r \in Reqs, req[r] # Idle,
           NEW stage \in Stages \ {"insert", "mail"}, Goto(r, stage),
           stage \in {"load", "write"} /\ req[r].op \in {"view", "reply"} => req[r].wasUnread
    PROVE  Ask(req[r])'
<1>1. PICK q \in Request : q = req[r]
  BY ReqIs
<1>2. Ask(q)'
  <2>1. Ask(q)
    BY <1>1 DEF ReqSound, Ask
  <2> QED
    BY <1>1, <2>1, AskStays
<1>3. /\ req'[r].stage = stage /\ req'[r].op = q.op /\ req'[r].on = q.on
      /\ req'[r].wasUnread = q.wasUnread /\ req'[r].own = q.own /\ req'[r].found = q.found
  BY <1>1, Moves
<1> QED
  BY <1>1, <1>2, <1>3 DEF Ask

\* One request changes; the others wait, or are over.
LEMMA OthersWait ==
    ASSUME TypeOK, ReqSound, Kept, used \subseteq used', NEW r \in Reqs,
           \A o \in Reqs \ {r} : req'[o] = req[o] \/ req'[o] = Idle,
           req'[r] # Idle => Ask(req[r])'
    PROVE  ReqSound'
<1> SUFFICES ASSUME NEW o \in Reqs, req'[o] # Idle, o # r
             PROVE  Ask(req[o])'
  BY DEF ReqSound
<1>1. req'[o] = req[o]
  OBVIOUS
<1>2. PICK q \in Request : q = req[o]
  BY <1>1, ReqIs
<1>3. Ask(q)
  BY <1>1, <1>2 DEF ReqSound, Ask
<1>4. Ask(q)'
  BY <1>1, <1>2, <1>3, AskStays
<1> QED
  BY <1>1, <1>2, <1>4 DEF Ask

LEMMA SendStep ==
    ASSUME TypeOK, MailOrder, ReqSound, NEW r \in Reqs, ReplySend(r)
    PROVE  /\ req' \in [Reqs -> Requests] /\ \A o \in Reqs \ {r} : req'[o] = req[o]
           /\ req[r] # Idle /\ req'[r] # Idle /\ Ask(req[r])' /\ req'[r].on = req[r].on
<1>1. req[r] # Idle /\ req[r].stage = "mail" /\ req[r].op = "reply"
  BY DEF ReplySend, At, Idle
<1>2. PICK q \in Request : q = req[r]
  BY <1>1, ReqIs
<1>3. q.on \in Msgs
  BY <1>1, <1>2, ReqIs
<1>4. Log(q.on, "message_reply") /\ used' = used
  BY <1>2 DEF ReplySend
<1>5. /\ Kept
      /\ mail' # mail => /\ Len(mail') = Len(mail) + 1
                         /\ mail'[Len(mail')].about = q.on /\ mail'[Len(mail')].key = "message_reply"
                         /\ mail'[Len(mail')].age = "new"
  BY <1>3, <1>4, Logged
<1>6. Len(mail) \in Nat /\ Len(mail') \in Nat
  BY <1>5, MailIs DEF Kept
<1>7. Ask(q)'
  <2>1. Ask(q)
    BY <1>1, <1>2 DEF ReqSound, Ask
  <2> QED
    BY <1>1, <1>2, <1>4, <1>5, <2>1, AskStays
<1>8. PICK own \in Nat : own = IF mail' = mail THEN 0 ELSE Len(mail')
  BY <1>6
<1>9. q.own = 0 /\ q.found = 0
  BY <1>1, <1>2 DEF ReqSound, Ask
<1> DEFINE new == [q EXCEPT !.stage = "lookup", !.own = own]
<1>10. /\ new \in Request /\ new.stage = "lookup" /\ new.own = own /\ new.found = q.found
       /\ new.on = q.on /\ new.op = q.op /\ new.wasUnread = q.wasUnread
  BY DEF Request
<1>11. req' = [req EXCEPT ![r] = new]
  BY <1>2, <1>8 DEF ReplySend, TypeOK
<1> HIDE DEF new
<1>12. req'[r] = new /\ req' \in [Reqs -> Requests] /\ \A o \in Reqs \ {r} : req'[o] = req[o]
  BY <1>10, <1>11 DEF TypeOK, Requests
<1>13. new # Idle
  BY <1>10 DEF Idle
<1>14. Ask(req[r])'
  <2>1. own # 0 => own = Len(mail') /\ own = Len(mail) + 1 /\ IsReplyMail(own, q.on)'
                   /\ mail'[own].age = "new"
    BY <1>5, <1>8 DEF IsReplyMail
  <2>2. own \in 0..Len(mail')
    BY <1>6, <1>8
  <2>3. \A i \in 1..Len(mail') : i >= own /\ own # 0 => i = own
    BY <1>6, <2>1
  <2> QED
    BY <1>1, <1>2, <1>6, <1>7, <1>9, <1>10, <1>12, <2>1, <2>2, <2>3 DEF Ask
<1> QED
  BY <1>1, <1>2, <1>10, <1>12, <1>13, <1>14

LEMMA LookupStep ==
    ASSUME TypeOK, MailOrder, ReqSound, NEW r \in Reqs, ReplyLookup(r)
    PROVE  /\ req' \in [Reqs -> Requests] /\ \A o \in Reqs \ {r} : req'[o] = req[o]
           /\ req[r] # Idle /\ req'[r] # Idle /\ Ask(req[r])' /\ req'[r].on = req[r].on
<1>1. req[r] # Idle /\ req[r].stage = "lookup" /\ req[r].op = "reply" /\ mail' = mail /\ used' = used
  BY DEF ReplyLookup, At, Idle, tables
<1>2. PICK q \in Request : q = req[r]
  BY <1>1, ReqIs
<1>3. q.on \in Msgs
  BY <1>1, <1>2, ReqIs
<1>4. PICK found \in 0..Len(mail) : found = Newest(q.on)
  BY <1>3, NewestIs
<1>5. Len(mail) \in Nat
  BY MailIs
<1> DEFINE new == [q EXCEPT !.stage = "insert", !.found = found]
<1>6. /\ new \in Request /\ new.stage = "insert" /\ new.own = q.own /\ new.found = found
      /\ new.on = q.on /\ new.op = q.op /\ new.wasUnread = q.wasUnread
  <2>1. found \in Nat
    BY <1>4, <1>5
  <2> QED
    BY <2>1 DEF Request
<1>7. req' = [req EXCEPT ![r] = new]
  BY <1>2, <1>4 DEF ReplyLookup, TypeOK
<1> HIDE DEF new
<1>8. req'[r] = new /\ req' \in [Reqs -> Requests] /\ \A o \in Reqs \ {r} : req'[o] = req[o]
  BY <1>6, <1>7 DEF TypeOK, Requests
<1>9. new # Idle
  BY <1>6 DEF Idle
<1>10. Ask(q)
  BY <1>1, <1>2 DEF ReqSound, Ask
<1>11. /\ found # 0 => IsReplyMail(found, q.on) /\ mail[found].status # "deleted"
       /\ \A i \in 1..Len(mail) : IsReplyMail(i, q.on) /\ mail[i].status # "deleted" => i <= found /\ found # 0
  BY <1>3, <1>4, NewestIs DEF IsReplyMail
<1>12. q.own # 0 => q.own \in 1..Len(mail) /\ IsReplyMail(q.own, q.on)
  BY <1>5, <1>10 DEF Ask
<1>13. found # 0 => found >= q.own
  <2> SUFFICES ASSUME found # 0, found < q.own
               PROVE  FALSE
    BY <1>5, <1>10 DEF Ask
  <2>1. q.own # 0 /\ mail[q.own].status = "deleted" /\ found \in 1..Len(mail)
    BY <1>5, <1>11, <1>12
  <2>2. mail[found].about = mail[q.own].about /\ mail[found].status # "deleted"
    BY <1>11, <1>12, <2>1 DEF IsReplyMail
  <2> QED
    BY <1>12, <2>1, <2>2 DEF MailOrder
<1>14. q.own # 0 /\ found = 0 => mail[q.own].status = "deleted"
  BY <1>11, <1>12
<1>15. Ask(req[r])'
  BY <1>1, <1>2, <1>4, <1>6, <1>8, <1>10, <1>11, <1>13, <1>14 DEF Ask, IsReplyMail
<1> QED
  BY <1>1, <1>2, <1>6, <1>8, <1>9, <1>15

\* A new request knows no mail.
LEMMA StartStep ==
    ASSUME TypeOK, Kept, used \subseteq used', ReqSound, NEW r \in Reqs, NEW op \in Ops,
           NEW stage \in Stages, NEW m \in Msgs, NEW want \in Statuses,
           Start(r, op, stage, m, want), m \in used', op = "reply" => stage = "mail",
           op = "view" => msg[m].status = "unread"
    PROVE  /\ req' \in [Reqs -> Requests] /\ handled' \in 0..MaxHandled /\ ReqSound'
           /\ \A o \in Reqs \ {r} : req'[o] = req[o]
           /\ req'[r].on = m
<1>1. /\ req' \in [Reqs -> Requests] /\ handled' \in 0..MaxHandled
      /\ \A q \in Reqs \ {r} : req'[q] = req[q]
      /\ req'[r].stage = stage /\ req'[r].op = op /\ req'[r].on = m
      /\ req'[r].wasUnread = (op \in {"view", "reply"} /\ msg[m].status = "unread")
      /\ req'[r].own = 0 /\ req'[r].found = 0
  BY Starts
<1>2. Len(mail') \in Nat
  BY DEF Kept
<1>3. stage \in {"load", "write"} /\ op \in {"view", "reply"} => req'[r].wasUnread
  BY <1>1
<1>4. op # "reply" \/ stage # "insert"
  OBVIOUS
<1>5. Ask(req[r])'
  BY <1>1, <1>2, <1>3, <1>4 DEF Ask
<1> QED
  BY <1>1, <1>5, OthersWait

\* A request goes on with its message, or is new on one that is there.
Follows ==
    \A o \in Reqs : req'[o] # Idle =>
        \/ req[o] # Idle /\ req'[o].on = req[o].on
        \/ msg'[req'[o].on] # NoMessage

LEMMA ReqStep ==
    ASSUME TypeOK, MailOrder, ReqSound, Handed, [Next]_vars
    PROVE  req' \in [Reqs -> Requests] /\ handled' \in 0..MaxHandled /\ ReqSound' /\ Follows
<1> DEFINE Goal == req' \in [Reqs -> Requests] /\ handled' \in 0..MaxHandled /\ ReqSound' /\ Follows
<1>1. Kept /\ MailOrder'
  BY MailStep
<1>2. used \subseteq used'
  <2>1. ASSUME NEW r \in Reqs, NEW m \in Msgs, SubmitStore(r, m)
        PROVE  used \subseteq used'
    BY <2>1 DEF SubmitStore
  <2>2. CASE \/ \E r \in Reqs, m \in Msgs : Find(r, m)
             \/ \E r \in Reqs : \/ SubmitMail(r) \/ SaveLoad(r) \/ SaveWrite(r) \/ ConvertInsert(r)
                                \/ ReplySend(r) \/ ReplyLookup(r) \/ ReplyInsert(r)
                                \/ RemoveLock(r) \/ RemoveCommit(r)
             \/ JobStart \/ JobCopy \/ JobMail \/ JobMessages
             \/ \E i \in DOMAIN mail : Deliver(i) \/ TurnsOld(i)
             \/ Crash \/ TimePasses \/ UNCHANGED vars
    <3>1. used' = used
      BY <2>2 DEF Find, SubmitMail, SaveLoad, SaveWrite, ConvertInsert, ReplySend, ReplyLookup,
                  ReplyInsert, RemoveLock, RemoveCommit, JobStart, JobCopy, JobMail, JobMessages,
                  Deliver, TurnsOld, Crash, TimePasses, vars
    <3> QED
      BY <3>1
  <2> QED
    BY <2>1, <2>2 DEF Next
<1>3. handled \in 0..MaxHandled /\ req \in [Reqs -> Requests]
  BY DEF TypeOK, Requests
<1>4. ASSUME NEW r \in Reqs, End(r), handled' = handled
      PROVE  Goal
  <2>1. req' \in [Reqs -> Requests] /\ req'[r] = Idle /\ \A q \in Reqs \ {r} : req'[q] = req[q]
    BY <1>4, Ends
  <2> QED
    BY <1>1, <1>2, <1>3, <1>4, <2>1, OthersWait DEF Follows
<1>5. ASSUME NEW r \in Reqs, req[r] # Idle, NEW stage \in Stages \ {"insert", "mail"}, Goto(r, stage),
             stage \in {"load", "write"} /\ req[r].op \in {"view", "reply"} => req[r].wasUnread,
             handled' = handled
      PROVE  Goal
  <2>1. req' \in [Reqs -> Requests] /\ req'[r].on = req[r].on /\ \A q \in Reqs \ {r} : req'[q] = req[q]
    BY <1>5, Moves
  <2>2. Ask(req[r])'
    BY <1>1, <1>2, <1>5, AskMoves
  <2> QED
    BY <1>1, <1>2, <1>3, <1>5, <2>1, <2>2, OthersWait DEF Follows
<1>6. ASSUME req' = req, handled' = handled
      PROVE  Goal
  <2>1. CASE \A r \in Reqs : req[r] = Idle
    BY <1>3, <1>6, <2>1 DEF ReqSound, Follows
  <2>2. CASE \E r \in Reqs : req[r] # Idle
    <3>1. PICK r \in Reqs : req[r] # Idle
      BY <2>2
    <3>2. PICK q \in Request : q = req[r]
      BY <3>1, ReqIs
    <3>3. Ask(q)
      BY <3>1, <3>2 DEF ReqSound, Ask
    <3>4. Ask(q)'
      BY <1>1, <1>2, <3>1, <3>3, AskStays
    <3>5. Ask(req[r])'
      BY <1>6, <3>2, <3>4 DEF Ask
    <3> QED
      BY <1>1, <1>2, <1>3, <1>6, <3>5, OthersWait DEF Follows
  <2> QED
    BY <2>1, <2>2
<1> HIDE DEF Goal
<1>7. ASSUME NEW r \in Reqs, NEW m \in Msgs, SubmitStore(r, m)
      PROVE  Goal
  <2>1. m \in used' /\ msg'[m] # NoMessage /\ Start(r, "submit", "mail", m, "unread")
    BY <1>7 DEF SubmitStore, TypeOK, NoMessage
  <2>2. "submit" \in Ops /\ "mail" \in Stages /\ "unread" \in Statuses
    BY DEF Ops, Stages, Statuses
  <2> QED
    BY <1>1, <1>2, <2>1, <2>2, StartStep DEF Goal, Follows
<1>8. ASSUME NEW r \in Reqs, NEW m \in Msgs, Find(r, m)
      PROVE  Goal
  <2>1. m \in used' /\ msg'[m] # NoMessage
    BY <1>2, <1>8 DEF Find, Handed, tables
  <2>2. Ops = {"submit", "view", "patch", "reply", "convert", "remove"}
        /\ {"mail", "load", "insert"} \subseteq Stages /\ "read" \in Statuses
    BY DEF Ops, Stages, Statuses
  <2>3. CASE View(r, m)
    BY <1>1, <1>2, <2>1, <2>2, <2>3, StartStep DEF Goal, Follows, View
  <2>4. ASSUME NEW s \in Statuses, Start(r, "patch", "load", m, s)
        PROVE  Goal
    BY <1>1, <1>2, <2>1, <2>2, <2>4, StartStep DEF Goal, Follows
  <2>5. CASE Start(r, "reply", "mail", m, "read")
    BY <1>1, <1>2, <2>1, <2>2, <2>5, StartStep DEF Goal, Follows
  <2>6. CASE Start(r, "convert", "insert", m, "read")
    BY <1>1, <1>2, <2>1, <2>2, <2>6, StartStep DEF Goal, Follows
  <2>7. CASE Start(r, "remove", "load", m, "read")
    BY <1>1, <1>2, <2>1, <2>2, <2>7, StartStep DEF Goal, Follows
  <2> QED
    BY <1>8, <2>3, <2>4, <2>5, <2>6, <2>7 DEF Find
<1>9. ASSUME NEW r \in Reqs, SubmitMail(r)
      PROVE  Goal
  <2>1. handled' = handled /\ req[r] # Idle /\ req[r].op = "submit"
    BY <1>9 DEF SubmitMail, At, Idle
  <2>2. CASE End(r)
    BY <1>4, <2>1, <2>2
  <2>3. CASE Goto(r, "mail2")
    BY <1>5, <2>1, <2>3 DEF Stages
  <2> QED
    BY <1>9, <2>2, <2>3 DEF SubmitMail
<1>10. ASSUME NEW r \in Reqs, SaveLoad(r) \/ SaveWrite(r)
       PROVE  Goal
  <2>1. handled' = handled /\ req[r] # Idle /\ req[r].stage \in {"load", "write"}
    BY <1>10 DEF SaveLoad, SaveWrite, Saves, Idle
  <2>2. CASE End(r)
    BY <1>4, <2>1, <2>2
  <2>3. CASE Goto(r, "write")
    <3>1. req[r].op \in {"view", "reply"} => req[r].wasUnread
      BY <2>1 DEF ReqSound, Ask
    <3> QED
      BY <1>5, <2>1, <2>3, <3>1 DEF Stages
  <2> QED
    BY <1>10, <2>2, <2>3 DEF SaveLoad, SaveWrite
<1>11. ASSUME NEW r \in Reqs, ConvertInsert(r) \/ RemoveCommit(r)
       PROVE  Goal
  BY <1>4, <1>11 DEF ConvertInsert, RemoveCommit
<1>12. ASSUME NEW r \in Reqs, ReplySend(r)
       PROVE  Goal
  BY <1>1, <1>2, <1>3, <1>12, SendStep, OthersWait DEF Goal, Follows, ReplySend
<1>13. ASSUME NEW r \in Reqs, ReplyLookup(r)
       PROVE  Goal
  BY <1>1, <1>2, <1>3, <1>13, LookupStep, OthersWait DEF Goal, Follows, ReplyLookup
<1>14. ASSUME NEW r \in Reqs, ReplyInsert(r)
       PROVE  Goal
  <2>1. handled' = handled /\ req[r] # Idle
    BY <1>14 DEF ReplyInsert, At, Idle
  <2>2. CASE End(r)
    BY <1>4, <2>1, <2>2
  <2>3. CASE Goto(r, "load") /\ req[r].wasUnread
    BY <1>5, <2>1, <2>3 DEF Stages
  <2> QED
    BY <1>14, <2>2, <2>3 DEF ReplyInsert
<1>15. ASSUME NEW r \in Reqs, RemoveLock(r)
       PROVE  Goal
  <2>1. handled' = handled /\ req[r] # Idle /\ req[r].op = "remove" /\ Goto(r, "write")
    BY <1>15 DEF RemoveLock, At, Idle
  <2> QED
    BY <1>5, <2>1 DEF Stages
<1>16. CASE JobStart \/ JobCopy \/ JobMail \/ JobMessages \/ TimePasses \/ UNCHANGED vars
  <2>1. req' = req /\ handled' = handled
    BY <1>16 DEF JobStart, JobCopy, JobMail, JobMessages, TimePasses, vars
  <2> QED
    BY <1>6, <2>1 DEF Goal
<1>17. ASSUME NEW i \in DOMAIN mail, Deliver(i) \/ TurnsOld(i)
       PROVE  Goal
  BY <1>6, <1>17 DEF Deliver, TurnsOld
<1>18. CASE Crash
  <2>1. req' = [r \in Reqs |-> Idle] /\ handled' = handled
    BY <1>18 DEF Crash
  <2> QED
    BY <1>3, <2>1 DEF Goal, ReqSound, Requests, Follows
<1>19. Goal
  BY <1>7, <1>8, <1>9, <1>10, <1>11, <1>12, <1>13, <1>14, <1>15, <1>16, <1>17, <1>18 DEF Next, Goal
<1> QED
  BY <1>19 DEF Goal

-----------------------------------------------------------------------------
(* What a reply is linked to                                               *)

\* A reply's message is there.  Its mail is the one it was linked to first, or none
\* any more once that one was deleted; that was a reply's mail about its message, and
\* not an older one than its own.  One linked to none is past its own mail.  From the
\* nightly copy on, the reply says how a mail ended that the purge takes.
Row(p) ==
    /\ p \in Reply /\ p.about \in Msgs /\ msg[p.about] # NoMessage
    /\ p.own \in 0..Len(mail) /\ p.was \in 0..Len(mail)
    /\ p.own # 0 => IsReplyMail(p.own, p.about)
    /\ p.was # 0 => IsReplyMail(p.was, p.about) /\ p.was >= p.own
    /\ p.mail = p.was \/ p.mail = 0
    /\ p.mail # 0 => mail[p.mail].status # "deleted"
    /\ p.mail = 0 => /\ p.was # 0 => mail[p.was].status = "deleted"
                     /\ p.was = 0 /\ p.own # 0 => mail[p.own].status = "deleted"
    /\ p.own # 0 /\ p.was # 0 /\ (p.mail = 0 \/ (job = "mail" /\ p.mail \in OldMails))
          => p.kept # "null" \/ p.was \in uncopied

RowSound == \A p \in reply : Row(p)

\* A row that no step has taken its message or its mail from.
LEMMA RowStays ==
    ASSUME TypeOK, Kept, NEW p, Row(p), msg'[p.about] # NoMessage,
           p.mail # 0 => mail'[p.mail].status # "deleted",
           uncopied \subseteq uncopied',
           job' = "mail" => /\ job = "mail"
                            /\ \A i \in 1..Len(mail) : i \in OldMails' => i \in OldMails \/ i \in uncopied'
    PROVE  Row(p)'
<1>1. Len(mail) \in Nat /\ Len(mail') \in Nat /\ Len(mail) <= Len(mail')
  BY MailIs DEF Kept
<1>2. \A i \in 1..Len(mail) : /\ mail'[i].about = mail[i].about /\ mail'[i].key = mail[i].key
                              /\ mail[i].status = "deleted" => mail'[i].status = "deleted"
  BY DEF Kept
<1>3. /\ p.own \in 0..Len(mail) /\ p.was \in 0..Len(mail)
      /\ p.mail = p.was \/ p.mail = 0
  BY DEF Row
<1>4. (p.own # 0 => p.own \in 1..Len(mail)) /\ (p.was # 0 => p.was \in 1..Len(mail))
  BY <1>1, <1>3
<1>5. /\ p.own # 0 => IsReplyMail(p.own, p.about)'
      /\ p.was # 0 => IsReplyMail(p.was, p.about)' /\ p.was >= p.own
      /\ p.mail = 0 => /\ p.was # 0 => mail'[p.was].status = "deleted"
                       /\ p.was = 0 /\ p.own # 0 => mail'[p.own].status = "deleted"
  BY <1>2, <1>4 DEF Row, IsReplyMail
<1>6. ASSUME p.own # 0, p.was # 0, p.mail = 0 \/ (job' = "mail" /\ p.mail \in OldMails')
      PROVE  p.kept # "null" \/ p.was \in uncopied'
  <2>1. CASE p.mail = 0
    BY <1>6, <2>1 DEF Row
  <2>2. CASE p.mail # 0
    <3>1. p.mail = p.was /\ p.mail \in 1..Len(mail)
      BY <1>3, <1>4, <2>2
    <3>2. job = "mail" /\ (p.mail \in OldMails \/ p.mail \in uncopied')
      BY <1>6, <2>2, <3>1
    <3> QED
      BY <1>6, <3>1, <3>2 DEF Row
  <2> QED
    BY <2>1, <2>2
<1>7. p.own \in 0..Len(mail') /\ p.was \in 0..Len(mail')
  BY <1>1, <1>3
<1>8. p \in Reply /\ p.about \in Msgs
  BY DEF Row
<1> QED
  BY <1>3, <1>5, <1>6, <1>7, <1>8 DEF Row

\* Statements that leave message_replies alone.
LEMMA RowsStay ==
    ASSUME TypeOK, RowSound, Kept, Spares, reply' = reply,
           \A m \in Msgs : msg[m] # NoMessage => msg'[m] # NoMessage,
           uncopied \subseteq uncopied',
           job' = "mail" => /\ job = "mail"
                            /\ \A i \in 1..Len(mail) : i \in OldMails' => i \in OldMails \/ i \in uncopied'
    PROVE  RowSound'
<1> SUFFICES ASSUME NEW p \in reply
             PROVE  Row(p)'
  BY DEF RowSound
<1>1. Row(p)
  BY DEF RowSound
<1>2. msg'[p.about] # NoMessage
  BY <1>1 DEF Row
<1>3. p.mail # 0 => mail'[p.mail].status # "deleted"
  <2>1. p.mail # 0 => p.mail \in 1..Len(mail) /\ mail[p.mail].status # "deleted"
    BY <1>1, MailIs DEF Row
  <2> QED
    BY <2>1 DEF Spares
<1> QED
  BY <1>1, <1>2, <1>3, RowStays

LEMMA InsertRow ==
    ASSUME TypeOK, ReqSound, RowSound, NEW r \in Reqs, ReplyInsert(r)
    PROVE  RowSound'
<1>1. req[r] # Idle /\ req[r].stage = "insert" /\ req[r].op = "reply"
  BY DEF ReplyInsert, At, Idle
<1>2. PICK q \in Request : q = req[r]
  BY <1>1, ReqIs
<1>3. Ask(q)
  BY <1>1, <1>2 DEF ReqSound, Ask
<1>4. msg' = msg /\ mail' = mail /\ job' = job /\ uncopied' = uncopied
  BY DEF ReplyInsert, history
<1> DEFINE new == [about |-> q.on, own |-> q.own, was |-> q.found, mail |-> q.found, kept |-> "null"]
<1>5. \A p : Row(p) => Row(p)'
  BY <1>4 DEF Row, IsReplyMail, OldMails
<1>6. ASSUME NEW p \in reply', p \notin reply
      PROVE  Row(p)
  <2>1. p = new /\ msg[q.on] # NoMessage /\ (q.found # 0 => mail[q.found].status # "deleted")
    BY <1>2, <1>6 DEF ReplyInsert
  <2>2. q.on \in Msgs /\ q.own \in Nat /\ q.found \in Nat
    BY <1>1, <1>2, ReqIs
  <2>3. p \in Reply /\ p.about = q.on /\ p.own = q.own /\ p.was = q.found /\ p.mail = q.found
    BY <2>1, <2>2 DEF Reply
  <2>4. /\ q.own \in 0..Len(mail) /\ q.found \in 0..Len(mail)
        /\ q.own # 0 => IsReplyMail(q.own, q.on)
        /\ q.own # 0 => \A i \in 1..Len(mail) : i >= q.own => mail[i].age = "new"
        /\ q.found # 0 => IsReplyMail(q.found, q.on) /\ q.found >= q.own
        /\ q.own # 0 /\ q.found = 0 => mail[q.own].status = "deleted"
    BY <1>1, <1>2, <1>3 DEF Ask
  <2>5. q.own # 0 /\ q.found # 0 => q.found \notin OldMails
    BY <2>4, MailIs DEF OldMails
  <2> QED
    BY <2>1, <2>2, <2>3, <2>4, <2>5 DEF Row
<1> QED
  BY <1>5, <1>6 DEF RowSound

LEMMA RemoveRows ==
    ASSUME TypeOK, MailOrder, RowSound, NEW r \in Reqs, RemoveCommit(r)
    PROVE  RowSound'
<1>1. PICK m \in Msgs : m = req[r].on
  BY ReqIs DEF RemoveCommit, At, Idle
<1> DEFINE gone == MailsOf(m)
<1>2. /\ mail' = Without(gone) /\ msg' = [msg EXCEPT ![m] = NoMessage]
      /\ reply' = Unlinked({p \in reply : p.about # m}, gone)
      /\ job' = job /\ uncopied' = uncopied
  BY <1>1 DEF RemoveCommit, RemoveMails
<1>3. gone \subseteq DOMAIN mail /\ DOMAIN mail = 1..Len(mail) /\ Len(mail) \in Nat
  BY MailIs DEF MailsOf
<1>4. \A i, j \in 1..Len(mail) : i < j /\ j \in gone /\ mail[i].about = mail[j].about
                                    => i \in gone \/ mail[i].status = "deleted"
  BY <1>3 DEF MailsOf
<1>5. /\ Kept
      /\ \A i \in 1..Len(mail) : mail'[i].status = IF i \in gone THEN "deleted" ELSE mail[i].status
  <2> HIDE DEF gone
  <2> QED
    BY <1>2, <1>3, <1>4, Deleted
<1>6. ASSUME NEW p \in reply, p.about # m
      PROVE  Row(p) /\ Row(p)' /\ p.mail \notin gone
  <2>1. Row(p)
    BY DEF RowSound
  <2>2. p.mail \notin gone
    <3>1. p.mail # 0 => IsReplyMail(p.mail, p.about)
      BY <2>1 DEF Row
    <3>2. 0 \notin gone
      BY <1>3
    <3> QED
      BY <1>6, <3>1, <3>2 DEF MailsOf, IsReplyMail
  <2>3. p.mail # 0 => p.mail \in 1..Len(mail) /\ mail[p.mail].status # "deleted"
    BY <1>3, <2>1 DEF Row
  <2>4. p.mail # 0 => mail'[p.mail].status # "deleted"
    BY <1>5, <2>2, <2>3
  <2>5. msg'[p.about] # NoMessage
    BY <1>2, <1>6, <2>1 DEF Row, TypeOK
  <2>6. \A i \in 1..Len(mail) : i \in OldMails' => i \in OldMails
    <3>1. ASSUME NEW i \in 1..Len(mail), i \in OldMails'
          PROVE  mail[i].status # "deleted" /\ mail[i].age = "old"
      <4>1. mail'[i].status # "deleted" /\ mail'[i].age = "old"
        BY <3>1 DEF OldMails
      <4>2. mail'[i] = IF i \in gone THEN [mail[i] EXCEPT !.status = "deleted"] ELSE mail[i]
        BY <1>2, <1>3 DEF Without
      <4>3. mail[i] \in Mail
        BY MailIs
      <4> QED
        BY <1>5, <4>1, <4>2, <4>3 DEF Mail
    <3> QED
      BY <1>3, <3>1 DEF OldMails
  <2>7. Row(p)'
    BY <1>2, <1>5, <2>1, <2>4, <2>5, <2>6, RowStays
  <2> QED
    BY <2>1, <2>2, <2>7
<1>7. ASSUME NEW p \in reply'
      PROVE  Row(p)'
  <2>1. PICK o \in reply : o.about # m /\ p = [o EXCEPT !.mail = IF @ \in gone THEN 0 ELSE @]
    BY <1>2, <1>7 DEF Unlinked
  <2>2. o.mail \notin gone /\ o \in Reply
    BY <1>6, <2>1 DEF Row
  <2>3. p = [o EXCEPT !.mail = o.mail]
    BY <2>1, <2>2
  <2>4. p = o
    BY <2>2, <2>3 DEF Reply
  <2> QED
    BY <1>6, <2>1, <2>4
<1> QED
  BY <1>7 DEF RowSound

LEMMA CopyRows ==
    ASSUME TypeOK, RowSound, JobCopy
    PROVE  RowSound'
<1>1. msg' = msg /\ mail' = mail /\ OldMails' = OldMails /\ job' = "mail"
  BY DEF JobCopy, OldMails
<1>2. OldMails \subseteq 1..Len(mail) /\ Len(mail) \in Nat
  BY MailIs DEF OldMails
<1>3. ASSUME NEW o \in reply
      PROVE  /\ Row(o) /\ o \in Reply /\ o.own \in Nat /\ o.was \in Nat /\ o.mail \in Nat
             /\ o.mail \in OldMails => o.mail = o.was /\ mail[o.mail].status \in Outcomes
             /\ o.mail = 0 => o.mail \notin OldMails /\ o.was \notin OldMails
  <2>1. Row(o) /\ o \in Reply
    BY DEF Row, RowSound
  <2>2. o.own \in Nat /\ o.was \in Nat /\ o.mail \in Nat
    BY <2>1 DEF Reply
  <2>3. o.mail \in OldMails => o.mail # 0 /\ mail[o.mail] \in Mail /\ mail[o.mail].status # "deleted"
    BY <1>2, MailIs DEF OldMails
  <2>4. o.mail \in OldMails => o.mail = o.was /\ mail[o.mail].status \in Outcomes
    BY <2>1, <2>3 DEF Row, Mail
  <2>5. o.mail = 0 => o.mail \notin OldMails /\ o.was \notin OldMails
    <3>1. 0 \notin OldMails
      BY <1>2
    <3>2. o.mail = 0 /\ o.was # 0 => mail[o.was].status = "deleted"
      BY <2>1 DEF Row
    <3> QED
      BY <3>1, <3>2 DEF OldMails
  <2> QED
    BY <2>1, <2>2, <2>4, <2>5
<1>4. CASE reply' = {Copied(p) : p \in reply} /\ uncopied' = uncopied \ OldMails
  <2> SUFFICES ASSUME NEW p \in reply'
               PROVE  Row(p)'
    BY DEF RowSound
  <2>1. PICK o \in reply : p = Copied(o)
    BY <1>4
  <2>2. PICK kept : kept = IF o.mail \in OldMails THEN mail[o.mail].status ELSE o.kept
    OBVIOUS
  <2>3. p = [o EXCEPT !.kept = kept]
    BY <2>1, <2>2 DEF Copied
  <2>4. kept \in Outcomes \cup {"null"} /\ (o.mail \in OldMails => kept # "null")
    BY <1>3, <2>2 DEF Reply, Outcomes
  <2>5. /\ p \in Reply /\ p.about = o.about /\ p.own = o.own /\ p.was = o.was /\ p.mail = o.mail
        /\ p.kept = kept
    BY <1>3, <2>3, <2>4 DEF Reply
  <2>6. p.own # 0 /\ p.was # 0 /\ (p.mail = 0 \/ p.mail \in OldMails) => p.kept # "null" \/ p.was \in uncopied'
    BY <1>3, <1>4, <2>2, <2>4, <2>5 DEF Row
  <2> QED
    BY <1>1, <1>3, <2>5, <2>6 DEF Row, IsReplyMail
<1>5. CASE reply' = reply /\ uncopied' = uncopied \cup OldMails
  <2> SUFFICES ASSUME NEW p \in reply
               PROVE  Row(p)'
    BY <1>5 DEF RowSound
  <2> QED
    BY <1>1, <1>3, <1>5 DEF Row, IsReplyMail
<1> QED
  BY <1>4, <1>5 DEF JobCopy

LEMMA PurgeRows ==
    ASSUME TypeOK, MailOrder, RowSound, JobMail
    PROVE  RowSound'
<1>1. msg' = msg /\ job = "mail" /\ job' = "messages" /\ uncopied' = uncopied
  BY DEF JobMail, history
<1>2. OldMails \subseteq 1..Len(mail) /\ DOMAIN mail = 1..Len(mail) /\ Len(mail) \in Nat
  BY MailIs DEF OldMails
<1>3. CASE mail' = Without(OldMails) /\ reply' = Unlinked(reply, OldMails)
  <2>1. \A i, j \in 1..Len(mail) : i < j /\ j \in OldMails /\ mail[i].about = mail[j].about
                                      => i \in OldMails \/ mail[i].status = "deleted"
    BY <1>2 DEF OldMails, MailOrder
  <2>2. /\ Kept
        /\ \A i \in 1..Len(mail) : mail'[i].status = IF i \in OldMails THEN "deleted" ELSE mail[i].status
    BY <1>2, <1>3, <2>1, Deleted
  <2> SUFFICES ASSUME NEW p \in reply'
               PROVE  Row(p)'
    BY DEF RowSound
  <2>3. PICK o \in reply : p = [o EXCEPT !.mail = IF @ \in OldMails THEN 0 ELSE @]
    BY <1>3 DEF Unlinked
  <2>4. Row(o) /\ o \in Reply
    BY DEF Row, RowSound
  <2>5. CASE o.mail \notin OldMails
    <3>1. p = [o EXCEPT !.mail = o.mail]
      BY <2>3, <2>5
    <3>2. p = o
      BY <2>4, <3>1 DEF Reply
    <3>3. o.mail # 0 => o.mail \in 1..Len(mail) /\ mail[o.mail].status # "deleted"
      BY <1>2, <2>4 DEF Row
    <3>4. o.mail # 0 => mail'[o.mail].status # "deleted"
      BY <2>2, <2>5, <3>3
    <3>5. Row(o)'
      BY <1>1, <2>2, <2>4, <3>4, RowStays DEF Row
    <3> QED
      BY <3>2, <3>5
  <2>6. CASE o.mail \in OldMails
    <3>1. p = [o EXCEPT !.mail = 0]
      BY <2>3, <2>6
    <3>2. /\ p \in Reply /\ p.about = o.about /\ p.own = o.own /\ p.was = o.was /\ p.mail = 0
          /\ p.kept = o.kept
      BY <2>4, <3>1 DEF Reply
    <3>3. o.mail # 0 /\ o.was = o.mail /\ o.was \in 1..Len(mail) /\ mail'[o.was].status = "deleted"
      BY <1>2, <2>2, <2>4, <2>6 DEF Row
    <3>4. p.own # 0 => p.kept # "null" \/ p.was \in uncopied'
      BY <1>1, <2>4, <2>6, <3>2, <3>3 DEF Row
    <3>5. Len(mail) <= Len(mail') /\ Len(mail') \in Nat
      BY <2>2 DEF Kept
    <3>6. p.own \in 0..Len(mail') /\ p.was \in 0..Len(mail')
      BY <1>2, <2>4, <3>2, <3>5 DEF Row
    <3>7. /\ p.own # 0 => IsReplyMail(p.own, p.about)'
          /\ p.was # 0 => IsReplyMail(p.was, p.about)' /\ p.was >= p.own
      <4>1. (p.own # 0 => p.own \in 1..Len(mail)) /\ p.was \in 1..Len(mail)
        BY <1>2, <2>4, <3>2, <3>3 DEF Row
      <4> QED
        BY <2>2, <2>4, <3>2, <4>1 DEF Kept, Row, IsReplyMail
    <3>8. p.about \in Msgs /\ msg'[p.about] # NoMessage
      BY <1>1, <2>4, <3>2 DEF Row
    <3> QED
      BY <3>2, <3>3, <3>4, <3>6, <3>7, <3>8 DEF Row
  <2> QED
    BY <2>5, <2>6
<1>4. CASE mail' = mail /\ reply' = reply
  <2>1. \A p : Row(p) => Row(p)'
    BY <1>1, <1>4 DEF Row, IsReplyMail, OldMails
  <2> QED
    BY <1>4, <2>1 DEF RowSound
<1> QED
  BY <1>3, <1>4 DEF JobMail

LEMMA RowStep ==
    ASSUME TypeOK, MailOrder, ReqSound, RowSound, [Next]_vars
    PROVE  RowSound'
<1>1. Kept
  BY MailStep
<1>2. Len(mail) \in Nat /\ DOMAIN mail = 1..Len(mail)
  BY MailIs
<1>3. ASSUME mail' = mail, reply' = reply, uncopied' = uncopied, job' = "mail" => job = "mail",
             \A m \in Msgs : msg[m] # NoMessage => msg'[m] # NoMessage
      PROVE  RowSound'
  <2>1. Spares /\ OldMails' = OldMails
    BY <1>3 DEF Spares, OldMails
  <2> QED
    BY <1>1, <1>3, <2>1, RowsStay
<1>4. ASSUME NEW r \in Reqs, NEW m \in Msgs, SubmitStore(r, m)
      PROVE  RowSound'
  <2>1. \A n \in Msgs : msg[n] # NoMessage => msg'[n] # NoMessage
    BY <1>4 DEF SubmitStore, TypeOK, NoMessage
  <2> QED
    BY <1>3, <1>4, <2>1 DEF SubmitStore, history
<1>5. ASSUME NEW r \in Reqs, NEW m \in Msgs, Find(r, m)
      PROVE  RowSound'
  BY <1>3, <1>5 DEF Find, tables, history
<1>6. ASSUME NEW r \in Reqs, SubmitMail(r) \/ ReplySend(r)
      PROVE  RowSound'
  <2>1. req[r].on \in Msgs
    BY <1>6, ReqIs DEF SubmitMail, ReplySend, At, Idle
  <2>2. Log(req[r].on, "contact") \/ Log(req[r].on, "message_reply")
    BY <1>6 DEF SubmitMail, ReplySend
  <2>3. Spares /\ (mail' # mail => Len(mail') = Len(mail) + 1 /\ mail'[Len(mail')].age = "new")
    BY <2>1, <2>2, Logged
  <2>4. \A i \in 1..Len(mail) : i \in OldMails' => i \in OldMails
    BY <1>2, <2>2, MailIs DEF Log, OldMails, TypeOK
  <2> QED
    BY <1>1, <1>6, <2>3, <2>4, RowsStay DEF SubmitMail, ReplySend, history
<1>7. ASSUME NEW r \in Reqs, SaveLoad(r) \/ SaveWrite(r)
      PROVE  RowSound'
  <2>1. PICK q \in Request : q = req[r]
    BY <1>7, ReqIs DEF SaveLoad, SaveWrite, Saves, Idle
  <2>2. q.on \in Msgs /\ q.want \in Statuses
    BY <2>1 DEF Request
  <2>3. [status |-> q.want, old |-> q.old] # NoMessage
    BY <2>2 DEF NoMessage, Statuses
  <2>4. \A m \in Msgs : msg[m] # NoMessage => msg'[m] # NoMessage
    <3>1. CASE SaveLoad(r)
      BY <2>1, <2>2, <2>3, <3>1 DEF SaveLoad, TypeOK
    <3>2. CASE SaveWrite(r)
      <4>1. ASSUME NEW x \in Message, x # NoMessage
            PROVE  [x EXCEPT !.status = q.want] # NoMessage
        <5>1. x \in [status : Statuses, old : BOOLEAN]
          BY <4>1 DEF Message
        <5>2. [x EXCEPT !.status = q.want].status = q.want
          BY <5>1
        <5>3. q.want # NoMessage.status
          BY <2>2 DEF NoMessage, Statuses
        <5> QED
          BY <5>2, <5>3
      <4>2. msg' = IF msg[q.on] = NoMessage THEN msg
                   ELSE [msg EXCEPT ![q.on] = [msg[q.on] EXCEPT !.status = q.want]]
        BY <2>1, <2>2, <3>2 DEF SaveWrite, TypeOK
      <4>3. msg \in [Msgs -> Message]
        BY DEF TypeOK
      <4> QED
        BY <2>2, <4>1, <4>2, <4>3
    <3> QED
      BY <1>7, <3>1, <3>2
  <2> QED
    BY <1>3, <1>7, <2>4 DEF SaveLoad, SaveWrite
<1>8. ASSUME NEW r \in Reqs, ConvertInsert(r) \/ ReplyLookup(r) \/ RemoveLock(r)
      PROVE  RowSound'
  BY <1>3, <1>8 DEF ConvertInsert, ReplyLookup, RemoveLock, tables, history
<1>9. CASE JobStart \/ Crash \/ UNCHANGED vars
  BY <1>3, <1>9 DEF JobStart, Crash, vars, tables, history
<1>10. CASE JobMessages
  <2> DEFINE old == {m \in Msgs : msg[m].old}
  <2>1. mail' = mail /\ uncopied' = uncopied /\ job' = "idle"
    BY <1>10 DEF JobMessages
  <2>2. CASE reply' = reply /\ msg' = msg
    BY <1>3, <2>1, <2>2
  <2>3. CASE /\ reply' = {p \in reply : p.about \notin old}
             /\ msg' = [m \in Msgs |-> IF m \in old THEN NoMessage ELSE msg[m]]
    <3> SUFFICES ASSUME NEW p \in reply, p.about \notin old
                 PROVE  Row(p)'
      BY <2>3 DEF RowSound
    <3>1. Row(p)
      BY DEF RowSound
    <3>2. msg'[p.about] # NoMessage
      BY <2>3, <3>1 DEF Row
    <3>3. p.mail # 0 => mail'[p.mail].status # "deleted"
      BY <2>1, <3>1 DEF Row
    <3> HIDE DEF old
    <3> QED
      BY <1>1, <2>1, <3>1, <3>2, <3>3, RowStays
  <2> QED
    BY <1>10, <2>2, <2>3 DEF JobMessages
<1>11. ASSUME NEW i \in DOMAIN mail, Deliver(i) \/ TurnsOld(i)
       PROVE  RowSound'
  <2>1. Spares
    BY <1>11, DeliverStep, TurnsOldStep
  <2>2. \A j \in 1..Len(mail) : j \in OldMails' => j \in OldMails \/ job = "idle" \/ j \in uncopied'
    <3>1. CASE Deliver(i)
      <4>1. ASSUME NEW j \in 1..Len(mail)
            PROVE  mail'[j].age = mail[j].age
        <5>1. mail'[j] = IF j = i THEN [mail[i] EXCEPT !.status = "done"] ELSE mail[j]
          BY <1>2, <3>1 DEF Deliver
        <5> QED
          BY <5>1, <1>2, MailIs DEF Mail
      <4> QED
        BY <1>1, <1>2, <4>1 DEF OldMails, Kept
    <3>2. CASE TurnsOld(i)
      <4>1. ASSUME NEW j \in 1..Len(mail), j # i
            PROVE  mail'[j] = mail[j]
        BY <1>2, <3>2, <4>1 DEF TurnsOld
      <4>2. job # "idle" => i \in uncopied'
        BY <3>2 DEF TurnsOld
      <4> QED
        BY <1>2, <3>2, <4>1, <4>2 DEF OldMails, TurnsOld
    <3> QED
      BY <1>11, <3>1, <3>2
  <2>3. /\ reply' = reply /\ msg' = msg /\ uncopied \subseteq uncopied' /\ job' = job
    BY <1>11 DEF Deliver, TurnsOld, history
  <2> QED
    BY <1>1, <2>1, <2>2, <2>3, RowsStay
<1>12. CASE TimePasses
  <2>1. Spares /\ job = "idle" /\ job' = job /\ reply' = reply /\ uncopied' = uncopied
    BY <1>12, TimeStep DEF TimePasses, history
  <2>2. \A m \in Msgs : msg[m] # NoMessage => msg'[m] # NoMessage
    <3>1. ASSUME NEW x \in Message, x # NoMessage
          PROVE  [x EXCEPT !.old = TRUE] # NoMessage
      <4>1. x \in [status : Statuses, old : BOOLEAN]
        BY <3>1 DEF Message
      <4>2. [x EXCEPT !.old = TRUE].old = TRUE
        BY <4>1
      <4> QED
        BY <4>2 DEF NoMessage
    <3> QED
      BY <1>12, <3>1 DEF TimePasses, TypeOK
  <2> QED
    BY <1>1, <2>1, <2>2, RowsStay
<1> QED
  BY <1>4, <1>5, <1>6, <1>7, <1>8, <1>9, <1>10, <1>11, <1>12,
     InsertRow, RemoveRows, CopyRows, PurgeRows DEF Next

-----------------------------------------------------------------------------
(* The tables                                                              *)

LEMMA MsgIs ==
    ASSUME TypeOK, NEW m \in Msgs
    PROVE  /\ msg[m] \in Message /\ msg[m].old \in BOOLEAN
           /\ msg[m].status = "none" <=> msg[m] = NoMessage
           /\ msg[m] # NoMessage => msg[m] \in [status : Statuses, old : BOOLEAN]
<1>1. msg[m] \in Message
  BY DEF TypeOK
<1>2. CASE msg[m] = NoMessage
  BY <1>1, <1>2 DEF NoMessage
<1>3. CASE msg[m] \in [status : Statuses, old : BOOLEAN]
  <2>1. msg[m].status \in Statuses /\ msg[m].old \in BOOLEAN
    BY <1>3
  <2>2. "none" \notin Statuses /\ NoMessage.status = "none"
    BY DEF Statuses, NoMessage
  <2> QED
    BY <1>1, <1>3, <2>1, <2>2
<1> QED
  BY <1>1, <1>2, <1>3 DEF Message

\* A request on m is in flight.
Busy(m) == \E r \in Reqs : req[r] # Idle /\ req[r].on = m

\* Nothing of m comes back.
StaysAway(m) ==
    /\ msg[m] = NoMessage => msg'[m] = NoMessage
    /\ m \notin quoted => m \notin quoted'
    /\ (\A p \in reply : p.about # m) => \A p \in reply' : p.about # m
    /\ MailsOf(m) = {} => MailsOf(m)' = {}

\* Only a request on a message brings any of it.
LEMMA OnlyRequestsBring ==
    ASSUME TypeOK, MailOrder, [Next]_vars, NEW m \in Msgs, m \in used, ~Busy(m)
    PROVE  StaysAway(m)
<1>1. Kept
  BY MailStep
<1>2. Len(mail) \in Nat /\ DOMAIN mail = 1..Len(mail)
  BY MailIs
<1>3. ASSUME Len(mail') = Len(mail)
      PROVE  MailsOf(m) = {} => MailsOf(m)' = {}
  <2>1. DOMAIN mail' = 1..Len(mail)
    BY <1>1, <1>3 DEF Kept
  <2> QED
    BY <1>1, <1>2, <2>1 DEF Kept, MailsOf
<1>4. ASSUME NEW r \in Reqs, NEW n \in Msgs, SubmitStore(r, n)
      PROVE  StaysAway(m)
  <2>1. n # m /\ msg' = [msg EXCEPT ![n] = [status |-> "unread", old |-> FALSE]]
    BY <1>4 DEF SubmitStore
  <2>2. msg'[m] = msg[m]
    BY <2>1 DEF TypeOK
  <2> QED
    BY <1>3, <1>4, <2>2 DEF SubmitStore, StaysAway
<1>5. ASSUME NEW r \in Reqs, SubmitMail(r) \/ ReplySend(r)
      PROVE  StaysAway(m)
  <2>1. req[r] # Idle
    BY <1>5 DEF SubmitMail, ReplySend, At, Idle
  <2>2. PICK n \in Msgs : n = req[r].on
    BY <2>1, ReqIs
  <2>3. n # m
    BY <2>1, <2>2 DEF Busy
  <2>4. Log(n, "contact") \/ Log(n, "message_reply")
    BY <1>5, <2>2 DEF SubmitMail, ReplySend
  <2>5. mail' # mail => Len(mail') = Len(mail) + 1 /\ mail'[Len(mail')].about = n
    BY <2>4, Logged
  <2>6. MailsOf(m) = {} => MailsOf(m)' = {}
    <3>1. CASE mail' = mail
      BY <1>3, <3>1
    <3>2. CASE mail' # mail
      <4>1. DOMAIN mail' = 1..Len(mail')
        BY <1>1 DEF Kept
      <4>2. \A i \in DOMAIN mail' : i \in 1..Len(mail) \/ i = Len(mail')
        BY <1>2, <2>5, <3>2, <4>1
      <4> QED
        BY <1>1, <1>2, <2>3, <2>5, <3>2, <4>2 DEF Kept, MailsOf
    <3> QED
      BY <3>1, <3>2
  <2> QED
    BY <1>5, <2>6 DEF SubmitMail, ReplySend, StaysAway
<1>6. ASSUME NEW r \in Reqs, \/ SaveLoad(r) \/ SaveWrite(r) \/ ConvertInsert(r) \/ ReplyInsert(r)
      PROVE  StaysAway(m)
  <2>1. req[r] # Idle
    BY <1>6 DEF SaveLoad, SaveWrite, Saves, ConvertInsert, ReplyInsert, At, Idle
  <2>2. PICK n \in Msgs : n = req[r].on
    BY <2>1, ReqIs
  <2>3. n # m
    BY <2>1, <2>2 DEF Busy
  <2>4. mail' = mail
    BY <1>6 DEF SaveLoad, SaveWrite, ConvertInsert, ReplyInsert
  <2>5. msg[m] = NoMessage => msg'[m] = NoMessage
    BY <1>6, <2>2, <2>3 DEF SaveLoad, SaveWrite, ConvertInsert, ReplyInsert, TypeOK
  <2>6. m \notin quoted => m \notin quoted'
    BY <1>6, <2>2, <2>3 DEF SaveLoad, SaveWrite, ConvertInsert, ReplyInsert
  <2>7. (\A p \in reply : p.about # m) => \A p \in reply' : p.about # m
    BY <1>6, <2>2, <2>3 DEF SaveLoad, SaveWrite, ConvertInsert, ReplyInsert
  <2> QED
    BY <1>3, <2>4, <2>5, <2>6, <2>7 DEF StaysAway
<1>7. ASSUME NEW gone, NEW left, left \subseteq reply, reply' = Unlinked(left, gone), reply \subseteq Reply
      PROVE  (\A p \in reply : p.about # m) => \A p \in reply' : p.about # m
  <2>1. ASSUME NEW p \in reply'
        PROVE  \E o \in reply : p.about = o.about
    <3>1. PICK o \in left : p = [o EXCEPT !.mail = IF @ \in gone THEN 0 ELSE @]
      BY <1>7, <2>1 DEF Unlinked
    <3>2. o \in reply /\ p.about = o.about
      BY <1>7, <3>1 DEF Reply
    <3> QED
      BY <3>2
  <2> QED
    BY <2>1
<1>8. reply \subseteq Reply
  BY DEF TypeOK
<1>9. ASSUME NEW r \in Reqs, RemoveCommit(r)
      PROVE  StaysAway(m)
  <2>1. Len(mail') = Len(mail)
    <3>1. mail' = [i \in DOMAIN mail |-> mail'[i]]
      BY <1>9 DEF RemoveCommit, RemoveMails, Without
    <3> QED
      BY <1>1, <1>2, <3>1 DEF Kept
  <2>2. msg[m] = NoMessage => msg'[m] = NoMessage
    BY <1>9 DEF RemoveCommit, TypeOK
  <2>3. m \notin quoted => m \notin quoted'
    BY <1>9 DEF RemoveCommit
  <2>4. (\A p \in reply : p.about # m) => \A p \in reply' : p.about # m
    BY <1>7, <1>8, <1>9 DEF RemoveCommit
  <2> QED
    BY <1>3, <2>1, <2>2, <2>3, <2>4 DEF StaysAway
<1>10. CASE JobCopy
  <2>1. mail' = mail /\ msg' = msg /\ quoted' = quoted
    BY <1>10 DEF JobCopy
  <2>2. (\A p \in reply : p.about # m) => \A p \in reply' : p.about # m
    <3>1. \A p \in reply : Copied(p).about = p.about
      BY <1>8 DEF Copied, Reply
    <3> QED
      BY <1>10, <3>1 DEF JobCopy
  <2> QED
    BY <1>3, <2>1, <2>2 DEF StaysAway
<1>11. CASE JobMail
  <2>1. Len(mail') = Len(mail)
    <3>1. mail' = mail \/ mail' = [i \in DOMAIN mail |-> mail'[i]]
      BY <1>11 DEF JobMail, Without
    <3> QED
      BY <1>1, <1>2, <3>1 DEF Kept
  <2>2. (\A p \in reply : p.about # m) => \A p \in reply' : p.about # m
    BY <1>7, <1>8, <1>11 DEF JobMail
  <2> QED
    BY <1>3, <1>11, <2>1, <2>2 DEF JobMail, StaysAway
<1>12. CASE JobMessages
  BY <1>3, <1>12 DEF JobMessages, StaysAway
<1>13. ASSUME NEW i \in DOMAIN mail, Deliver(i) \/ TurnsOld(i)
       PROVE  StaysAway(m)
  <2>1. Len(mail') = Len(mail)
    BY <1>13, DeliverStep, TurnsOldStep
  <2> QED
    BY <1>3, <1>13, <2>1 DEF Deliver, TurnsOld, StaysAway
<1>14. CASE TimePasses
  <2>1. Len(mail') = Len(mail)
    BY <1>14, TimeStep
  <2> QED
    BY <1>3, <1>14, <2>1 DEF TimePasses, StaysAway
<1>15. ASSUME UNCHANGED tables
       PROVE  StaysAway(m)
  BY <1>3, <1>15 DEF tables, StaysAway
<1>16. ASSUME NEW r \in Reqs, ReplyLookup(r) \/ RemoveLock(r) \/ \E n \in Msgs : Find(r, n)
       PROVE  StaysAway(m)
  BY <1>15, <1>16 DEF ReplyLookup, RemoveLock, Find
<1>17. CASE JobStart \/ Crash \/ UNCHANGED vars
  BY <1>15, <1>17 DEF JobStart, Crash, vars
<1> QED
  BY <1>4, <1>5, <1>6, <1>9, <1>10, <1>11, <1>12, <1>13, <1>14, <1>16, <1>17 DEF Next

Jobs == {"idle", "copy", "mail", "messages"}

LEMMA TableStep ==
    ASSUME TypeOK, MailOrder, ReqSound, Handed, [Next]_vars
    PROVE  /\ msg' \in [Msgs -> Message] /\ Handed' /\ job' \in Jobs
           /\ {used, quoted, clearing, erased, archived}' \subseteq SUBSET Msgs
           /\ uncopied' \subseteq DOMAIN mail'
           /\ \A m \in quoted' : msg'[m] # NoMessage
<1> DEFINE Goal == /\ msg' \in [Msgs -> Message] /\ Handed' /\ job' \in Jobs
                   /\ {used, quoted, clearing, erased, archived}' \subseteq SUBSET Msgs
                   /\ uncopied' \subseteq DOMAIN mail
                   /\ \A m \in quoted' : msg'[m] # NoMessage
<1>1. Kept
  BY MailStep
<1> SUFFICES Goal
  BY <1>1, MailIs DEF Kept
<1>2. /\ msg \in [Msgs -> Message] /\ job \in Jobs
      /\ used \subseteq Msgs /\ quoted \subseteq Msgs /\ clearing \subseteq Msgs
      /\ erased \subseteq Msgs /\ archived \subseteq Msgs /\ uncopied \subseteq DOMAIN mail
      /\ \A m \in quoted : msg[m] # NoMessage
  BY DEF TypeOK, Jobs
<1>3. \A r \in Reqs : req[r] # Idle => req[r].on \in Msgs /\ req[r].on \in used
  BY ReqIs DEF ReqSound, Ask
<1>4. ASSUME msg' = msg, quoted' \subseteq quoted, used' = used, clearing' \subseteq Msgs,
             erased' = erased, archived' \subseteq archived, job' \in Jobs, uncopied' \subseteq DOMAIN mail
      PROVE  Goal
  BY <1>2, <1>4 DEF Handed
<1>5. ASSUME NEW r \in Reqs, NEW m \in Msgs, SubmitStore(r, m)
      PROVE  Goal
  <2>1. [status |-> "unread", old |-> FALSE] \in Message
    BY DEF Message, Statuses
  <2>2. [status |-> "unread", old |-> FALSE] # NoMessage
    BY DEF NoMessage
  <2>3. msg' = [msg EXCEPT ![m] = [status |-> "unread", old |-> FALSE]] /\ used' = used \cup {m}
    BY <1>5 DEF SubmitStore
  <2>4. msg' \in [Msgs -> Message] /\ Handed' /\ \A n \in quoted : msg'[n] # NoMessage
    BY <1>2, <2>1, <2>2, <2>3 DEF Handed
  <2> QED
    BY <1>2, <1>5, <2>3, <2>4 DEF SubmitStore, history
<1>6. ASSUME NEW r \in Reqs, NEW m \in Msgs, Find(r, m)
      PROVE  Goal
  BY <1>2, <1>4, <1>6 DEF Find, tables, history
<1>7. ASSUME NEW r \in Reqs, SubmitMail(r) \/ ReplySend(r) \/ ReplyLookup(r) \/ ReplyInsert(r)
      PROVE  Goal
  BY <1>2, <1>4, <1>7 DEF SubmitMail, ReplySend, ReplyLookup, ReplyInsert, tables, history
<1>8. ASSUME NEW r \in Reqs, SaveLoad(r) \/ SaveWrite(r)
      PROVE  Goal
  <2>1. PICK q \in Request : q = req[r] /\ q.on \in Msgs /\ q.on \in used
    BY <1>3, <1>8, ReqIs DEF SaveLoad, SaveWrite, Saves, Idle
  <2>2. [status |-> q.want, old |-> q.old] \in Message
    BY <2>1 DEF Request, Message
  <2>3. [status |-> q.want, old |-> q.old] # NoMessage
    BY <2>1 DEF Request, NoMessage, Statuses
  <2>4. archived' \subseteq Msgs
    <3>1. archived' = archived \/ Noted(r)
      BY <1>8 DEF SaveLoad, SaveWrite
    <3> QED
      BY <1>2, <2>1, <3>1 DEF Noted
  <2>5. msg' \in [Msgs -> Message] /\ \A m \in Msgs : /\ msg[m] # NoMessage => msg'[m] # NoMessage
                                                      /\ m # q.on => msg'[m] = msg[m]
    <3>1. CASE SaveLoad(r)
      BY <1>2, <2>1, <2>2, <2>3, <3>1 DEF SaveLoad
    <3>2. CASE SaveWrite(r)
      <4>1. CASE msg[q.on] = NoMessage
        BY <1>2, <2>1, <3>2, <4>1 DEF SaveWrite
      <4>2. CASE msg[q.on] # NoMessage
        <5>1. msg[q.on] \in [status : Statuses, old : BOOLEAN]
          BY <2>1, <4>2, MsgIs
        <5> DEFINE new == [msg[q.on] EXCEPT !.status = q.want]
        <5>2. q.want \in Statuses /\ q.want # "none"
          BY <2>1 DEF Request, Statuses
        <5>3. new \in [status : Statuses, old : BOOLEAN] /\ new.status # "none"
          BY <5>1, <5>2
        <5>4. new \in Message /\ new # NoMessage
          BY <5>3 DEF Message, NoMessage
        <5>5. msg' = [msg EXCEPT ![q.on] = new]
          BY <1>2, <2>1, <3>2, <4>2 DEF SaveWrite
        <5> HIDE DEF new
        <5> QED
          BY <1>2, <2>1, <5>4, <5>5
      <4> QED
        BY <4>1, <4>2
    <3> QED
      BY <1>8, <3>1, <3>2
  <2>6. Handed'
    <3>1. used' = used
      BY <1>8 DEF SaveLoad, SaveWrite
    <3> QED
      BY <2>1, <2>5, <3>1 DEF Handed
  <2> QED
    BY <1>2, <1>8, <2>4, <2>5, <2>6 DEF SaveLoad, SaveWrite
<1>9. ASSUME NEW r \in Reqs, ConvertInsert(r)
      PROVE  Goal
  <2>1. req[r].on \in Msgs
    BY <1>3, <1>9 DEF ConvertInsert, At, Idle
  <2> QED
    BY <1>2, <1>9, <2>1 DEF ConvertInsert, Handed, history
<1>10. ASSUME NEW r \in Reqs, RemoveLock(r)
       PROVE  Goal
  <2>1. req[r].on \in Msgs
    BY <1>3, <1>10 DEF RemoveLock, At, Idle
  <2> QED
    BY <1>2, <1>4, <1>10, <2>1 DEF RemoveLock, tables, history
<1>11. ASSUME NEW r \in Reqs, RemoveCommit(r)
       PROVE  Goal
  <2>1. PICK m \in Msgs : m = req[r].on
    BY <1>3, <1>11 DEF RemoveCommit, At, Idle
  <2>2. /\ msg' = [msg EXCEPT ![m] = NoMessage] /\ quoted' = quoted \ {m} /\ used' = used
        /\ clearing' = clearing \ {m} /\ archived' = archived \ {m} /\ job' = job /\ uncopied' = uncopied
        /\ erased' \subseteq erased \cup {m}
    BY <1>11, <2>1 DEF RemoveCommit
  <2>3. NoMessage \in Message
    BY DEF Message
  <2>4. msg' \in [Msgs -> Message] /\ Handed' /\ \A n \in quoted' : msg'[n] # NoMessage
    BY <1>2, <2>2, <2>3 DEF Handed
  <2> QED
    BY <1>2, <2>2, <2>4
<1>12. CASE JobStart \/ Crash \/ UNCHANGED vars
  BY <1>2, <1>4, <1>12 DEF JobStart, Crash, vars, tables, history, Jobs
<1>13. CASE JobCopy \/ JobMail
  <2>1. OldMails \subseteq DOMAIN mail
    BY DEF OldMails
  <2> QED
    BY <1>2, <1>4, <1>13, <2>1 DEF JobCopy, JobMail, history, Jobs
<1>14. CASE JobMessages
  <2> DEFINE old == {m \in Msgs : msg[m].old}
  <2>1. CASE UNCHANGED <<msg, reply, quoted, archived>>
    BY <1>2, <1>4, <1>14, <2>1 DEF JobMessages, Jobs
  <2>2. CASE /\ msg' = [m \in Msgs |-> IF m \in old THEN NoMessage ELSE msg[m]]
             /\ quoted' = quoted \ old /\ archived' = archived \ old
    <3>1. NoMessage \in Message
      BY DEF Message
    <3>2. used' = used /\ clearing' = clearing /\ erased' = erased /\ uncopied' = uncopied /\ job' \in Jobs
      BY <1>14 DEF JobMessages, Jobs
    <3>3. msg' \in [Msgs -> Message] /\ Handed' /\ \A n \in quoted' : msg'[n] # NoMessage
      <4> HIDE DEF old
      <4> QED
        BY <1>2, <2>2, <3>1, <3>2 DEF Handed
    <3> QED
      BY <1>2, <2>2, <3>2, <3>3
  <2> QED
    BY <1>14, <2>1, <2>2 DEF JobMessages
<1>15. ASSUME NEW i \in DOMAIN mail, Deliver(i) \/ TurnsOld(i)
       PROVE  Goal
  BY <1>2, <1>4, <1>15 DEF Deliver, TurnsOld, history
<1>16. CASE TimePasses
  <2>1. CASE msg' = msg
    BY <1>2, <1>4, <1>16, <2>1 DEF TimePasses, history
  <2>2. CASE msg' = [m \in Msgs |-> IF msg[m] = NoMessage THEN NoMessage ELSE [msg[m] EXCEPT !.old = TRUE]]
    <3>1. ASSUME NEW m \in Msgs
          PROVE  msg'[m] \in Message /\ (msg'[m] = NoMessage <=> msg[m] = NoMessage)
      <4>1. CASE msg[m] = NoMessage
        BY <2>2, <4>1 DEF Message
      <4>2. CASE msg[m] # NoMessage
        <5>1. msg[m] \in [status : Statuses, old : BOOLEAN]
          BY <4>2, MsgIs
        <5>2. msg'[m] = [msg[m] EXCEPT !.old = TRUE]
          BY <2>2, <4>2
        <5>3. msg'[m] \in [status : Statuses, old : BOOLEAN] /\ msg'[m].old = TRUE
          BY <5>1, <5>2
        <5> QED
          BY <4>2, <5>3 DEF Message, NoMessage
      <4> QED
        BY <4>1, <4>2
    <3>2. msg' \in [Msgs -> Message]
      BY <2>2, <3>1
    <3> QED
      BY <1>2, <1>16, <3>1, <3>2 DEF TimePasses, Handed, history
  <2> QED
    BY <1>16, <2>1, <2>2 DEF TimePasses
<1> QED
  BY <1>5, <1>6, <1>7, <1>8, <1>9, <1>10, <1>11, <1>12, <1>13, <1>14, <1>15, <1>16 DEF Next

\* What RemovedLeavesNothing rests on: no request is on such a message, and its id
\* is not handed out again.
Gone == RemovedLeavesNothing /\ \A m \in erased : m \in used /\ ~Busy(m)

LEMMA GoneStep ==
    ASSUME TypeOK, MailOrder, ReqSound, Handed, Gone, [Next]_vars
    PROVE  Gone'
<1>1. /\ req' \in [Reqs -> Requests] /\ Follows
      /\ {used, quoted, clearing, erased, archived}' \subseteq SUBSET Msgs
  BY ReqStep, TableStep
<1>2. erased \subseteq Msgs /\ erased' \subseteq Msgs
  BY <1>1 DEF TypeOK
<1>3. ASSUME NEW m \in Msgs, m \in erased
      PROVE  m \in used /\ ~Busy(m) /\ ~Busy(m)' /\ StaysAway(m) /\ msg[m] = NoMessage /\ MailsOf(m) = {}
             /\ m \notin quoted /\ \A p \in reply : p.about # m
  <2>1. m \in used /\ ~Busy(m) /\ msg[m] = NoMessage /\ MailsOf(m) = {}
        /\ m \notin quoted /\ \A p \in reply : p.about # m
    BY <1>3 DEF Gone, RemovedLeavesNothing
  <2>2. StaysAway(m)
    BY <2>1, OnlyRequestsBring
  <2>3. ~Busy(m)'
    BY <1>1, <2>1, <2>2 DEF Busy, Follows, StaysAway
  <2> QED
    BY <2>1, <2>2, <2>3
<1>4. ASSUME NEW m \in Msgs, m \in erased, m \in used'
      PROVE  /\ m \in used' /\ ~Busy(m)' /\ msg'[m] = NoMessage /\ MailsOf(m)' = {}
             /\ m \notin quoted' /\ \A p \in reply' : p.about # m
  BY <1>3, <1>4 DEF StaysAway
<1>5. CASE erased' = erased /\ used \subseteq used'
  BY <1>2, <1>3, <1>4, <1>5 DEF Gone, RemovedLeavesNothing
<1>6. ASSUME NEW r \in Reqs, RemoveCommit(r)
      PROVE  Gone'
  <2>1. req[r] # Idle /\ used' = used
    BY <1>6 DEF RemoveCommit, At, Idle
  <2>2. PICK m \in Msgs : m = req[r].on /\ m \in used
    BY <2>1, ReqIs DEF ReqSound, Ask
  <2>3. erased' = IF \E o \in Reqs \ {r} : req[o] # Idle /\ req[o].on = m THEN erased ELSE erased \cup {m}
    BY <1>6, <2>2 DEF RemoveCommit
  <2>4. CASE erased' = erased
    BY <1>5, <2>1, <2>4
  <2>5. CASE erased' # erased
    <3>1. erased' = erased \cup {m} /\ \A o \in Reqs \ {r} : ~(req[o] # Idle /\ req[o].on = m)
      BY <2>3, <2>5
    <3>2. req'[r] = Idle /\ \A o \in Reqs \ {r} : req'[o] = req[o]
      BY <1>6, Ends DEF RemoveCommit
    <3>3. ~Busy(m)'
      BY <3>1, <3>2 DEF Busy
    <3>4. msg'[m] = NoMessage /\ m \notin quoted'
      BY <1>6, <2>2 DEF RemoveCommit, TypeOK
    <3>5. MailsOf(m)' = {}
      <4>1. \A i \in DOMAIN mail : mail[i] \in Mail
        BY MailIs
      <4>2. mail' = [i \in DOMAIN mail |-> IF i \in MailsOf(m) THEN [mail[i] EXCEPT !.status = "deleted"]
                                           ELSE mail[i]]
        BY <1>6, <2>2 DEF RemoveCommit, RemoveMails, Without
      <4>3. \A i \in DOMAIN mail : mail'[i].about = m => mail'[i].status = "deleted"
        <5> SUFFICES ASSUME NEW i \in DOMAIN mail, mail'[i].about = m
                     PROVE  mail'[i].status = "deleted"
          OBVIOUS
        <5>1. CASE i \in MailsOf(m)
          BY <4>1, <4>2, <5>1 DEF Mail
        <5>2. CASE i \notin MailsOf(m)
          BY <4>2, <5>2 DEF MailsOf
        <5> QED
          BY <5>1, <5>2
      <4> QED
        BY <4>2, <4>3 DEF MailsOf
    <3>6. \A p \in reply' : p.about # m
      <4>1. ASSUME NEW p \in reply'
            PROVE  p.about # m
        <5>1. PICK o \in reply : o.about # m /\ p = [o EXCEPT !.mail = IF @ \in MailsOf(m) THEN 0 ELSE @]
          BY <1>6, <2>2, <4>1 DEF RemoveCommit, Unlinked
        <5>2. o \in Reply
          BY DEF TypeOK
        <5> QED
          BY <5>1, <5>2 DEF Reply
      <4> QED
        BY <4>1
    <3> QED
      BY <1>2, <1>3, <1>4, <2>1, <2>2, <3>1, <3>3, <3>4, <3>5, <3>6 DEF Gone, RemovedLeavesNothing
  <2> QED
    BY <2>4, <2>5
<1>7. ASSUME NEW r \in Reqs, NEW m \in Msgs, SubmitStore(r, m) \/ Find(r, m)
      PROVE  Gone'
  BY <1>5, <1>7 DEF SubmitStore, Find, history
<1>8. ASSUME NEW r \in Reqs, \/ SubmitMail(r) \/ SaveLoad(r) \/ SaveWrite(r) \/ ConvertInsert(r)
                             \/ ReplySend(r) \/ ReplyLookup(r) \/ ReplyInsert(r) \/ RemoveLock(r)
      PROVE  Gone'
  BY <1>5, <1>8 DEF SubmitMail, SaveLoad, SaveWrite, ConvertInsert, ReplySend, ReplyLookup,
                    ReplyInsert, RemoveLock, history
<1>9. CASE JobStart \/ JobCopy \/ JobMail \/ JobMessages \/ Crash \/ TimePasses \/ UNCHANGED vars
  BY <1>5, <1>9 DEF JobStart, JobCopy, JobMail, JobMessages, Crash, TimePasses, vars, history
<1>10. ASSUME NEW i \in DOMAIN mail, Deliver(i) \/ TurnsOld(i)
       PROVE  Gone'
  BY <1>5, <1>10 DEF Deliver, TurnsOld, history
<1> QED
  BY <1>6, <1>7, <1>8, <1>9, <1>10 DEF Next

-----------------------------------------------------------------------------
(* Theorems                                                                *)

Inv == TypeOK /\ MailOrder /\ ReqSound /\ Handed /\ RowSound /\ Gone

LEMMA Starting == Init => Inv
<1> SUFFICES ASSUME Init
             PROVE  Inv
  OBVIOUS
<1>1. msg \in [Msgs -> {NoMessage, [status |-> "unread", old |-> FALSE]}] /\ mail = <<>>
  BY DEF Init
<1>2. [status |-> "unread", old |-> FALSE] \in Message /\ NoMessage \in Message
  BY DEF Message, Statuses
<1>3. mail \in Seq(Mail) /\ Len(mail) = 0 /\ DOMAIN mail = {}
  BY <1>1
<1>4. TypeOK
  <2>1. msg \in [Msgs -> Message] /\ used \subseteq Msgs
    BY <1>1, <1>2 DEF Init
  <2>2. Len(mail) <= MaxMails /\ handled \in 0..MaxHandled
    BY <1>3, MessageConstants DEF Init
  <2>3. req \in [Reqs -> Request \cup {Idle}]
    BY DEF Init
  <2> QED
    BY <1>3, <2>1, <2>2, <2>3 DEF Init, TypeOK
<1>5. MailOrder
  BY <1>3 DEF MailOrder
<1> QED
  BY <1>4, <1>5 DEF Init, Inv, ReqSound, Handed, RowSound, Gone, RemovedLeavesNothing

LEMMA Going == Inv /\ [Next]_vars => Inv'
<1> SUFFICES ASSUME Inv, [Next]_vars
             PROVE  Inv'
  OBVIOUS
<1>1. Kept /\ MailOrder'
  BY MailStep DEF Inv
<1>2. req' \in [Reqs -> Requests] /\ handled' \in 0..MaxHandled /\ ReqSound'
  BY ReqStep DEF Inv
<1>3. /\ msg' \in [Msgs -> Message] /\ Handed' /\ job' \in Jobs
      /\ {used, quoted, clearing, erased, archived}' \subseteq SUBSET Msgs
      /\ uncopied' \subseteq DOMAIN mail'
      /\ \A m \in quoted' : msg'[m] # NoMessage
  BY TableStep DEF Inv
<1>4. RowSound'
  BY RowStep DEF Inv
<1>5. Gone'
  BY GoneStep DEF Inv
<1>6. TypeOK'
  BY <1>1, <1>2, <1>3, <1>4 DEF TypeOK, Kept, Requests, Jobs, RowSound, Row
<1> QED
  BY <1>1, <1>2, <1>3, <1>4, <1>5, <1>6 DEF Inv

LEMMA Invariant == Spec => []Inv
  BY Starting, Going, PTL DEF Spec

\* The tables of messages, replies and mails are well formed in every reachable state,
\* the foreign keys of message_replies and testimonials among it.
THEOREM TypeCorrect == Spec => []TypeOK
<1>1. Inv => TypeOK
  BY DEF Inv
<1> QED
  BY <1>1, Invariant, PTL

\* Whatever else runs, a message removed while no other request was on it leaves
\* nothing: no request can be on it later, and its id is not handed out again.
THEOREM RemovalIsComplete == Spec => []RemovedLeavesNothing
<1>1. Inv => RemovedLeavesNothing
  BY DEF Inv, Gone
<1> QED
  BY <1>1, Invariant, PTL

LEMMA LinkedInState == Inv => ReplyLinksItsMail
<1> SUFFICES ASSUME Inv, NEW p \in reply
             PROVE  /\ p.mail # 0 => mail[p.mail].about = p.about /\ mail[p.mail].key = "message_reply"
                                     /\ p.mail >= p.own
                    /\ p.own # 0 /\ mail[p.own].status # "deleted" => p.mail # 0
  BY DEF ReplyLinksItsMail
<1>1. Row(p) /\ MailOrder /\ Len(mail) \in Nat
  BY MailIs DEF Inv, RowSound
<1>2. p.mail # 0 => mail[p.mail].about = p.about /\ mail[p.mail].key = "message_reply" /\ p.mail >= p.own
  BY <1>1 DEF Row, IsReplyMail
<1>3. ASSUME p.own # 0, mail[p.own].status # "deleted", p.mail = 0
      PROVE  FALSE
  <2>1. p.was # 0 /\ mail[p.was].status = "deleted"
    BY <1>1, <1>3 DEF Row
  <2>2. p.own < p.was /\ p.own \in 1..Len(mail) /\ p.was \in 1..Len(mail)
        /\ mail[p.own].about = mail[p.was].about
    BY <1>1, <1>3, <2>1 DEF Row, IsReplyMail
  <2> QED
    BY <1>1, <1>3, <2>1, <2>2 DEF MailOrder
<1> QED
  BY <1>2, <1>3

\* reply links the newest mail of its template: never a mail about another message,
\* never one older than its own, and it never loses a mail that is still there.
THEOREM RepliesAreLinked == Spec => []ReplyLinksItsMail
  BY LinkedInState, Invariant, PTL

\* keepReplyDeliveryStatus runs before purgeOldMailLog: a purge never takes the
\* outcome of a reply with it, except of a mail that the copy could not have seen.
THEOREM OutcomesAreKept == Spec => []OutcomeKept
<1>1. Inv => OutcomeKept
  BY DEF Inv, RowSound, Row, OutcomeKept
<1> QED
  BY <1>1, Invariant, PTL

LEMMA ArchivedStep ==
    ASSUME Inv, Next, NEW m \in archived \cap archived', msg[m].status = "archived",
           msg'[m].status # "archived"
    PROVE  \E r \in Reqs : Saves(r) /\ req[r].on = m /\ req[r].wasUnread
<1>1. TypeOK /\ ReqSound /\ Handed /\ msg \in [Msgs -> Message] /\ m \in Msgs
  BY DEF Inv, TypeOK
<1>2. msg[m] # NoMessage /\ m \in used /\ msg[m] \in [status : Statuses, old : BOOLEAN]
  BY <1>1, MsgIs DEF NoMessage, Handed
<1> DEFINE Goal == \E r \in Reqs : Saves(r) /\ req[r].on = m /\ req[r].wasUnread
<1>3. ASSUME msg' = msg
      PROVE  Goal
  BY <1>3
<1>4. ASSUME NEW r \in Reqs, NEW n \in Msgs, SubmitStore(r, n)
      PROVE  Goal
  <2>1. n # m /\ msg' = [msg EXCEPT ![n] = [status |-> "unread", old |-> FALSE]]
    BY <1>2, <1>4 DEF SubmitStore
  <2> QED
    BY <1>1, <2>1
<1>5. ASSUME NEW r \in Reqs, SaveLoad(r)
      PROVE  Goal
  <2>1. PICK n \in Msgs : n = req[r].on
    BY <1>1, <1>5, ReqIs DEF SaveLoad, Saves, Idle
  <2> QED
    BY <1>1, <1>2, <1>5, <2>1 DEF SaveLoad
<1>6. ASSUME NEW r \in Reqs, SaveWrite(r)
      PROVE  Goal
  <2>1. PICK q \in Request : q = req[r] /\ Ask(q)
    BY <1>1, <1>6, ReqIs DEF SaveWrite, Saves, Idle, ReqSound, Ask
  <2>2. q.on \in Msgs /\ q.op \in {"view", "patch", "reply"} /\ q.stage = "write"
    BY <1>1, <1>6, <2>1, ReqIs DEF SaveWrite, Saves
  <2>3. q.on = m
    BY <1>1, <1>6, <2>1, <2>2 DEF SaveWrite
  <2>4. msg' = [msg EXCEPT ![m] = [msg[m] EXCEPT !.status = q.want]]
    BY <1>1, <1>2, <1>6, <2>1, <2>3 DEF SaveWrite
  <2>5. msg'[m].status = q.want
    BY <1>1, <1>2, <2>4
  <2>6. q.op # "patch"
    BY <1>6, <2>1, <2>3, <2>5 DEF SaveWrite, Noted
  <2> QED
    BY <1>6, <2>1, <2>2, <2>3, <2>6 DEF SaveWrite, Ask
<1>7. ASSUME NEW r \in Reqs, RemoveCommit(r)
      PROVE  Goal
  <2>1. PICK n \in Msgs : n = req[r].on
    BY <1>1, <1>7, ReqIs DEF RemoveCommit, At, Idle
  <2>2. n # m /\ msg' = [msg EXCEPT ![n] = NoMessage]
    BY <1>7, <2>1 DEF RemoveCommit
  <2> QED
    BY <1>1, <2>2
<1>8. CASE JobMessages
  BY <1>1, <1>8 DEF JobMessages
<1>9. CASE TimePasses
  <2>1. CASE msg' = msg
    BY <1>3, <2>1
  <2>2. CASE msg' = [n \in Msgs |-> IF msg[n] = NoMessage THEN NoMessage ELSE [msg[n] EXCEPT !.old = TRUE]]
    <3>1. msg'[m] = [msg[m] EXCEPT !.old = TRUE]
      BY <1>1, <1>2, <2>2
    <3> QED
      BY <1>2, <3>1
  <2> QED
    BY <1>9, <2>1, <2>2 DEF TimePasses
<1>10. ASSUME NEW r \in Reqs, \/ SubmitMail(r) \/ ConvertInsert(r) \/ ReplySend(r) \/ ReplyLookup(r)
                              \/ ReplyInsert(r) \/ RemoveLock(r) \/ \E n \in Msgs : Find(r, n)
       PROVE  Goal
  BY <1>3, <1>10 DEF SubmitMail, ConvertInsert, ReplySend, ReplyLookup, ReplyInsert, RemoveLock, Find, tables
<1>11. CASE JobStart \/ JobCopy \/ JobMail \/ Crash
  BY <1>3, <1>11 DEF JobStart, JobCopy, JobMail, Crash, tables
<1>12. ASSUME NEW i \in DOMAIN mail, Deliver(i) \/ TurnsOld(i)
       PROVE  Goal
  BY <1>3, <1>12 DEF Deliver, TurnsOld
<1> QED
  BY <1>4, <1>5, <1>6, <1>7, <1>8, <1>9, <1>10, <1>11, <1>12 DEF Next

\* findWithReplies and reply never bring back a message that staff archived and nobody
\* has PATCHed since: only a request that had read it unread can.
THEOREM ArchivedIsKept == Spec => ArchivedStaysArchived
<1>1. Inv /\ [Next]_vars =>
        [\A m \in archived \cap archived' : msg[m].status = "archived" /\ msg'[m].status # "archived" =>
            \E r \in Reqs : Saves(r) /\ req[r].on = m /\ req[r].wasUnread]_vars
  BY ArchivedStep
<1> QED
  BY <1>1, Invariant, PTL DEF Spec, ArchivedStaysArchived

-----------------------------------------------------------------------------
(* PART 2: Newsletter                                                      *)
-----------------------------------------------------------------------------
(* Types                                                                   *)

Subscribers == Subscriber \cup {NoSubscriber}
CallStages == {"load", "write", "mail"}

\* The columns of a row other than its id say nothing of whether it is one.
LEMMA Changed ==
    ASSUME NEW s \in Subscriber, NEW confirmed \in BOOLEAN, NEW unsub \in BOOLEAN, NEW old \in BOOLEAN,
           NEW unsubOld \in BOOLEAN
    PROVE  /\ [s EXCEPT !.confirmed = confirmed, !.unsub = unsub, !.unsubOld = unsubOld] \in Subscriber
           /\ [s EXCEPT !.confirmed = confirmed] \in Subscriber
           /\ [s EXCEPT !.unsub = unsub] \in Subscriber
           /\ [s EXCEPT !.old = old, !.unsubOld = unsubOld] \in Subscriber
  BY DEF Subscriber

LEMMA ReqTypes ==
    ASSUME NLTypeOK, NEW r \in Calls, NEW stage \in CallStages, CallAt(r, stage)
    PROVE  /\ call[r] \in Subscribe /\ call[r] # NoCall /\ call[r].stage = stage
           /\ call[r].addr \in Addrs /\ call[r].found \in Subscribers /\ call[r].cols \subseteq {"confirmed", "unsub"}
  BY DEF NLTypeOK, CallAt, CallStages, Subscribe, NoCall, Subscribers

LEMMA GotoTypes ==
    ASSUME NLTypeOK, NEW r \in Calls, NEW from \in CallStages, CallAt(r, from), NEW to \in CallStages,
           \/ CallGoto(r, to)
           \/ \E cols \in SUBSET {"confirmed", "unsub"} : call' = [call EXCEPT ![r].stage = to, ![r].cols = cols]
    PROVE  /\ call' \in [Calls -> Subscribe \cup {NoCall}]
           /\ call'[r].stage = to /\ call'[r].found = call[r].found /\ call'[r].addr = call[r].addr
           /\ \A q \in Calls \ {r} : call'[q] = call[q]
<1>1. call[r] \in Subscribe
  BY ReqTypes
<1>2. PICK next \in Subscribe : /\ call' = [call EXCEPT ![r] = next]
                                /\ next.stage = to /\ next.found = call[r].found /\ next.addr = call[r].addr
  <2>1. CASE CallGoto(r, to)
    <3> DEFINE new == [call[r] EXCEPT !.stage = to]
    <3>1. call' = [call EXCEPT ![r] = new]
      BY <2>1 DEF CallGoto, NLTypeOK
    <3>2. new \in Subscribe /\ new.stage = to /\ new.found = call[r].found /\ new.addr = call[r].addr
      BY <1>1 DEF Subscribe, CallStages
    <3> HIDE DEF new
    <3> QED
      BY <3>1, <3>2
  <2>2. ASSUME NEW cols \in SUBSET {"confirmed", "unsub"}, call' = [call EXCEPT ![r].stage = to, ![r].cols = cols]
        PROVE  \E next \in Subscribe : /\ call' = [call EXCEPT ![r] = next]
                                       /\ next.stage = to /\ next.found = call[r].found /\ next.addr = call[r].addr
    <3> DEFINE new == [call[r] EXCEPT !.stage = to, !.cols = cols]
    <3>1. call' = [call EXCEPT ![r] = new]
      BY <2>2 DEF NLTypeOK
    <3>2. new \in Subscribe /\ new.stage = to /\ new.found = call[r].found /\ new.addr = call[r].addr
      BY <1>1 DEF Subscribe, CallStages
    <3> HIDE DEF new
    <3> QED
      BY <3>1, <3>2
  <2> QED
    BY <2>1, <2>2
<1> QED
  BY <1>2 DEF NLTypeOK

LEMMA EndTypes ==
    ASSUME NLTypeOK, NEW r \in Calls, CallEnds(r)
    PROVE  /\ call' \in [Calls -> Subscribe \cup {NoCall}]
           /\ call'[r] = NoCall /\ \A q \in Calls \ {r} : call'[q] = call[q]
  BY DEF CallEnds, NLTypeOK

LEMMA InsertedTypes ==
    ASSUME NLTypeOK, NEW r \in Calls, CallAt(r, "load")
    PROVE  /\ Inserted(r) \in Subscriber /\ ~ Active(Inserted(r))
           /\ Inserted(r).id = IF call[r].found = NoSubscriber THEN ids[call[r].addr] + 1 ELSE call[r].found.id
<1>1. call[r].found \in Subscribers /\ call[r].addr \in Addrs /\ ids[call[r].addr] \in Nat
  BY ReqTypes DEF CallStages, NLTypeOK
<1>2. CASE call[r].found = NoSubscriber
  <2>1. PICK n \in Nat \ {0} : n = ids[call[r].addr] + 1
    BY <1>1
  <2>2. Inserted(r) = [id |-> n, confirmed |-> FALSE, unsub |-> FALSE, old |-> FALSE, unsubOld |-> FALSE]
    BY <1>2, <2>1 DEF Inserted, NoSubscriber
  <2>3. Inserted(r) \in Subscriber /\ Inserted(r).id = n /\ Inserted(r).confirmed = FALSE
    BY <2>2 DEF Subscriber
  <2> QED
    BY <1>2, <2>1, <2>3 DEF Active
<1>3. CASE call[r].found # NoSubscriber
  <2>1. call[r].found \in Subscriber
    BY <1>1, <1>3 DEF Subscribers
  <2>2. Inserted(r) = [call[r].found EXCEPT !.confirmed = FALSE, !.unsub = FALSE, !.unsubOld = FALSE]
    BY <1>3 DEF Inserted
  <2> QED
    BY <1>3, <2>1, <2>2 DEF Subscriber, Active
<1> QED
  BY <1>2, <1>3

LEMMA ResubscribedTypes ==
    ASSUME NEW s \in Subscriber, NEW cols \in SUBSET {"confirmed", "unsub"}
    PROVE  /\ Resubscribed(s, cols) \in Subscriber /\ Resubscribed(s, cols).id = s.id
           /\ Resubscribed(s, cols).confirmed = IF "confirmed" \in cols THEN FALSE ELSE s.confirmed
           /\ Resubscribed(s, cols).unsub = IF "unsub" \in cols THEN FALSE ELSE s.unsub
  BY DEF Resubscribed, Subscriber

\* A request that is under way had not found the address subscribed and confirmed,
\* and the row it found, or will insert again, had an id given before.
FoundInactive == \A r \in Calls : call[r] # NoCall => ~ Active(call[r].found) /\ call[r].found.id <= ids[call[r].addr]


\* What keeps them: the step leaves the requests alone, or moves one of them.
LEMMA FoundStep ==
    ASSUME NLTypeOK, FoundInactive, NEW r \in Calls, \A q \in Calls \ {r} : call'[q] = call[q],
           call'[r] = NoCall \/ (call[r] # NoCall /\ call'[r].found = call[r].found /\ call'[r].addr = call[r].addr),
           ids' \in [Addrs -> Nat], \A a \in Addrs : ids[a] <= ids'[a]
    PROVE  FoundInactive'
<1>1. ASSUME NEW q \in Calls, call'[q] # NoCall
      PROVE  ~ Active(call'[q].found) /\ call'[q].found.id <= ids'[call'[q].addr]
  <2>1. call[q] # NoCall /\ call'[q].found = call[q].found /\ call'[q].addr = call[q].addr
    BY <1>1
  <2>2. call[q].addr \in Addrs /\ call[q].found \in Subscribers
    BY <2>1 DEF NLTypeOK, Subscribe, Subscribers
  <2>3. ~ Active(call[q].found) /\ call[q].found.id <= ids[call[q].addr]
    BY <2>1 DEF FoundInactive
  <2>4. call[q].found.id \in Nat /\ ids[call[q].addr] \in Nat /\ ids'[call[q].addr] \in Nat
    BY <2>2 DEF NLTypeOK, Subscribers, Subscriber, NoSubscriber
  <2>5. ids[call[q].addr] <= ids'[call[q].addr]
    BY <2>2
  <2>6. call[q].found.id <= ids'[call[q].addr]
    BY <2>3, <2>4, <2>5
  <2> QED
    BY <2>1, <2>3, <2>6
<1> QED
  BY <1>1 DEF FoundInactive, Active

LEMMA InitTypes == NLInit => NLTypeOK /\ FoundInactive
  BY DEF NLInit, NLTypeOK, FoundInactive, NoSubscriber, NoCall

LEMMA SubscribeTypes ==
    ASSUME NLTypeOK, FoundInactive, NEW r \in Calls,
           \/ \E a \in Addrs : SubscribeFind(r, a)
           \/ SubscribeLoad(r) \/ SubscribeInsert(r) \/ SubscribeFails(r)
           \/ SubscribeWrite(r) \/ SubscribeSend(r)
    PROVE  NLTypeOK' /\ FoundInactive'
<1>1. ASSUME NEW a \in Addrs, SubscribeFind(r, a)
      PROVE  NLTypeOK' /\ FoundInactive'
  <2>1. PICK new \in Subscribe : new = [stage |-> "load", addr |-> a, found |-> sub[a], cols |-> {}]
    BY DEF Subscribe, NLTypeOK
  <2>2. call' = [call EXCEPT ![r] = new] /\ new.found = sub[a] /\ new.addr = a /\ ~ Active(sub[a])
    BY <1>1, <2>1 DEF SubscribeFind
  <2>3. UNCHANGED <<sub, ids, link>>
    BY <1>1 DEF SubscribeFind
  <2>4. NLTypeOK'
    BY <2>2, <2>3 DEF NLTypeOK
  <2>5. sub[a].id <= ids[a]
    BY DEF NLTypeOK
  <2>6. call'[r] = new /\ \A q \in Calls \ {r} : call'[q] = call[q]
    BY <2>2 DEF NLTypeOK
  <2>7. ASSUME NEW q \in Calls, call'[q] # NoCall
        PROVE  ~ Active(call'[q].found) /\ call'[q].found.id <= ids[call'[q].addr]
    BY <2>2, <2>5, <2>6, <2>7 DEF FoundInactive
  <2>8. FoundInactive'
    BY <2>3, <2>7 DEF FoundInactive, Active
  <2> QED
    BY <2>4, <2>8
<1>2. ASSUME SubscribeLoad(r)
      PROVE  NLTypeOK' /\ FoundInactive'
  <2>1. PICK cols \in SUBSET {"confirmed", "unsub"} :
             call' = [call EXCEPT ![r].stage = "write", ![r].cols = cols]
    BY <1>2 DEF SubscribeLoad
  <2>2. CallAt(r, "load") /\ UNCHANGED <<sub, ids, link>>
    BY <1>2 DEF SubscribeLoad
  <2> QED
    <3>1. /\ call' \in [Calls -> Subscribe \cup {NoCall}] /\ call'[r].found = call[r].found /\ call'[r].addr = call[r].addr
          /\ \A q \in Calls \ {r} : call'[q] = call[q]
      BY <2>1, <2>2, GotoTypes DEF CallStages
    <3>2. call[r] # NoCall /\ ids' \in [Addrs -> Nat] /\ \A a \in Addrs : ids[a] <= ids'[a]
      BY <2>2, ReqTypes DEF CallStages, NLTypeOK
    <3> QED
      BY <2>2, <3>1, <3>2, FoundStep DEF NLTypeOK
<1>3. ASSUME SubscribeInsert(r)
      PROVE  NLTypeOK' /\ FoundInactive'
  <2> DEFINE a == call[r].addr
  <2>1. CallAt(r, "load") /\ CallGoto(r, "mail") /\ a \in Addrs /\ call[r] # NoCall /\ link' = link
    BY <1>3, ReqTypes DEF SubscribeInsert, CallStages
  <2>2. PICK new \in Subscriber : /\ new = Inserted(r) /\ sub' = [sub EXCEPT ![a] = new]
                           /\ new.id = IF call[r].found = NoSubscriber THEN ids[a] + 1 ELSE call[r].found.id
    BY <1>3, <2>1, InsertedTypes DEF SubscribeInsert
  <2>3. ids' = [ids EXCEPT ![a] = IF call[r].found = NoSubscriber THEN ids[a] + 1 ELSE ids[a]]
    BY <1>3, <2>1 DEF SubscribeInsert, NLTypeOK
  <2>4. ids' \in [Addrs -> Nat] /\ \A b \in Addrs : ids[b] <= ids'[b]
    BY <2>1, <2>3 DEF NLTypeOK
  <2>5. /\ sub' \in [Addrs -> Subscriber \cup {NoSubscriber}]
        /\ call' \in [Calls -> Subscribe \cup {NoCall}] /\ FoundInactive'
    BY <2>1, <2>2, <2>4, GotoTypes, FoundStep DEF CallStages, NLTypeOK
  <2>6. call[r].found.id <= ids[a]
    BY <2>1 DEF FoundInactive
  <2>7. \A b \in Addrs : sub'[b].id <= ids'[b]
    BY <2>1, <2>2, <2>3, <2>6 DEF NLTypeOK
  <2> QED
    BY <2>1, <2>4, <2>5, <2>7 DEF NLTypeOK
<1>0. ASSUME CallEnds(r), UNCHANGED <<sub, ids>>, link' \in [Addrs -> BOOLEAN]
      PROVE  NLTypeOK' /\ FoundInactive'
  <2>1. ids' \in [Addrs -> Nat] /\ \A b \in Addrs : ids[b] <= ids'[b]
    BY <1>0 DEF NLTypeOK
  <2> QED
    BY <1>0, <2>1, EndTypes, FoundStep DEF NLTypeOK
<1>4. ASSUME SubscribeFails(r)
      PROVE  NLTypeOK' /\ FoundInactive'
  BY <1>0, <1>4 DEF SubscribeFails, NLTypeOK
<1>5. ASSUME SubscribeWrite(r)
      PROVE  NLTypeOK' /\ FoundInactive'
  <2> DEFINE a == call[r].addr
  <2>1. CallAt(r, "write") /\ CallGoto(r, "mail") /\ a \in Addrs /\ call[r] # NoCall /\ UNCHANGED <<ids, link>>
    BY <1>5, ReqTypes DEF SubscribeWrite, CallStages
  <2>2. call' \in [Calls -> Subscribe \cup {NoCall}] /\ FoundInactive'
    <3>1. /\ call' \in [Calls -> Subscribe \cup {NoCall}] /\ call'[r].found = call[r].found /\ call'[r].addr = call[r].addr
          /\ \A q \in Calls \ {r} : call'[q] = call[q]
      BY <2>1, GotoTypes DEF CallStages
    <3>2. ids' \in [Addrs -> Nat] /\ \A b \in Addrs : ids[b] <= ids'[b]
      BY <2>1 DEF NLTypeOK
    <3> QED
      BY <2>1, <3>1, <3>2, FoundStep
  <2>3. CASE There(r)
    <3>1. sub[a] \in Subscriber
      BY <2>1, <2>3 DEF There, NLTypeOK
    <3>2. PICK new \in Subscriber : new = Resubscribed(sub[a], call[r].cols) /\ new.id = sub[a].id
      <4>1. call[r].cols \in SUBSET {"confirmed", "unsub"}
        BY <2>1, ReqTypes DEF CallStages
      <4>2. Resubscribed(sub[a], call[r].cols) \in Subscriber /\ Resubscribed(sub[a], call[r].cols).id = sub[a].id
        BY <3>1, <4>1, ResubscribedTypes
      <4> QED
        BY <4>2
    <3>3. sub' = [sub EXCEPT ![a] = new]
      BY <1>5, <2>1, <2>3, <3>2 DEF SubscribeWrite, NLTypeOK
    <3> QED
      BY <2>1, <2>2, <3>2, <3>3 DEF NLTypeOK
  <2>4. CASE ~ There(r)
    BY <1>5, <2>1, <2>2, <2>4 DEF SubscribeWrite, NLTypeOK
  <2> QED
    BY <2>3, <2>4
<1>6. ASSUME SubscribeSend(r)
      PROVE  NLTypeOK' /\ FoundInactive'
  BY <1>0, <1>6 DEF SubscribeSend, NLTypeOK
<1> QED
  BY <1>1, <1>2, <1>3, <1>4, <1>5, <1>6

\* A step that changes one row, and not its id, or removes it.
LEMMA RowTypes ==
    ASSUME NLTypeOK, NEW a \in Addrs, NEW new \in Subscriber \cup {NoSubscriber}, new.id = sub[a].id \/ new = NoSubscriber,
           sub' = [sub EXCEPT ![a] = new], UNCHANGED <<ids, link, call>>
    PROVE  NLTypeOK'
<1>1. NoSubscriber.id = 0
  BY DEF NoSubscriber
<1> QED
  BY <1>1 DEF NLTypeOK

LEMMA TypesStay ==
    ASSUME NLTypeOK, FoundInactive, [NLNext]_nlvars
    PROVE  NLTypeOK' /\ FoundInactive'
<1>1. ASSUME UNCHANGED <<ids, call>>
      PROVE  FoundInactive'
  BY <1>1 DEF FoundInactive, Active
<1>2. ASSUME NEW a \in Addrs, Confirm(a) \/ Unsubscribe(a) \/ Remove(a)
      PROVE  NLTypeOK' /\ FoundInactive'
  <2>1. sub[a] \in Subscriber /\ UNCHANGED <<ids, link, call>>
    BY <1>2 DEF Confirm, Unsubscribe, Remove, Pending, NLTypeOK
  <2>2. PICK new \in Subscriber \cup {NoSubscriber} : (new.id = sub[a].id \/ new = NoSubscriber) /\ sub' = [sub EXCEPT ![a] = new]
    <3>1. CASE Confirm(a)
      <4>1. sub' = [sub EXCEPT ![a] = [sub[a] EXCEPT !.confirmed = TRUE]]
        BY <3>1 DEF Confirm, NLTypeOK
      <4> QED
        BY <2>1, <4>1 DEF Subscriber
    <3>2. CASE Unsubscribe(a)
      <4>1. sub' = [sub EXCEPT ![a] = [sub[a] EXCEPT !.unsub = TRUE]]
        BY <3>2 DEF Unsubscribe, NLTypeOK
      <4> QED
        BY <2>1, <4>1 DEF Subscriber
    <3>3. CASE Remove(a)
      BY <3>3 DEF Remove
    <3> QED
      BY <1>2, <3>1, <3>2, <3>3
  <2> QED
    BY <1>1, <2>1, <2>2, RowTypes
<1>3. ASSUME Purge
      PROVE  NLTypeOK' /\ FoundInactive'
  <2>1. sub' \in [Addrs -> Subscriber \cup {NoSubscriber}] /\ \A a \in Addrs : sub'[a] = sub[a] \/ sub'[a] = NoSubscriber
    BY <1>3 DEF Purge, NLTypeOK
  <2>2. NoSubscriber.id = 0 /\ UNCHANGED <<ids, link, call>>
    BY <1>3 DEF Purge, NoSubscriber
  <2> QED
    BY <1>1, <2>1, <2>2 DEF NLTypeOK
<1>4. ASSUME Restart
      PROVE  NLTypeOK' /\ FoundInactive'
  BY <1>4 DEF Restart, NLTypeOK, FoundInactive
<1>5. ASSUME WeekPasses
      PROVE  NLTypeOK' /\ FoundInactive'
  <2>1. link' \in [Addrs -> BOOLEAN] /\ UNCHANGED <<sub, ids, call>>
    BY <1>5 DEF WeekPasses
  <2> QED
    BY <1>1, <2>1 DEF NLTypeOK
<1>6. ASSUME MonthPasses
      PROVE  NLTypeOK' /\ FoundInactive'
  <2>1. link' \in [Addrs -> BOOLEAN] /\ UNCHANGED <<ids, call>>
    BY <1>6 DEF MonthPasses
  <2>2. ASSUME NEW a \in Addrs
        PROVE  sub'[a] \in Subscriber \cup {NoSubscriber} /\ sub'[a].id = sub[a].id
    <3>1. CASE sub[a] = NoSubscriber
      BY <1>6, <3>1 DEF MonthPasses
    <3>2. CASE sub[a] # NoSubscriber
      <4>1. sub[a] \in Subscriber /\ sub[a].unsub \in BOOLEAN
        BY <3>2 DEF NLTypeOK, Subscriber
      <4>2. sub'[a] = [sub[a] EXCEPT !.old = TRUE, !.unsubOld = sub[a].unsub]
        BY <1>6, <3>2 DEF MonthPasses
      <4> QED
        BY <4>1, <4>2 DEF Subscriber
    <3> QED
      BY <3>1, <3>2
  <2>3. sub' \in [Addrs -> Subscriber \cup {NoSubscriber}]
    <3>1. DOMAIN sub' = Addrs /\ sub' = [a \in Addrs |-> sub'[a]]
      BY <1>6 DEF MonthPasses
    <3> QED
      BY <2>2, <3>1
  <2> QED
    BY <1>1, <2>1, <2>2, <2>3 DEF NLTypeOK
<1>7. ASSUME UNCHANGED nlvars
      PROVE  NLTypeOK' /\ FoundInactive'
  BY <1>1, <1>7 DEF nlvars, NLTypeOK
<1> QED
  BY <1>2, <1>3, <1>4, <1>5, <1>6, <1>7, SubscribeTypes DEF NLNext

LEMMA InvAlways == NLSpec => [](NLTypeOK /\ FoundInactive)
<1>1. NLTypeOK /\ FoundInactive /\ [NLNext]_nlvars => (NLTypeOK /\ FoundInactive)'
  BY TypesStay
<1> QED
  BY <1>1, InitTypes, PTL DEF NLSpec

\* Every value is one the code handles, and no row has an id that was not given.
THEOREM SubscribersTypeCorrect == NLSpec => []NLTypeOK
<1>1. NLTypeOK /\ FoundInactive => NLTypeOK
  OBVIOUS
<1> QED
  BY <1>1, InvAlways, PTL

-----------------------------------------------------------------------------
(* What each step does to whether an address counts as subscribed          *)

\* A request that writes its columns into the row.
LEMMA WriteStep ==
    ASSUME NLTypeOK, NEW r \in Calls, SubscribeWrite(r), NEW a \in Addrs, sub'[a] # sub[a]
    PROVE  /\ CallAt(r, "write") /\ call[r].addr = a /\ call[r].cols \in SUBSET {"confirmed", "unsub"}
           /\ sub[a] \in Subscriber /\ sub'[a] \in Subscriber
           /\ sub'[a].confirmed = IF "confirmed" \in call[r].cols THEN FALSE ELSE sub[a].confirmed
           /\ sub'[a].unsub = IF "unsub" \in call[r].cols THEN FALSE ELSE sub[a].unsub
<1> DEFINE b == call[r].addr
<1>1. CallAt(r, "write") /\ b \in Addrs /\ call[r].cols \in SUBSET {"confirmed", "unsub"}
  BY ReqTypes DEF SubscribeWrite, CallStages
<1>2. There(r) /\ sub' = [sub EXCEPT ![b] = Resubscribed(sub[b], call[r].cols)]
  BY <1>1 DEF SubscribeWrite, NLTypeOK
<1>3. a = b /\ sub'[a] = Resubscribed(sub[a], call[r].cols)
  BY <1>1, <1>2 DEF NLTypeOK
<1>4. sub[a] \in Subscriber
  BY <1>2, <1>3 DEF There, NLTypeOK
<1>5. PICK cols \in SUBSET {"confirmed", "unsub"} : cols = call[r].cols
  BY <1>1
<1>6. sub'[a] = Resubscribed(sub[a], cols)
  BY <1>3, <1>5
<1>7. /\ sub'[a] \in Subscriber
      /\ sub'[a].confirmed = IF "confirmed" \in cols THEN FALSE ELSE sub[a].confirmed
      /\ sub'[a].unsub = IF "unsub" \in cols THEN FALSE ELSE sub[a].unsub
  <2>1. PICK s \in Subscriber : s = sub[a]
    BY <1>4
  <2>2. PICK new : new = Resubscribed(s, cols)
    OBVIOUS
  <2>3. /\ new \in Subscriber
        /\ new.confirmed = IF "confirmed" \in cols THEN FALSE ELSE s.confirmed
        /\ new.unsub = IF "unsub" \in cols THEN FALSE ELSE s.unsub
    BY <2>2, ResubscribedTypes, Zenon
  <2>4. sub'[a] = new
    BY <1>6, <2>1, <2>2
  <2> QED
    BY <2>1, <2>3, <2>4, Zenon
<1> QED
  BY <1>1, <1>3, <1>4, <1>5, <1>7

\* A request that inserts a row.
LEMMA InsertStep ==
    ASSUME NLTypeOK, NEW r \in Calls, SubscribeInsert(r), NEW a \in Addrs, sub'[a] # sub[a]
    PROVE  ~ Active(sub[a]) /\ ~ Active(sub'[a])
<1>1. CallAt(r, "load") /\ sub[call[r].addr] = NoSubscriber /\ sub' = [sub EXCEPT ![call[r].addr] = Inserted(r)]
  BY DEF SubscribeInsert
<1>2. a = call[r].addr /\ sub'[a] = Inserted(r)
  BY <1>1 DEF NLTypeOK
<1> QED
  BY <1>1, <1>2, InsertedTypes DEF Active

\* Any other step, but for Confirm and Unsubscribe, leaves a row as it was in this
\* respect, or removes it.
LEMMA OtherStep ==
    ASSUME NLTypeOK, [NLNext]_nlvars, NEW a \in Addrs,
           \A r \in Calls : ~ SubscribeWrite(r) /\ ~ SubscribeInsert(r),
           ~ Confirm(a), ~ Unsubscribe(a)
    PROVE  sub'[a] = NoSubscriber \/ Active(sub'[a]) = Active(sub[a])
<1>1. ASSUME NEW r \in Calls, \/ \E b \in Addrs : SubscribeFind(r, b)
                             \/ SubscribeLoad(r) \/ SubscribeFails(r) \/ SubscribeSend(r)
      PROVE  sub' = sub
  BY <1>1 DEF SubscribeFind, SubscribeLoad, SubscribeFails, SubscribeSend
<1>2. ASSUME NEW b \in Addrs, Confirm(b) \/ Unsubscribe(b) \/ Remove(b)
      PROVE  sub'[a] = NoSubscriber \/ sub'[a] = sub[a]
  BY <1>2 DEF Confirm, Unsubscribe, Remove, NLTypeOK
<1>3. ASSUME Purge
      PROVE  sub'[a] = NoSubscriber \/ sub'[a] = sub[a]
  BY <1>3 DEF Purge
<1>4. ASSUME MonthPasses
      PROVE  sub'[a] = NoSubscriber \/ Active(sub'[a]) = Active(sub[a])
  <2>1. CASE sub[a] # NoSubscriber
    <3>1. sub[a] \in Subscriber
      BY <2>1 DEF NLTypeOK
    <3>2. sub'[a] = [sub[a] EXCEPT !.old = TRUE, !.unsubOld = sub[a].unsub]
      BY <1>4, <2>1 DEF MonthPasses
    <3>3. sub'[a] \in Subscriber /\ sub'[a].confirmed = sub[a].confirmed /\ sub'[a].unsub = sub[a].unsub
      BY <3>1, <3>2 DEF Subscriber
    <3>4. \A s \in Subscriber : s # NoSubscriber
      BY DEF Subscriber, NoSubscriber
    <3> QED
      BY <3>1, <3>3, <3>4 DEF Active
  <2>2. CASE sub[a] = NoSubscriber
    BY <1>4, <2>2 DEF MonthPasses
  <2> QED
    BY <2>1, <2>2
<1>5. Restart \/ WeekPasses \/ UNCHANGED nlvars => sub' = sub
  BY DEF Restart, WeekPasses, nlvars
<1> QED
  BY <1>1, <1>2, <1>3, <1>4, <1>5 DEF NLNext

LEMMA NoRowInactive == ~ Active(NoSubscriber)
  BY DEF Active

\* Double opt-in (subscribe, confirmSubscription): an address comes to count as
\* subscribed by a valid link to it and nothing else, whatever requests to subscribe
\* overlap; but for the save of one that read the row before another was confirmed
\* and unsubscribed again.
THEOREM SubscribedByLink == NLSpec => ActiveOnlyByLink
<1>1. NLTypeOK /\ FoundInactive /\ [NLNext]_nlvars =>
        [\A a \in Addrs : ~Active(sub[a]) /\ Active(sub'[a]) =>
            \/ link[a] /\ ~sub[a].confirmed
            \/ \E r \in Calls : CallAt(r, "write") /\ call[r].addr = a /\ call[r].cols = {"unsub"}]_nlvars
  <2> SUFFICES ASSUME NLTypeOK, [NLNext]_nlvars, NEW a \in Addrs, ~Active(sub[a]), Active(sub'[a])
               PROVE  \/ link[a] /\ ~sub[a].confirmed
                      \/ \E r \in Calls : CallAt(r, "write") /\ call[r].addr = a /\ call[r].cols = {"unsub"}
    OBVIOUS
  <2>1. sub'[a] # sub[a] /\ sub'[a] # NoSubscriber
    BY NoRowInactive
  <2>2. ASSUME NEW r \in Calls, SubscribeWrite(r)
        PROVE  CallAt(r, "write") /\ call[r].addr = a /\ call[r].cols = {"unsub"}
    <3>1. /\ CallAt(r, "write") /\ call[r].addr = a /\ call[r].cols \in SUBSET {"confirmed", "unsub"}
          /\ sub[a] \in Subscriber
          /\ sub'[a].confirmed = IF "confirmed" \in call[r].cols THEN FALSE ELSE sub[a].confirmed
          /\ sub'[a].unsub = IF "unsub" \in call[r].cols THEN FALSE ELSE sub[a].unsub
      BY <2>1, <2>2, WriteStep
    <3>2. "confirmed" \notin call[r].cols /\ sub[a].confirmed
      BY <3>1 DEF Active
    <3>3. sub[a] # NoSubscriber
      BY <3>1 DEF Subscriber, NoSubscriber
    <3>4. sub[a].unsub /\ "unsub" \in call[r].cols
      BY <3>1, <3>2, <3>3 DEF Active
    <3> QED
      BY <3>1, <3>2, <3>4
  <2>3. \A r \in Calls : ~ SubscribeInsert(r)
    BY <2>1, InsertStep
  <2>4. Confirm(a) => link[a] /\ ~sub[a].confirmed
    BY DEF Confirm, Pending
  <2>5. ~ Unsubscribe(a)
    <3>1. ASSUME Unsubscribe(a)
          PROVE  sub'[a].unsub
      <4>1. sub[a] \in Subscriber /\ sub'[a] = [sub[a] EXCEPT !.unsub = TRUE]
        BY <3>1 DEF Unsubscribe, NLTypeOK
      <4> QED
        BY <4>1 DEF Subscriber
    <3> QED
      BY <3>1 DEF Active
  <2> QED
    BY <2>1, <2>2, <2>3, <2>4, <2>5, OtherStep
<1> QED
  BY <1>1, InvAlways, PTL DEF NLSpec, ActiveOnlyByLink

\* A confirmed subscription ends by its link or by an admin: a new request for the
\* address leaves it alone, unless it had found the row before it counted (subscribe).
THEOREM ConfirmationIsKept == NLSpec => ConfirmationKept
<1>1. NLTypeOK /\ FoundInactive /\ [NLNext]_nlvars =>
        [\A a \in Addrs : Active(sub[a]) /\ sub'[a] # NoSubscriber /\ ~Active(sub'[a]) =>
            \/ sub'[a].unsub
            \/ \E r \in Calls : CallAt(r, "write") /\ call[r].addr = a /\ ~Active(call[r].found)]_nlvars
  <2> SUFFICES ASSUME NLTypeOK, FoundInactive, [NLNext]_nlvars, NEW a \in Addrs,
                      Active(sub[a]), sub'[a] # NoSubscriber, ~Active(sub'[a])
               PROVE  \/ sub'[a].unsub
                      \/ \E r \in Calls : CallAt(r, "write") /\ call[r].addr = a /\ ~Active(call[r].found)
    OBVIOUS
  <2>1. sub'[a] # sub[a] /\ sub[a] # NoSubscriber
    BY NoRowInactive
  <2>2. ASSUME NEW r \in Calls, SubscribeWrite(r)
        PROVE  CallAt(r, "write") /\ call[r].addr = a /\ ~Active(call[r].found)
    <3>1. CallAt(r, "write") /\ call[r].addr = a
      BY <2>1, <2>2, WriteStep
    <3>2. call[r] # NoCall
      BY <3>1, ReqTypes DEF CallStages
    <3> QED
      BY <3>1, <3>2 DEF FoundInactive
  <2>3. \A r \in Calls : ~ SubscribeInsert(r)
    BY <2>1, InsertStep
  <2>4. ~ Confirm(a)
    BY DEF Confirm, Pending, Active
  <2>5. Unsubscribe(a) => sub'[a].unsub
    <3>1. ASSUME Unsubscribe(a)
          PROVE  sub'[a].unsub
      <4>1. sub[a] \in Subscriber /\ sub'[a] = [sub[a] EXCEPT !.unsub = TRUE]
        BY <3>1 DEF Unsubscribe, NLTypeOK
      <4> QED
        BY <4>1 DEF Subscriber
    <3> QED
      BY <3>1
  <2> QED
    BY <2>2, <2>3, <2>4, <2>5, OtherStep
<1> QED
  BY <1>1, InvAlways, PTL DEF NLSpec, ConfirmationKept
=============================================================================
