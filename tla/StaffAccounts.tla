--------------------------- MODULE StaffAccounts ---------------------------
(***************************************************************************)
(* Staff accounts: users, their sessions and their one-time links          *)
(* (auth.service.ts, users.service.ts, session.guard.ts).                  *)
(*                                                                         *)
(* A request handler is a chain of SQL statements separated by awaits, so  *)
(* handlers of different requests interleave between statements.  Reqs is  *)
(* the set of requests handled in a behaviour; each runs one operation,    *)
(* and `req[r]' holds its place in the handler and what it has read so     *)
(* far.  A statement that writes a users row, or inserts a row whose       *)
(* foreign key points at one, waits for that row's lock; a transaction     *)
(* keeps its row locks until it ends.  InnoDB rolls back one transaction   *)
(* of a wait cycle.                                                        *)
(*                                                                         *)
(* Left out: the login rate limit and the brute-force lock (they only      *)
(* refuse a login), names, audit rows, and the expiry of links and         *)
(* sessions (an expired one is one that nobody uses any more).             *)
(***************************************************************************)
EXTENDS Naturals, FiniteSets

CONSTANTS
    Users,      \* account ids, those of rows not yet created included
    Admins,     \* the active admins of the initial state
    Reqs,       \* requests, each handled once
    Patches,    \* the PATCH /admin/users/:id bodies considered
    None        \* no user, no session, no link, no holder

Roles == {"admin", "editor"}                       \* "support" acts as "editor"
Keep == "keep"                                     \* a field absent from a body
PatchSpace == [role: Roles \cup {Keep},
               status: {"active", "disabled", Keep},
               newEmail: BOOLEAN]

ASSUME ConstantsAssumption ==
    /\ Admins \subseteq Users
    /\ Admins # {}
    /\ Patches \subseteq PatchSpace
    /\ None \notin Users \cup Reqs

VARIABLES
    role,       \* users.role
    status,     \* users.status; "none" before the row exists, "removed" after
    pw,         \* which password the hash is of; 0 is UNUSABLE_PASSWORD_HASH
    email,      \* which address the row holds
    sess,       \* sessions; a login's session is named after its request
    tok,        \* auth_tokens; named after the request that issued the link
    lock,       \* holder of the row lock of each user
    tokLock,    \* holder of the row lock of each link
    req,        \* the requests
    spent       \* history: how many links of each user were used

vars == <<role, status, pw, email, sess, tok, lock, tokLock, req, spent>>
accounts == <<role, status, pw, email>>
locks == <<lock, tokLock>>

SessIds == Users \cup Reqs
Stages == {"new", "verified", "signedIn", "changing", "hashed", "created",
           "found", "authorised", "locked", "checked", "tokenLocked",
           "userLocked", "done"}
Ops == {"idle", "login", "password", "invite", "forgot", "accept", "reset",
        "update", "remove"}

SessRecord == [st: {"none", "open", "revoked"}, user: Users \cup {None}, pw: Nat]
TokRecord == [st: {"none", "unused", "used", "deleted"}, user: Users \cup {None},
              purpose: {"invite", "reset"}, email: Nat, gen: Nat]
ReqRecord == [op: Ops, stage: Stages, actor: Users \cup {None},
              target: Users \cup {None}, patch: PatchSpace,
              sid: SessIds \cup {None}, tid: Reqs \cup {None},
              pw: Nat, email: Nat]

NoPatch == [role |-> Keep, status |-> Keep, newEmail |-> FALSE]
NoSession == [st |-> "none", user |-> None, pw |-> 0]
NoToken == [st |-> "none", user |-> None, purpose |-> "reset", email |-> 0, gen |-> 0]
NewReq == [op |-> "idle", stage |-> "new", actor |-> None, target |-> None,
           patch |-> NoPatch, sid |-> None, tid |-> None, pw |-> 0, email |-> 0]

TypeOK ==
    /\ role \in [Users -> Roles]
    /\ status \in [Users -> {"none", "invited", "active", "disabled", "removed"}]
    /\ pw \in [Users -> Nat]
    /\ email \in [Users -> Nat]
    /\ sess \in [SessIds -> SessRecord]
    /\ tok \in [Reqs -> TokRecord]
    /\ lock \in [Users -> Reqs \cup {None}]
    /\ tokLock \in [Reqs -> Reqs \cup {None}]
    /\ req \in [Reqs -> ReqRecord]
    /\ spent \in [Users -> Nat]

-----------------------------------------------------------------------------
(* Rows and the guards of a request                                        *)

Exists(u) == status[u] \in {"invited", "active", "disabled"}
AdminRows == {u \in Users : Exists(u) /\ role[u] = "admin"}
ActiveAdmin(u) == role[u] = "admin" /\ status[u] = "active"
Outstanding(u) == {t \in Reqs : tok[t].st = "unused" /\ tok[t].user = u}

\* SessionGuard: an unrevoked session of an active account.
LiveSession(s) == sess[s].st = "open" /\ status[sess[s].user] = "active"
\* RolesGuard on the areas `users' and `invite'.
AdminSession(s) == LiveSession(s) /\ role[sess[s].user] = "admin"

ChangesRole(r) == req[r].patch.role \notin {Keep, role[req[r].target]}
Disables(r) == req[r].patch.status = "disabled" /\ status[req[r].target] # "disabled"

-----------------------------------------------------------------------------
(* Row locks: what a request's next statement needs, and for whom it waits *)

RowsNeeded(r) ==
    CASE req[r].stage \in {"verified", "signedIn", "changing", "created",
                           "found", "tokenLocked"} -> {req[r].target}
      [] req[r].stage = "authorised" -> AdminRows \cup {req[r].target}
      [] OTHER -> {}

\* The write of an update or a delete, and the spending of a link, delete the
\* user's outstanding links (a delete by the foreign key's cascade).
TokensNeeded(r) ==
    IF \/ req[r].stage = "userLocked"
       \/ /\ req[r].stage = "checked"
          /\ \/ req[r].op = "remove"
             \/ Disables(r)
             \/ req[r].patch.newEmail
    THEN Outstanding(req[r].target)
    ELSE {}

WaitsFor(r) == ({lock[u] : u \in RowsNeeded(r)}
                  \cup {tokLock[t] : t \in TokensNeeded(r)}) \ {None, r}
Blocked(r) == WaitsFor(r) # {}
InWaitCycle(r) == \E q \in WaitsFor(r) : r \in WaitsFor(q)
InFlight(r) == req[r].stage \notin {"new", "done"}

Goto(r, stage) == req' = [req EXCEPT ![r].stage = stage]
Release(r) ==
    /\ lock' = [u \in Users |-> IF lock[u] = r THEN None ELSE lock[u]]
    /\ tokLock' = [t \in Reqs |-> IF tokLock[t] = r THEN None ELSE tokLock[t]]

Init ==
    /\ role = [u \in Users |-> IF u \in Admins THEN "admin" ELSE "editor"]
    /\ status = [u \in Users |-> IF u \in Admins THEN "active" ELSE "none"]
    /\ pw = [u \in Users |-> IF u \in Admins THEN 1 ELSE 0]
    /\ email = [u \in Users |-> 0]
    /\ sess = [s \in SessIds |-> IF s \in Admins
                                 THEN [st |-> "open", user |-> s, pw |-> 1]
                                 ELSE NoSession]
    /\ tok = [t \in Reqs |-> NoToken]
    /\ lock = [u \in Users |-> None]
    /\ tokLock = [t \in Reqs |-> None]
    /\ req = [r \in Reqs |-> NewReq]
    /\ spent = [u \in Users |-> 0]

-----------------------------------------------------------------------------
(* Login: SELECT and verify; UPDATE ... AND status = 'active'; INSERT      *)

\* The account is active and the password typed is the one the hash is of.
\* Every other login changes no state modelled here and ends at once.
LoginSelect(r, u) ==
    /\ req[r].stage = "new"
    /\ status[u] = "active"
    /\ pw[u] > 0
    /\ req' = [req EXCEPT ![r] = [NewReq EXCEPT !.op = "login", !.stage = "verified",
                                                !.target = u, !.pw = pw[u]]]
    /\ UNCHANGED <<accounts, sess, tok, locks, spent>>

\* Mutant: save(user), the whole row as this request read it.
LoginUpdate_FullSave(r) ==
    /\ req[r].op = "login" /\ req[r].stage = "verified" /\ ~Blocked(r)
    /\ pw' = [pw EXCEPT ![req[r].target] = req[r].pw]
    /\ Goto(r, "signedIn")
    /\ UNCHANGED <<role, status, email, sess, tok, locks, spent>>

LoginUpdate(r) ==
    /\ req[r].op = "login" /\ req[r].stage = "verified" /\ ~Blocked(r)
    /\ Goto(r, IF status[req[r].target] = "active" THEN "signedIn" ELSE "done")
    /\ UNCHANGED <<accounts, sess, tok, locks, spent>>

LoginInsert(r) ==
    LET u == req[r].target IN
    /\ req[r].op = "login" /\ req[r].stage = "signedIn" /\ ~Blocked(r)
    /\ sess' = IF Exists(u)
               THEN [sess EXCEPT ![r] = [st |-> "open", user |-> u, pw |-> req[r].pw]]
               ELSE sess                          \* the foreign key refuses it
    /\ Goto(r, "done")
    /\ UNCHANGED <<accounts, tok, locks, spent>>

-----------------------------------------------------------------------------
(* Ending sessions, changing the password                                  *)

\* logout, endSession: one session, by its owner or by an admin.
EndSession(r, caller, s) ==
    /\ req[r].stage = "new"
    /\ LiveSession(caller)
    /\ sess[s].st # "none"
    /\ sess[s].user = sess[caller].user \/ AdminSession(caller)
    /\ sess' = [sess EXCEPT ![s].st = "revoked"]
    /\ Goto(r, "done")
    /\ UNCHANGED <<accounts, tok, locks, spent>>

SessionsEnded(u, kept) ==
    [s \in SessIds |-> IF sess[s].user = u /\ s # kept /\ sess[s].st = "open"
                       THEN [sess[s] EXCEPT !.st = "revoked"]
                       ELSE sess[s]]

EndOtherSessions(r, current) ==
    /\ req[r].stage = "new"
    /\ LiveSession(current)
    /\ sess' = SessionsEnded(sess[current].user, current)
    /\ Goto(r, "done")
    /\ UNCHANGED <<accounts, tok, locks, spent>>

\* changePassword: SELECT and verify; UPDATE the hash; end the other sessions.
ChangeVerify(r, s) ==
    /\ req[r].stage = "new"
    /\ LiveSession(s)
    /\ pw[sess[s].user] > 0
    /\ req' = [req EXCEPT ![r] = [NewReq EXCEPT !.op = "password", !.stage = "changing",
                                     !.target = sess[s].user, !.sid = s]]
    /\ UNCHANGED <<accounts, sess, tok, locks, spent>>

ChangeWrite(r) ==
    LET u == req[r].target IN
    /\ req[r].stage = "changing" /\ ~Blocked(r)
    /\ pw' = IF Exists(u) THEN [pw EXCEPT ![u] = @ + 1] ELSE pw
    /\ Goto(r, "hashed")
    /\ UNCHANGED <<role, status, email, sess, tok, locks, spent>>

ChangeEndOthers(r) ==
    /\ req[r].stage = "hashed"
    /\ sess' = SessionsEnded(req[r].target, req[r].sid)
    /\ Goto(r, "done")
    /\ UNCHANGED <<accounts, tok, locks, spent>>

-----------------------------------------------------------------------------
(* Issuing links: an invitation, a password reset                          *)

\* createInvitedUser; the unique e-mail makes a second one fail.
InviteCreate(r, s, u, ro) ==
    /\ req[r].stage = "new"
    /\ AdminSession(s)
    /\ status[u] = "none"
    /\ status' = [status EXCEPT ![u] = "invited"]
    /\ role' = [role EXCEPT ![u] = ro]
    /\ req' = [req EXCEPT ![r] = [NewReq EXCEPT !.op = "invite", !.stage = "created",
                                     !.target = u, !.email = email[u]]]
    /\ UNCHANGED <<pw, email, sess, tok, locks, spent>>

\* sendPasswordReset: the account must be active when it is looked up.
ForgotFind(r, u) ==
    /\ req[r].stage = "new"
    /\ status[u] = "active"
    /\ req' = [req EXCEPT ![r] = [NewReq EXCEPT !.op = "forgot", !.stage = "found",
                                     !.target = u, !.email = email[u]]]
    /\ UNCHANGED <<accounts, sess, tok, locks, spent>>

\* The link is saved, then mailed to the address read before.
IssueLink(r, purpose) ==
    LET u == req[r].target IN
    /\ ~Blocked(r)
    /\ tok' = IF Exists(u)
              THEN [tok EXCEPT ![r] = [st |-> "unused", user |-> u, purpose |-> purpose,
                                       email |-> req[r].email, gen |-> spent[u]]]
              ELSE tok                            \* the foreign key refuses it
    /\ Goto(r, "done")
    /\ UNCHANGED <<accounts, sess, locks, spent>>

InviteToken(r) == req[r].stage = "created" /\ IssueLink(r, "invite")
ForgotToken(r) == req[r].stage = "found" /\ IssueLink(r, "reset")

-----------------------------------------------------------------------------
(* consumeToken: lock the link, lock the account, spend and apply, commit  *)

ConsumeLockToken(r, t) ==
    /\ req[r].stage = "new"
    /\ tok[t].st = "unused"
    /\ tokLock[t] = None
    /\ tokLock' = [tokLock EXCEPT ![t] = r]
    /\ req' = [req EXCEPT ![r] = [NewReq EXCEPT
                  !.op = IF tok[t].purpose = "invite" THEN "accept" ELSE "reset",
                  !.stage = "tokenLocked", !.target = tok[t].user, !.tid = t]]
    /\ UNCHANGED <<accounts, sess, tok, lock, spent>>

\* Mutant: the account's status is not looked at.
AllowedStatuses_Any(op) == {"invited", "active", "disabled"}

AllowedStatuses(op) == IF op = "accept" THEN {"invited"} ELSE {"active"}

ConsumeLockUser(r) ==
    LET u == req[r].target IN
    /\ req[r].stage = "tokenLocked" /\ ~Blocked(r)
    /\ \/ /\ status[u] \in AllowedStatuses(req[r].op)
          /\ lock' = [lock EXCEPT ![u] = r]
          /\ Goto(r, "userLocked")
          /\ UNCHANGED tokLock
       \/ /\ status[u] \notin AllowedStatuses(req[r].op)
          /\ Release(r)
          /\ Goto(r, "done")
    /\ UNCHANGED <<accounts, sess, tok, spent>>

\* Mutant: only the link that is used is spent.
LinksDeleted_None(u) == tok

LinksDeleted(u) ==
    [t \in Reqs |-> IF t \in Outstanding(u) THEN [tok[t] EXCEPT !.st = "deleted"]
                                            ELSE tok[t]]

\* accept activates the account; reset ends every session of it.
ConsumeCommit(r) ==
    LET u == req[r].target IN
    /\ req[r].stage = "userLocked" /\ ~Blocked(r)
    /\ tok' = [LinksDeleted(u) EXCEPT ![req[r].tid] = [tok[req[r].tid] EXCEPT !.st = "used"]]
    /\ pw' = [pw EXCEPT ![u] = @ + 1]
    /\ status' = [status EXCEPT ![u] = IF req[r].op = "accept" THEN "active" ELSE @]
    /\ sess' = IF req[r].op = "reset" THEN SessionsEnded(u, None) ELSE sess
    /\ spent' = [spent EXCEPT ![u] = @ + 1]
    /\ Release(r)
    /\ Goto(r, "done")
    /\ UNCHANGED <<role, email>>

-----------------------------------------------------------------------------
(* UsersService.update and remove: the guards; lock every admin row and    *)
(* the target; the rules; the writes and the commit.                       *)

AdminBegin(r, s, t, op, patch) ==
    /\ req[r].stage = "new"
    /\ AdminSession(s)
    /\ req' = [req EXCEPT ![r] = [NewReq EXCEPT !.op = op, !.stage = "authorised",
                  !.actor = sess[s].user, !.target = t, !.patch = patch]]
    /\ UNCHANGED <<accounts, sess, tok, locks, spent>>

UpdateBegin(r, s, t, patch) == AdminBegin(r, s, t, "update", patch)
RemoveBegin(r, s, t) == AdminBegin(r, s, t, "remove", NoPatch)

\* Mutant: only the target row is locked before the rules are checked.
TxLock_TargetOnly(r) ==
    /\ req[r].stage = "authorised" /\ lock[req[r].target] = None
    /\ lock' = [lock EXCEPT ![req[r].target] = r]
    /\ Goto(r, "locked")
    /\ UNCHANGED <<accounts, sess, tok, tokLock, spent>>

TxLock(r) ==
    /\ req[r].stage = "authorised" /\ ~Blocked(r)
    /\ lock' = [u \in Users |-> IF u \in RowsNeeded(r) THEN r ELSE lock[u]]
    /\ Goto(r, "locked")
    /\ UNCHANGED <<accounts, sess, tok, tokLock, spent>>

TakesCover(r) ==
    /\ ActiveAdmin(req[r].target)
    /\ req[r].op = "remove" \/ ChangesRole(r) \/ Disables(r)

\* usableAdminsBesides, as a set.
UsableAdminsBesides(t) == {u \in Users \ {t} : ActiveAdmin(u)}

Refused(r) ==
    LET t == req[r].target IN
    \/ ~Exists(t)
    \/ t = req[r].actor /\ (req[r].op = "remove" \/ ChangesRole(r))
    \/ TakesCover(r) /\ UsableAdminsBesides(t) = {}
    \/ req[r].patch.status = "active" /\ status[t] = "invited"

\* Mutant: a refusal leaves the transaction open.
TxCheck_NoRollback(r) ==
    /\ req[r].stage = "locked"
    /\ Goto(r, IF Refused(r) THEN "done" ELSE "checked")
    /\ UNCHANGED <<accounts, sess, tok, locks, spent>>

TxCheck(r) ==
    /\ req[r].stage = "locked"
    /\ \/ /\ Refused(r)
          /\ Release(r)
          /\ Goto(r, "done")
       \/ /\ ~Refused(r)
          /\ Goto(r, "checked")
          /\ UNCHANGED locks
    /\ UNCHANGED <<accounts, sess, tok, spent>>

\* Mutant: an absent field is written too.
PatchedRole_Unchecked(p, old) == p.role

PatchedRole(p, old) == IF p.role = Keep THEN old ELSE p.role
PatchedStatus(p, old) == IF p.status = Keep THEN old ELSE p.status

UpdateWrite(r) ==
    LET t == req[r].target
        p == req[r].patch
    IN
    /\ req[r].op = "update" /\ req[r].stage = "checked" /\ ~Blocked(r)
    /\ role' = [role EXCEPT ![t] = PatchedRole(p, @)]
    /\ status' = [status EXCEPT ![t] = PatchedStatus(p, @)]
    /\ email' = [email EXCEPT ![t] = IF p.newEmail THEN @ + 1 ELSE @]
    /\ sess' = IF Disables(r) THEN SessionsEnded(t, None) ELSE sess
    /\ tok' = IF Disables(r) \/ p.newEmail THEN LinksDeleted(t) ELSE tok
    /\ Release(r)
    /\ Goto(r, "done")
    /\ UNCHANGED <<pw, spent>>

RemoveWrite(r) ==
    LET t == req[r].target IN
    /\ req[r].op = "remove" /\ req[r].stage = "checked" /\ ~Blocked(r)
    /\ status' = [status EXCEPT ![t] = "removed"]
    /\ sess' = [s \in SessIds |-> IF sess[s].user = t THEN NoSession ELSE sess[s]]
    /\ tok' = [k \in Reqs |-> IF tok[k].user = t THEN NoToken ELSE tok[k]]
    /\ Release(r)
    /\ Goto(r, "done")
    /\ UNCHANGED <<role, pw, email, spent>>

-----------------------------------------------------------------------------
(* InnoDB and the process                                                  *)

DeadlockAbort(r) ==
    /\ InFlight(r) /\ InWaitCycle(r)
    /\ Release(r)
    /\ Goto(r, "done")
    /\ UNCHANGED <<accounts, sess, tok, spent>>

\* The process stops: no handler continues, open transactions roll back.
Crash ==
    /\ \E r \in Reqs : InFlight(r)
    /\ req' = [r \in Reqs |-> IF InFlight(r) THEN [req[r] EXCEPT !.stage = "done"]
                                             ELSE req[r]]
    /\ lock' = [u \in Users |-> None]
    /\ tokLock' = [t \in Reqs |-> None]
    /\ UNCHANGED <<accounts, sess, tok, spent>>

Handler(r) ==
    \/ \E u \in Users : LoginSelect(r, u) \/ ForgotFind(r, u)
    \/ \E s \in SessIds : EndOtherSessions(r, s) \/ ChangeVerify(r, s)
    \/ \E c, s \in SessIds : EndSession(r, c, s)
    \/ \E s \in SessIds, u \in Users, ro \in Roles : InviteCreate(r, s, u, ro)
    \/ \E s \in SessIds, t \in Users : RemoveBegin(r, s, t)
    \/ \E s \in SessIds, t \in Users, p \in Patches : UpdateBegin(r, s, t, p)
    \/ \E t \in Reqs : ConsumeLockToken(r, t)
    \/ LoginUpdate(r) \/ LoginInsert(r)
    \/ ChangeWrite(r) \/ ChangeEndOthers(r)
    \/ InviteToken(r) \/ ForgotToken(r)
    \/ ConsumeLockUser(r) \/ ConsumeCommit(r)
    \/ TxLock(r) \/ TxCheck(r) \/ UpdateWrite(r) \/ RemoveWrite(r)
    \/ DeadlockAbort(r)

Next == (\E r \in Reqs : Handler(r)) \/ Crash

Spec == Init /\ [][Next]_vars

-----------------------------------------------------------------------------
(* Properties                                                              *)

\* FR-A-03 and B1-9 (users.service.ts): whatever demotions, disables and
\* deletes run at the same time, an active admin is always left.
AdminCover == \E u \in Users : ActiveAdmin(u)

\* C3 (auth.service.ts, acceptInvite and resetPassword): a disabled account
\* comes back only by the update of an admin who asked for it; no link, however
\* old, and no login in flight brings it back.
OnlyAdminReenables ==
    [][\A u \in Users :
          status[u] = "disabled" /\ status'[u] = "active" =>
             \E r \in Reqs : /\ req[r].op = "update" /\ req[r].target = u
                            /\ req[r].patch.status = "active"
                            /\ req[r].stage = "checked" /\ req'[r].stage = "done"]_vars

\* C4 (auth.service.ts, login): no handler writes back a copy of the password
\* it read earlier, so a reset or a change is never undone by a later write.
PasswordNeverReverts == [][\A u \in Users : pw'[u] >= pw[u]]_vars

\* C3 (auth.service.ts, consumeToken): once a link of an account was used, no
\* link issued before that can be used, whichever requests were in flight.
NewestUseVoidsOlder ==
    \A t \in Reqs : tok[t].st = "unused" => tok[t].gen = spent[tok[t].user]

\* users.service.ts, remove: a deleted account leaves no session and no link,
\* those that handlers in flight were about to insert included.
NothingOutlivesTheAccount ==
    /\ \A s \in SessIds : sess[s].st # "none" => Exists(sess[s].user)
    /\ \A t \in Reqs : tok[t].st # "none" => Exists(tok[t].user)

\* users.service.ts:137, "An invited user becomes active by accepting the
\* invitation": an active account has a password of its owner's.
\* The code does not keep this (README, section 5).
ActiveOnlyByAcceptance == \A u \in Users : status[u] = "active" => pw[u] > 0

\* users.service.ts:160, "an outstanding invitation or reset link must not
\* outlive a disable or an address change (it was sent to the old address)".  The
\* code does not keep this (README, section 5).
LinkDiesWithDisableOrAddress ==
    \A t \in Reqs : tok[t].st = "unused" =>
        /\ status[tok[t].user] # "disabled"
        /\ tok[t].email = email[tok[t].user]

\* The row locks of users.service.ts and consumeToken: while handlers are in
\* flight, one of them can go on or is in a wait cycle, which the database
\* breaks.  No lock is left behind by a handler that ended.
EveryWaitEnds ==
    (\E r \in Reqs : InFlight(r)) =>
       \E r \in Reqs : InFlight(r) /\ (~Blocked(r) \/ InWaitCycle(r))

=============================================================================
