-------------------------- MODULE Accounts_proofs ---------------------------
(***************************************************************************)
(* Proofs about the accounts of the staff.  Part 1 is about StaffAccounts: *)
(* accounts, sessions and links, for any accounts, requests and patches.   *)
(* Part 2 is about LoginLimits: the columns of the lock stay in range, no  *)
(* guess is lost, and the locks double, for any limits and any sign-ins.   *)
(***************************************************************************)
EXTENDS StaffAccounts, LoginLimits, TLAPS

-----------------------------------------------------------------------------
(***************************************************************************)
(* Part 1: StaffAccounts                                                   *)
(***************************************************************************)

\* A session, an unused link and a handler in flight name an account.
WellFormed ==
    /\ \A s \in SessIds : sess[s].st # "none" => sess[s].user \in Users
    /\ \A t \in Reqs : tok[t].st = "unused" => tok[t].user \in Users
    /\ \A r \in Reqs : InFlight(r) => req[r].target \in Users

\* The fields of a request only matter once it is in flight.
LEMMA InitTypes == Init => TypeOK /\ WellFormed
  BY ConstantsAssumption
     DEF Init, TypeOK, WellFormed, InFlight, NewReq, NoPatch, NoSession, NoToken,
         ReqRecord, SessRecord, TokRecord, PatchSpace, SessIds, Stages, Ops, Roles, Keep

-----------------------------------------------------------------------------
(* What the shared operators do                                            *)

LEMMA GotoTypes ==
    ASSUME TypeOK, NEW r \in Reqs, NEW stage \in Stages, Goto(r, stage)
    PROVE  /\ req' \in [Reqs -> ReqRecord]
           /\ \A q \in Reqs \ {r} : req'[q] = req[q]
           /\ req'[r].stage = stage
           /\ req'[r].op = req[r].op
           /\ req'[r].target = req[r].target
           /\ req'[r].patch = req[r].patch
  BY DEF TypeOK, Goto, ReqRecord

LEMMA ReleaseTypes ==
    ASSUME TypeOK, NEW r \in Reqs, Release(r)
    PROVE  /\ lock' \in [Users -> Reqs \cup {None}]
           /\ tokLock' \in [Reqs -> Reqs \cup {None}]
           /\ \A u \in Users : lock[u] # r => lock'[u] = lock[u]
  BY DEF TypeOK, Release

LEMMA SessionsEndedTypes ==
    ASSUME TypeOK, NEW u, NEW kept
    PROVE  /\ SessionsEnded(u, kept) \in [SessIds -> SessRecord]
           /\ \A s \in SessIds : /\ SessionsEnded(u, kept)[s].user = sess[s].user
                                 /\ SessionsEnded(u, kept)[s].st # "none" => sess[s].st # "none"
  BY DEF TypeOK, SessionsEnded, SessRecord

LEMMA LinksDeletedTypes ==
    ASSUME TypeOK, NEW u
    PROVE  /\ LinksDeleted(u) \in [Reqs -> TokRecord]
           /\ \A t \in Reqs : /\ LinksDeleted(u)[t].user = tok[t].user
                              /\ LinksDeleted(u)[t].gen = tok[t].gen
                              /\ LinksDeleted(u)[t].st = "unused" =>
                                    tok[t].st = "unused" /\ tok[t].user # u
  BY DEF TypeOK, LinksDeleted, Outstanding, TokRecord

-----------------------------------------------------------------------------
(* Type correctness                                                        *)

LEMMA TypeStep ==
    ASSUME TypeOK, WellFormed, [Next]_vars
    PROVE  TypeOK' /\ WellFormed'
<1> USE DEF TypeOK, WellFormed, accounts, locks, InFlight
<1>1. ASSUME NEW r \in Reqs, NEW u \in Users, LoginSelect(r, u)
      PROVE  TypeOK' /\ WellFormed'
  BY <1>1
     DEF LoginSelect, NewReq, NoPatch,
         ReqRecord, PatchSpace, SessIds, Stages, Ops, Roles, Keep
<1>2. ASSUME NEW r \in Reqs, NEW u \in Users, ForgotFind(r, u)
      PROVE  TypeOK' /\ WellFormed'
  BY <1>2
     DEF ForgotFind, NewReq, NoPatch,
         ReqRecord, PatchSpace, SessIds, Stages, Ops, Roles, Keep
<1>3. ASSUME NEW r \in Reqs, NEW s \in SessIds, ChangeVerify(r, s)
      PROVE  TypeOK' /\ WellFormed'
  BY <1>3
     DEF ChangeVerify, LiveSession, NewReq, NoPatch, SessRecord,
         ReqRecord, PatchSpace, SessIds, Stages, Ops, Roles, Keep
<1>4. ASSUME NEW r \in Reqs, NEW s \in SessIds, NEW u \in Users, NEW ro \in Roles, InviteCreate(r, s, u, ro)
      PROVE  TypeOK' /\ WellFormed'
  BY <1>4
     DEF InviteCreate, NewReq, NoPatch,
         ReqRecord, PatchSpace, SessIds, Stages, Ops, Roles, Keep
<1>5. ASSUME NEW r \in Reqs, NEW s \in SessIds, NEW t \in Users, RemoveBegin(r, s, t)
      PROVE  TypeOK' /\ WellFormed'
  BY <1>5
     DEF RemoveBegin, AdminBegin, AdminSession, LiveSession, NewReq, NoPatch, SessRecord,
         ReqRecord, PatchSpace, SessIds, Stages, Ops, Roles, Keep
<1>6. ASSUME NEW r \in Reqs, NEW s \in SessIds, NEW t \in Users, NEW p \in Patches, UpdateBegin(r, s, t, p)
      PROVE  TypeOK' /\ WellFormed'
  BY <1>6, ConstantsAssumption
     DEF UpdateBegin, AdminBegin, AdminSession, LiveSession, NewReq, NoPatch, SessRecord,
         ReqRecord, PatchSpace, SessIds, Stages, Ops, Roles, Keep
<1>7. ASSUME NEW r \in Reqs, NEW t \in Reqs, ConsumeLockToken(r, t)
      PROVE  TypeOK' /\ WellFormed'
  BY <1>7
     DEF ConsumeLockToken, NewReq, NoPatch, TokRecord,
         ReqRecord, PatchSpace, SessIds, Stages, Ops, Roles, Keep
<1>8. ASSUME NEW r \in Reqs, NEW s \in SessIds, EndOtherSessions(r, s)
      PROVE  TypeOK' /\ WellFormed'
  BY <1>8, GotoTypes, SessionsEndedTypes DEF EndOtherSessions, Stages
<1>9. ASSUME NEW r \in Reqs, NEW c \in SessIds, NEW s \in SessIds, EndSession(r, c, s)
      PROVE  TypeOK' /\ WellFormed'
  BY <1>9, GotoTypes DEF EndSession, SessRecord, Stages
<1>10. ASSUME NEW r \in Reqs, LoginUpdate(r)
      PROVE  TypeOK' /\ WellFormed'
  BY <1>10, GotoTypes DEF LoginUpdate, Stages
<1>11. ASSUME NEW r \in Reqs, LoginInsert(r)
      PROVE  TypeOK' /\ WellFormed'
  BY <1>11, GotoTypes DEF LoginInsert, SessRecord, ReqRecord, Stages
<1>12. ASSUME NEW r \in Reqs, ChangeWrite(r)
      PROVE  TypeOK' /\ WellFormed'
  BY <1>12, GotoTypes DEF ChangeWrite, Stages
<1>13. ASSUME NEW r \in Reqs, ChangeEndOthers(r)
      PROVE  TypeOK' /\ WellFormed'
  BY <1>13, GotoTypes, SessionsEndedTypes DEF ChangeEndOthers, Stages
<1>14. ASSUME NEW r \in Reqs, InviteToken(r)
      PROVE  TypeOK' /\ WellFormed'
  BY <1>14, GotoTypes DEF InviteToken, IssueLink, TokRecord, ReqRecord, Stages
<1>15. ASSUME NEW r \in Reqs, ForgotToken(r)
      PROVE  TypeOK' /\ WellFormed'
  BY <1>15, GotoTypes DEF ForgotToken, IssueLink, TokRecord, ReqRecord, Stages
<1>16. ASSUME NEW r \in Reqs, ConsumeLockUser(r)
      PROVE  TypeOK' /\ WellFormed'
  BY <1>16, GotoTypes, ReleaseTypes DEF ConsumeLockUser, Stages
<1>17. ASSUME NEW r \in Reqs, ConsumeCommit(r)
       PROVE  TypeOK' /\ WellFormed'
  <2>1. /\ tok' \in [Reqs -> TokRecord]
        /\ \A t \in Reqs : tok'[t].st = "unused" => tok[t].st = "unused"
        /\ \A t \in Reqs : tok'[t].user = tok[t].user
    <3> DEFINE rest == LinksDeleted(req[r].target)
               k == req[r].tid
    <3>1. tok' = [rest EXCEPT ![k] = [tok[k] EXCEPT !.st = "used"]]
      BY <1>17 DEF ConsumeCommit
    <3>2. /\ rest \in [Reqs -> TokRecord]
          /\ \A t \in Reqs : rest[t].st = "unused" => tok[t].st = "unused"
          /\ \A t \in Reqs : rest[t].user = tok[t].user
      BY LinksDeletedTypes
    <3>3. CASE k \in Reqs
      <4> DEFINE e == [tok[k] EXCEPT !.st = "used"]
      <4>1. e \in TokRecord /\ e.st = "used" /\ e.user = tok[k].user
        BY <3>3 DEF TokRecord
      <4>2. tok' = [rest EXCEPT ![k] = e]
        BY <3>1
      <4> HIDE DEF rest, k, e
      <4> QED
        BY <3>2, <3>3, <4>1, <4>2
    <3>4. CASE k \notin Reqs
      <4>1. tok' = rest
        BY <3>1, <3>2, <3>4
      <4> QED
        BY <3>2, <4>1
    <3> QED
      BY <3>3, <3>4
  <2>2. /\ sess' \in [SessIds -> SessRecord]
        /\ \A s \in SessIds : /\ sess'[s].user = sess[s].user
                              /\ sess'[s].st # "none" => sess[s].st # "none"
    BY <1>17, SessionsEndedTypes DEF ConsumeCommit
  <2>3. UNCHANGED <<role, email>> /\ Goto(r, "done") /\ Release(r)
    BY <1>17 DEF ConsumeCommit
  <2>4. /\ pw' \in [Users -> Nat]
        /\ spent' \in [Users -> Nat]
        /\ status' \in [Users -> {"none", "invited", "active", "disabled", "removed"}]
    BY <1>17 DEF ConsumeCommit
  <2> QED
    BY <2>1, <2>2, <2>3, <2>4, GotoTypes, ReleaseTypes DEF Stages
<1>18. ASSUME NEW r \in Reqs, TxLock(r)
      PROVE  TypeOK' /\ WellFormed'
  BY <1>18, GotoTypes DEF TxLock, Stages
<1>19. ASSUME NEW r \in Reqs, TxCheck(r)
      PROVE  TypeOK' /\ WellFormed'
  BY <1>19, GotoTypes, ReleaseTypes DEF TxCheck, Stages
<1>20. ASSUME NEW r \in Reqs, UpdateWrite(r)
       PROVE  TypeOK' /\ WellFormed'
  <2>1. /\ tok' \in [Reqs -> TokRecord]
        /\ \A t \in Reqs : tok'[t].st = "unused" => tok[t].st = "unused"
        /\ \A t \in Reqs : tok'[t].user = tok[t].user
    BY <1>20, LinksDeletedTypes DEF UpdateWrite
  <2>2. /\ sess' \in [SessIds -> SessRecord]
        /\ \A s \in SessIds : /\ sess'[s].user = sess[s].user
                              /\ sess'[s].st # "none" => sess[s].st # "none"
    BY <1>20, SessionsEndedTypes DEF UpdateWrite
  <2>3. UNCHANGED <<pw, spent>> /\ Goto(r, "done") /\ Release(r)
    BY <1>20 DEF UpdateWrite
  <2>4. req[r].patch \in PatchSpace
    BY DEF ReqRecord
  <2>5. /\ role' \in [Users -> Roles]
        /\ email' \in [Users -> Nat]
        /\ status' \in [Users -> {"none", "invited", "active", "disabled", "removed"}]
    BY <1>20, <2>4 DEF UpdateWrite, PatchedRole, PatchedStatus, PatchSpace, Roles, Keep
  <2> QED
    BY <2>1, <2>2, <2>3, <2>5, GotoTypes, ReleaseTypes DEF Stages
<1>21. ASSUME NEW r \in Reqs, RemoveWrite(r)
       PROVE  TypeOK' /\ WellFormed'
  <2>1. /\ tok' \in [Reqs -> TokRecord]
        /\ \A t \in Reqs : tok'[t].st = "unused" => tok'[t] = tok[t]
    BY <1>21 DEF RemoveWrite, NoToken, TokRecord
  <2>2. /\ sess' \in [SessIds -> SessRecord]
        /\ \A s \in SessIds : sess'[s].st # "none" => sess'[s] = sess[s]
    BY <1>21 DEF RemoveWrite, NoSession, SessRecord
  <2>3. /\ UNCHANGED <<role, pw, email, spent>> /\ Goto(r, "done") /\ Release(r)
        /\ status' \in [Users -> {"none", "invited", "active", "disabled", "removed"}]
    BY <1>21 DEF RemoveWrite
  <2> QED
    BY <2>1, <2>2, <2>3, GotoTypes, ReleaseTypes DEF Stages
<1>22. ASSUME NEW r \in Reqs, DeadlockAbort(r)
      PROVE  TypeOK' /\ WellFormed'
  BY <1>22, GotoTypes, ReleaseTypes DEF DeadlockAbort, Stages
<1>23. CASE Crash
  BY <1>23 DEF Crash, ReqRecord, Stages
<1>24. CASE UNCHANGED vars
  BY <1>24 DEF vars
<1> QED
  BY <1>1, <1>2, <1>3, <1>4, <1>5, <1>6, <1>7, <1>8, <1>9, <1>10, <1>11, <1>12, <1>13, <1>14, <1>15, <1>16, <1>17, <1>18, <1>19, <1>20, <1>21, <1>22, <1>23, <1>24
     DEF Next, Handler

\* Every reachable state has its type, and a handler in flight, a session and
\* an unused link always name an account.
THEOREM TypeCorrect == Spec => [](TypeOK /\ WellFormed)
<1>1. Init => TypeOK /\ WellFormed
  BY InitTypes
<1>2. TypeOK /\ WellFormed /\ [Next]_vars => (TypeOK /\ WellFormed)'
  BY TypeStep
<1> QED
  BY <1>1, <1>2, PTL DEF Spec

-----------------------------------------------------------------------------
(* What a deleted account leaves, and which links can be used              *)

\* A session and a link name an account that exists, and a link that can be
\* used was issued after the last use of one.  A handler that spends a link holds it.
LinkHeld ==
    \A r \in Reqs : req[r].stage \in {"tokenLocked", "userLocked"} =>
        /\ req[r].tid \in Reqs
        /\ tokLock[req[r].tid] = r
        /\ tok[req[r].tid].st = "unused"

RowsInv ==
    /\ TypeOK /\ WellFormed
    /\ \A s \in SessIds : sess[s].st # "none" => sess[s].user \in Users /\ Exists(sess[s].user)
    /\ \A t \in Reqs : tok[t].st # "none" => tok[t].user \in Users /\ Exists(tok[t].user)
    /\ NewestUseVoidsOlder
    /\ LinkHeld

\* A step that adds no session and no link, and deletes no account.
RowsStep ==
    /\ \A u \in Users : Exists(u) => Exists(u)'
    /\ \A s \in SessIds : sess'[s].st # "none" =>
          sess[s].st # "none" /\ sess'[s].user = sess[s].user
    /\ \A t \in Reqs : tok'[t].st # "none" =>
          tok[t].st # "none" /\ tok'[t].user = tok[t].user
    /\ \A t \in Reqs : tok'[t].st = "unused" =>
          tok[t].st = "unused" /\ tok'[t].gen = tok[t].gen
    /\ spent' = spent

LEMMA RowsStepKeeps == RowsInv /\ TypeOK' /\ WellFormed' /\ LinkHeld' /\ RowsStep => RowsInv'
<1> SUFFICES ASSUME RowsInv, TypeOK', WellFormed', LinkHeld', RowsStep
             PROVE  RowsInv'
  OBVIOUS
<1>1. \A s \in SessIds : sess'[s].st # "none" => sess'[s].user \in Users /\ Exists(sess[s].user)'
  BY DEF RowsInv, RowsStep
<1>2. \A t \in Reqs : tok'[t].st # "none" => tok'[t].user \in Users /\ Exists(tok[t].user)'
  BY DEF RowsInv, RowsStep
<1>3. NewestUseVoidsOlder'
  BY DEF RowsInv, RowsStep, NewestUseVoidsOlder
<1> QED
  BY <1>1, <1>2, <1>3 DEF RowsInv, Exists

\* The statuses an update can give.
LEMMA UpdateStatuses ==
    ASSUME TypeOK, NEW r \in Reqs
    PROVE  req[r].patch.status \in {"active", "disabled", Keep}
  BY DEF TypeOK, ReqRecord, PatchSpace

LEMMA RowsStepOfHandlers ==
    ASSUME RowsInv, NEW r \in Reqs, Handler(r)
    PROVE  RowsStep \/ LoginInsert(r) \/ InviteToken(r) \/ ForgotToken(r)
              \/ ConsumeCommit(r) \/ RemoveWrite(r)
<1> USE DEF RowsStep, accounts
<1>1. CASE UNCHANGED <<status, sess, tok, spent>>
  BY <1>1 DEF Exists
<1>2. ASSUME NEW s \in SessIds, EndOtherSessions(r, s)
      PROVE  RowsStep
  BY <1>2, SessionsEndedTypes DEF EndOtherSessions, RowsInv, Exists
<1>3. ASSUME NEW c \in SessIds, NEW s \in SessIds, EndSession(r, c, s)
      PROVE  RowsStep
  BY <1>3 DEF EndSession, RowsInv, TypeOK, SessRecord, Exists
<1>4. ASSUME ChangeEndOthers(r)
      PROVE  RowsStep
  BY <1>4, SessionsEndedTypes DEF ChangeEndOthers, RowsInv, Exists
<1>5. ASSUME NEW s \in SessIds, NEW u \in Users, NEW ro \in Roles, InviteCreate(r, s, u, ro)
      PROVE  RowsStep
  BY <1>5 DEF InviteCreate, RowsInv, TypeOK, Exists
<1>6. ASSUME UpdateWrite(r)
      PROVE  RowsStep
  <2> DEFINE t == req[r].target
  <2>1. \A s \in SessIds : sess'[s].st # "none" =>
            sess[s].st # "none" /\ sess'[s].user = sess[s].user
    BY <1>6, SessionsEndedTypes DEF UpdateWrite, RowsInv
  <2>2. \A k \in Reqs : tok'[k].st # "none" =>
            tok[k].st # "none" /\ tok'[k].user = tok[k].user
    BY <1>6 DEF UpdateWrite, RowsInv, LinksDeleted, Outstanding, TypeOK, TokRecord
  <2>3. \A k \in Reqs : tok'[k].st = "unused" =>
            tok[k].st = "unused" /\ tok'[k].gen = tok[k].gen
    BY <1>6, LinksDeletedTypes DEF UpdateWrite, RowsInv
  <2>4. \A u \in Users : Exists(u) => Exists(u)'
    BY <1>6, UpdateStatuses DEF UpdateWrite, RowsInv, TypeOK, Exists, PatchedStatus, Keep
  <2> QED
    BY <1>6, <2>1, <2>2, <2>3, <2>4 DEF UpdateWrite
<1>7. CASE \/ \E u \in Users : LoginSelect(r, u) \/ ForgotFind(r, u)
           \/ \E s \in SessIds : ChangeVerify(r, s)
           \/ \E s \in SessIds, t \in Users : RemoveBegin(r, s, t)
           \/ \E s \in SessIds, t \in Users, p \in Patches : UpdateBegin(r, s, t, p)
           \/ \E t \in Reqs : ConsumeLockToken(r, t)
           \/ LoginUpdate(r) \/ ChangeWrite(r) \/ ConsumeLockUser(r)
           \/ TxLock(r) \/ TxCheck(r) \/ DeadlockAbort(r)
  BY <1>1, <1>7 DEF LoginSelect, ForgotFind, ChangeVerify, RemoveBegin, UpdateBegin, AdminBegin,
     ConsumeLockToken, LoginUpdate, ChangeWrite, ConsumeLockUser, TxLock, TxCheck, DeadlockAbort
<1> QED
  BY <1>2, <1>3, <1>4, <1>5, <1>6, <1>7 DEF Handler

\* What the other handlers do to the links that a handler holds.
KeepsLinks(r) ==
    /\ \A q \in Reqs \ {r} : req'[q] = req[q]
    /\ req'[r].stage \notin {"tokenLocked", "userLocked"}
    /\ \A t \in Reqs : tokLock[t] \notin {None, r} =>
          tokLock'[t] = tokLock[t] /\ (tok[t].st = "unused" => tok'[t].st = "unused")

LEMMA KeepsLinksKeeps ==
    ASSUME TypeOK, LinkHeld, NEW r \in Reqs, KeepsLinks(r)
    PROVE  LinkHeld'
  BY ConstantsAssumption DEF LinkHeld, KeepsLinks

\* A statement that deletes the links of an account waits for those who hold one.
LEMMA UnblockedLinks ==
    ASSUME NEW r \in Reqs, ~ Blocked(r), NEW t \in TokensNeeded(r)
    PROVE  tokLock[t] \in {None, r}
  BY DEF Blocked, WaitsFor

LEMMA LinkWriters ==
    ASSUME TypeOK, LinkHeld, NEW r \in Reqs, ConsumeCommit(r) \/ UpdateWrite(r) \/ RemoveWrite(r)
    PROVE  KeepsLinks(r)
<1> DEFINE u == req[r].target
<1>1. Goto(r, "done") /\ Release(r) /\ ~ Blocked(r)
  BY DEF ConsumeCommit, UpdateWrite, RemoveWrite
<1>2. \A q \in Reqs \ {r} : req'[q] = req[q]
  BY <1>1, GotoTypes DEF Stages
<1>3. req'[r].stage = "done"
  BY <1>1, GotoTypes DEF Stages
<1>4. \A t \in Reqs : tokLock[t] # r => tokLock'[t] = tokLock[t]
  BY <1>1 DEF Release, TypeOK
<1>5. ASSUME NEW t \in Reqs, tokLock[t] \notin {None, r}, tok[t].st = "unused"
      PROVE  tok'[t].st = "unused"
  <2>1. t \notin TokensNeeded(r)
    BY <1>1, <1>5, UnblockedLinks
  <2>2. CASE ConsumeCommit(r)
    <3>1. t \notin Outstanding(u)
      BY <2>1, <2>2 DEF ConsumeCommit, TokensNeeded
    <3>2. LinksDeleted(u)[t] = tok[t]
      BY <3>1 DEF LinksDeleted
    <3>3. t # req[r].tid
      BY <1>5, <2>2 DEF ConsumeCommit, LinkHeld
    <3> QED
      BY <1>5, <2>2, <3>2, <3>3, LinksDeletedTypes DEF ConsumeCommit
  <2>3. CASE UpdateWrite(r)
    <3>1. t \in Outstanding(u) => ~ (Disables(r) \/ req[r].patch.newEmail)
      BY <2>1, <2>3 DEF UpdateWrite, TokensNeeded
    <3> QED
      BY <1>5, <2>3, <3>1 DEF UpdateWrite, LinksDeleted
  <2>4. CASE RemoveWrite(r)
    <3>1. tok[t].user # u
      BY <1>5, <2>1, <2>4 DEF RemoveWrite, TokensNeeded, Outstanding
    <3> QED
      BY <1>5, <2>4, <3>1 DEF RemoveWrite
  <2> QED
    BY <2>2, <2>3, <2>4
<1> QED
  BY <1>2, <1>3, <1>4, <1>5 DEF KeepsLinks

LEMMA LinkHeldStep ==
    ASSUME TypeOK, TypeOK', LinkHeld, [Next]_vars
    PROVE  LinkHeld'
<1>1. ASSUME NEW r \in Reqs, ConsumeCommit(r) \/ UpdateWrite(r) \/ RemoveWrite(r)
      PROVE  LinkHeld'
  BY <1>1, LinkWriters, KeepsLinksKeeps
<1>2. ASSUME NEW r \in Reqs, NEW t \in Reqs, ConsumeLockToken(r, t)
      PROVE  LinkHeld'
  <2>1. /\ req'[r].tid = t /\ \A q \in Reqs \ {r} : req'[q] = req[q]
        /\ tokLock'[t] = r /\ tokLock[t] = None /\ tok[t].st = "unused" /\ tok' = tok
        /\ \A k \in Reqs \ {t} : tokLock'[k] = tokLock[k]
    BY <1>2 DEF ConsumeLockToken, TypeOK, NewReq
  <2> QED
    BY <2>1, ConstantsAssumption DEF LinkHeld
<1>3. ASSUME NEW r \in Reqs, ConsumeLockUser(r)
      PROVE  LinkHeld'
  <2>1. CASE Goto(r, "userLocked") /\ UNCHANGED tokLock
    <3>1. req'[r].tid = req[r].tid /\ \A q \in Reqs \ {r} : req'[q] = req[q]
      BY <2>1 DEF Goto, TypeOK, ReqRecord
    <3> QED
      BY <1>3, <2>1, <3>1 DEF ConsumeLockUser, LinkHeld
  <2>2. CASE Goto(r, "done") /\ Release(r)
    BY <1>3, <2>2, GotoTypes, KeepsLinksKeeps DEF ConsumeLockUser, KeepsLinks, Release, TypeOK, Stages
  <2> QED
    BY <1>3, <2>1, <2>2 DEF ConsumeLockUser
<1>4. ASSUME NEW r \in Reqs, InviteToken(r) \/ ForgotToken(r)
      PROVE  LinkHeld'
  <2>1. PICK purpose \in {"invite", "reset"} : IssueLink(r, purpose)
    BY <1>4 DEF InviteToken, ForgotToken
  <2>2. KeepsLinks(r)
    BY <2>1, GotoTypes DEF IssueLink, KeepsLinks, locks, TypeOK, Stages
  <2> QED
    BY <2>2, KeepsLinksKeeps
<1>5. ASSUME NEW r \in Reqs, TxCheck(r) \/ DeadlockAbort(r)
      PROVE  LinkHeld'
  <2>1. /\ Goto(r, "done") \/ Goto(r, "checked")
        /\ Release(r) \/ UNCHANGED tokLock
        /\ UNCHANGED tok
    BY <1>5 DEF TxCheck, DeadlockAbort, locks
  <2>2. KeepsLinks(r)
    BY <2>1, GotoTypes DEF KeepsLinks, Release, TypeOK, Stages
  <2> QED
    BY <2>2, KeepsLinksKeeps
<1>6. ASSUME NEW r \in Reqs,
             \/ \E s \in SessIds : EndOtherSessions(r, s)
             \/ \E c, s \in SessIds : EndSession(r, c, s)
             \/ LoginUpdate(r) \/ LoginInsert(r) \/ ChangeWrite(r) \/ ChangeEndOthers(r)
             \/ TxLock(r)
      PROVE  LinkHeld'
  <2>1. /\ \E stage \in {"done", "signedIn", "hashed", "locked"} : Goto(r, stage)
        /\ UNCHANGED <<tok, tokLock>>
    BY <1>6 DEF EndOtherSessions, EndSession, LoginUpdate, LoginInsert, ChangeWrite,
       ChangeEndOthers, TxLock, locks
  <2>2. KeepsLinks(r)
    BY <2>1, GotoTypes DEF KeepsLinks, Stages
  <2> QED
    BY <2>2, KeepsLinksKeeps
<1>7. ASSUME NEW r \in Reqs,
             \/ \E u \in Users : LoginSelect(r, u) \/ ForgotFind(r, u)
             \/ \E s \in SessIds : ChangeVerify(r, s)
             \/ \E s \in SessIds, u \in Users, ro \in Roles : InviteCreate(r, s, u, ro)
             \/ \E s \in SessIds, t \in Users : RemoveBegin(r, s, t)
             \/ \E s \in SessIds, t \in Users, p \in Patches : UpdateBegin(r, s, t, p)
      PROVE  LinkHeld'
  <2>1. /\ \A q \in Reqs \ {r} : req'[q] = req[q]
        /\ req'[r].stage \notin {"tokenLocked", "userLocked"}
        /\ UNCHANGED <<tok, tokLock>>
    <3> USE DEF NewReq, locks, TypeOK
    <3> DEFINE Quiet == /\ \A q \in Reqs \ {r} : req'[q] = req[q]
                        /\ req'[r].stage \notin {"tokenLocked", "userLocked"}
                        /\ UNCHANGED <<tok, tokLock>>
    <3>1. ASSUME NEW u \in Users, LoginSelect(r, u)
          PROVE  Quiet
      BY <3>1 DEF LoginSelect
    <3>2. ASSUME NEW u \in Users, ForgotFind(r, u)
          PROVE  Quiet
      BY <3>2 DEF ForgotFind
    <3>3. ASSUME NEW s \in SessIds, ChangeVerify(r, s)
          PROVE  Quiet
      BY <3>3 DEF ChangeVerify
    <3>4. ASSUME NEW s \in SessIds, NEW u \in Users, NEW ro \in Roles, InviteCreate(r, s, u, ro)
          PROVE  Quiet
      BY <3>4 DEF InviteCreate
    <3>5. ASSUME NEW s \in SessIds, NEW t \in Users, RemoveBegin(r, s, t)
          PROVE  Quiet
      BY <3>5 DEF RemoveBegin, AdminBegin
    <3>6. ASSUME NEW s \in SessIds, NEW t \in Users, NEW p \in Patches, UpdateBegin(r, s, t, p)
          PROVE  Quiet
      BY <3>6 DEF UpdateBegin, AdminBegin
    <3> QED
      BY <1>7, <3>1, <3>2, <3>3, <3>4, <3>5, <3>6
  <2> QED
    BY <2>1, KeepsLinksKeeps DEF KeepsLinks
<1>8. CASE Crash
  BY <1>8 DEF Crash, LinkHeld, InFlight, TypeOK, ReqRecord
<1>9. CASE UNCHANGED vars
  BY <1>9 DEF vars, LinkHeld
<1> QED
  BY <1>1, <1>2, <1>3, <1>4, <1>5, <1>6, <1>7, <1>8, <1>9 DEF Next, Handler

LEMMA RowsInductive == RowsInv /\ [Next]_vars => RowsInv'
<1> SUFFICES ASSUME RowsInv, [Next]_vars
             PROVE  RowsInv'
  OBVIOUS
<1>1. TypeOK' /\ WellFormed' /\ LinkHeld'
  <2>1. TypeOK' /\ WellFormed'
    BY TypeStep DEF RowsInv
  <2> QED
    BY <2>1, LinkHeldStep DEF RowsInv
<1>2. CASE RowsStep
  BY <1>1, <1>2, RowsStepKeeps
<1>3. ASSUME NEW r \in Reqs, LoginInsert(r)
      PROVE  RowsInv'
  <2>1. req[r].target \in Users
    BY <1>3 DEF LoginInsert, RowsInv, WellFormed, InFlight
  <2>2. \A s \in SessIds : sess'[s].st # "none" => sess'[s].user \in Users /\ Exists(sess'[s].user)
    BY <1>3, <2>1 DEF LoginInsert, RowsInv, TypeOK, SessIds
  <2> QED
    BY <1>1, <1>3, <2>2 DEF LoginInsert, RowsInv, Exists, accounts, NewestUseVoidsOlder
<1>4. ASSUME NEW r \in Reqs, InviteToken(r) \/ ForgotToken(r)
      PROVE  RowsInv'
  <2>1. req[r].target \in Users
    BY <1>4 DEF InviteToken, ForgotToken, RowsInv, WellFormed, InFlight
  <2>2. PICK purpose \in {"invite", "reset"} : IssueLink(r, purpose)
    BY <1>4 DEF InviteToken, ForgotToken
  <2>3. \A t \in Reqs : tok'[t].st # "none" => tok'[t].user \in Users /\ Exists(tok'[t].user)
    BY <2>1, <2>2 DEF IssueLink, RowsInv, TypeOK
  <2>4. \A t \in Reqs : tok'[t].st = "unused" => tok'[t].gen = spent[tok'[t].user]
    BY <2>1, <2>2 DEF IssueLink, RowsInv, TypeOK, NewestUseVoidsOlder
  <2> QED
    BY <1>1, <2>2, <2>3, <2>4 DEF IssueLink, RowsInv, Exists, accounts, NewestUseVoidsOlder
<1>5. ASSUME NEW r \in Reqs, ConsumeCommit(r)
      PROVE  RowsInv'
  <2> DEFINE u == req[r].target
  <2>1. u \in Users
    BY <1>5 DEF ConsumeCommit, RowsInv, WellFormed, InFlight
  <2>2. \A v \in Users : Exists(v) => Exists(v)'
    BY <1>5 DEF ConsumeCommit, RowsInv, TypeOK, Exists
  <2>3. \A s \in SessIds : sess'[s].st # "none" =>
            sess[s].st # "none" /\ sess'[s].user = sess[s].user
    BY <1>5, SessionsEndedTypes DEF ConsumeCommit, RowsInv
  <2>4. \A t \in Reqs : tok'[t].st = "unused" =>
            tok[t].st = "unused" /\ tok'[t].gen = tok[t].gen
               /\ tok'[t].user = tok[t].user /\ tok[t].user # u
    BY <1>5, LinksDeletedTypes DEF ConsumeCommit, RowsInv, TypeOK, TokRecord
  <2>5. \A t \in Reqs : tok'[t].st # "none" => tok'[t].user \in Users /\ Exists(tok'[t].user)
    <3>1. \A t \in Reqs : tok'[t].user = tok[t].user
      BY <1>5, LinksDeletedTypes DEF ConsumeCommit, RowsInv, TypeOK, TokRecord
    <3>2. \A t \in Reqs : tok'[t].st # "none" => tok[t].st # "none"
      BY <1>5 DEF ConsumeCommit, RowsInv, LinkHeld, InFlight, TypeOK, LinksDeleted, Outstanding
    <3> QED
      BY <2>2, <3>1, <3>2 DEF RowsInv, Exists
  <2>6. \A v \in Users \ {u} : spent'[v] = spent[v]
    BY <1>5 DEF ConsumeCommit, RowsInv, TypeOK
  <2> QED
    BY <1>1, <2>1, <2>2, <2>3, <2>4, <2>5, <2>6 DEF RowsInv, NewestUseVoidsOlder
<1>6. ASSUME NEW r \in Reqs, RemoveWrite(r)
      PROVE  RowsInv'
  <2> DEFINE t == req[r].target
  <2>1. t \in Users /\ \A v \in Users \ {t} : status'[v] = status[v]
    BY <1>6 DEF RemoveWrite, RowsInv, WellFormed, InFlight, TypeOK
  <2>2. \A s \in SessIds : sess'[s].st # "none" => sess'[s] = sess[s] /\ sess[s].user # t
    BY <1>6 DEF RemoveWrite, NoSession
  <2>3. \A k \in Reqs : tok'[k].st # "none" => tok'[k] = tok[k] /\ tok[k].user # t
    BY <1>6 DEF RemoveWrite, NoToken
  <2>4. spent' = spent
    BY <1>6 DEF RemoveWrite
  <2> QED
    BY <1>1, <2>1, <2>2, <2>3, <2>4 DEF RowsInv, NewestUseVoidsOlder, Exists
<1>7. CASE Crash \/ UNCHANGED vars
  BY <1>1, <1>7, RowsStepKeeps DEF Crash, vars, accounts, RowsStep, Exists
<1> QED
  BY <1>2, <1>3, <1>4, <1>5, <1>6, <1>7, RowsStepOfHandlers DEF Next

LEMMA RowsInitially == Init => RowsInv
  BY InitTypes, ConstantsAssumption
     DEF Init, RowsInv, NewestUseVoidsOlder, LinkHeld, NewReq, Exists, NoSession, NoToken, SessIds

\* users.service.ts, remove: a deleted account leaves no session and no link,
\* those that handlers in flight were about to insert included.
THEOREM AccountsTakeTheirRows == Spec => []NothingOutlivesTheAccount
<1>1. RowsInv => NothingOutlivesTheAccount
  BY DEF RowsInv, NothingOutlivesTheAccount
<1> QED
  BY <1>1, RowsInitially, RowsInductive, PTL DEF Spec

\* auth.service.ts, consumeToken: once a link of an account was used, no link
\* issued before that can be used.
THEOREM UsedLinksVoidOlder == Spec => []NewestUseVoidsOlder
<1>1. RowsInv => NewestUseVoidsOlder
  BY DEF RowsInv
<1> QED
  BY <1>1, RowsInitially, RowsInductive, PTL DEF Spec

\* auth.service.ts, login: no step of any handler puts an older password back.
THEOREM PasswordsOnlyAdvance == Spec => PasswordNeverReverts
<1>1. TypeOK /\ [Next]_vars => [\A u \in Users : pw'[u] >= pw[u]]_vars
  <2> SUFFICES ASSUME TypeOK, [Next]_vars, NEW u \in Users
               PROVE  pw'[u] >= pw[u]
    OBVIOUS
  <2>1. pw[u] \in Nat
    BY DEF TypeOK
  <2> USE <2>1 DEF accounts, TypeOK
  <2>2. ASSUME NEW r \in Reqs, ChangeWrite(r) \/ ConsumeCommit(r)
        PROVE  pw'[u] >= pw[u]
    BY <2>2 DEF ChangeWrite, ConsumeCommit
  <2>3. ASSUME NEW r \in Reqs, Handler(r), ~ ChangeWrite(r), ~ ConsumeCommit(r)
        PROVE  pw' = pw
    <3>1. CASE \/ \E v \in Users : LoginSelect(r, v) \/ ForgotFind(r, v)
               \/ \E s \in SessIds : EndOtherSessions(r, s) \/ ChangeVerify(r, s)
               \/ \E c, s \in SessIds : EndSession(r, c, s)
               \/ \E s \in SessIds, v \in Users, ro \in Roles : InviteCreate(r, s, v, ro)
               \/ \E t \in Reqs : ConsumeLockToken(r, t)
      BY <3>1 DEF LoginSelect, ForgotFind, EndOtherSessions, ChangeVerify, EndSession,
         InviteCreate, ConsumeLockToken
    <3>2. CASE \/ \E s \in SessIds, t \in Users : RemoveBegin(r, s, t)
               \/ \E s \in SessIds, t \in Users, p \in Patches : UpdateBegin(r, s, t, p)
      BY <3>2 DEF RemoveBegin, UpdateBegin, AdminBegin
    <3>3. CASE LoginUpdate(r) \/ LoginInsert(r) \/ ChangeEndOthers(r) \/ InviteToken(r)
                 \/ ForgotToken(r) \/ ConsumeLockUser(r)
      BY <3>3 DEF LoginUpdate, LoginInsert, ChangeEndOthers, InviteToken, ForgotToken,
         IssueLink, ConsumeLockUser
    <3>4. CASE TxLock(r) \/ TxCheck(r) \/ UpdateWrite(r) \/ RemoveWrite(r) \/ DeadlockAbort(r)
      BY <3>4 DEF TxLock, TxCheck, UpdateWrite, RemoveWrite, DeadlockAbort
    <3> QED
      BY <2>3, <3>1, <3>2, <3>3, <3>4 DEF Handler
  <2>4. CASE Crash \/ UNCHANGED vars
    BY <2>4 DEF Crash, vars
  <2> QED
    BY <2>2, <2>3, <2>4 DEF Next
<1> QED
  BY <1>1, TypeCorrect, PTL DEF Spec, PasswordNeverReverts

-----------------------------------------------------------------------------
(* An active admin is always left                                          *)

InTx(r) == req[r].stage \in {"locked", "checked"}

\* A transaction of update or remove holds its target and some admin row; as
\* it needed every admin row to start, it is alone.
TxHoldsAdminRow ==
    \A r \in Reqs : InTx(r) => /\ lock[req[r].target] = r
                              /\ \E a \in AdminRows : lock[a] = r
OneTx == \A r, q \in Reqs : InTx(r) /\ InTx(q) => r = q

\* A link being spent holds its account, whose status was checked.
SpenderHoldsUser ==
    \A r \in Reqs : req[r].stage = "userLocked" =>
        /\ lock[req[r].target] = r
        /\ status[req[r].target] \in AllowedStatuses(req[r].op)

\* What the rules let through leaves another active admin.
CheckedLeavesCover ==
    \A r \in Reqs : req[r].stage = "checked" /\ TakesCover(r) =>
        UsableAdminsBesides(req[r].target) # {}

\* Which operation a stage belongs to.
StageOps ==
    \A r \in Reqs : /\ InTx(r) => req[r].op \in {"update", "remove"}
                    /\ req[r].stage \in {"tokenLocked", "userLocked"} =>
                          req[r].op \in {"accept", "reset"}
                    /\ req[r].stage = "authorised" => req[r].op \in {"update", "remove"}
                    /\ req[r].op = "remove" => req[r].patch = NoPatch

CoverInv == /\ TypeOK /\ WellFormed /\ AdminCover /\ StageOps
            /\ TxHoldsAdminRow /\ OneTx
            /\ SpenderHoldsUser /\ CheckedLeavesCover

\* A step that writes no users row and takes or frees no row lock.
QuietStep(r) ==
    /\ UNCHANGED <<role, status, lock>>
    /\ \A q \in Reqs \ {r} : req'[q] = req[q]
    /\ req'[r].stage \notin {"locked", "checked", "userLocked"}
    /\ req'[r].stage = "tokenLocked" => req'[r].op \in {"accept", "reset"}
    /\ req'[r].stage = "authorised" => req'[r].op \in {"update", "remove"}
    /\ req'[r].op = "remove" => req'[r].patch = NoPatch

LEMMA QuietActions ==
    ASSUME TypeOK, StageOps, NEW r \in Reqs,
           \/ \E u \in Users : LoginSelect(r, u) \/ ForgotFind(r, u)
           \/ \E s \in SessIds : EndOtherSessions(r, s) \/ ChangeVerify(r, s)
           \/ \E c, s \in SessIds : EndSession(r, c, s)
           \/ \E s \in SessIds, t \in Users : RemoveBegin(r, s, t)
           \/ \E s \in SessIds, t \in Users, p \in Patches : UpdateBegin(r, s, t, p)
           \/ \E t \in Reqs : ConsumeLockToken(r, t)
           \/ LoginUpdate(r) \/ LoginInsert(r)
           \/ ChangeWrite(r) \/ ChangeEndOthers(r)
           \/ InviteToken(r) \/ ForgotToken(r)
    PROVE  QuietStep(r)
<1> USE DEF QuietStep, accounts, locks
<1>1. ASSUME NEW u \in Users, LoginSelect(r, u)
      PROVE  QuietStep(r)
  BY <1>1 DEF TypeOK, LoginSelect, NewReq
<1>7. ASSUME NEW u \in Users, ForgotFind(r, u)
      PROVE  QuietStep(r)
  BY <1>7 DEF TypeOK, ForgotFind, NewReq
<1>8. ASSUME NEW s \in SessIds, ChangeVerify(r, s)
      PROVE  QuietStep(r)
  BY <1>8 DEF TypeOK, ChangeVerify, NewReq
<1>4. ASSUME NEW s \in SessIds, NEW t \in Users, RemoveBegin(r, s, t)
      PROVE  QuietStep(r)
  BY <1>4 DEF TypeOK, RemoveBegin, AdminBegin, NewReq
<1>5. ASSUME NEW s \in SessIds, NEW t \in Users, NEW p \in Patches, UpdateBegin(r, s, t, p)
      PROVE  QuietStep(r)
  BY <1>5 DEF TypeOK, UpdateBegin, AdminBegin, NewReq
<1>6. ASSUME NEW t \in Reqs, ConsumeLockToken(r, t)
      PROVE  QuietStep(r)
  BY <1>6 DEF TypeOK, ConsumeLockToken, NewReq
<1>2. ASSUME NEW stage \in {"done", "signedIn", "hashed"}, Goto(r, stage),
             UNCHANGED <<role, status, lock>>
      PROVE  QuietStep(r)
  BY <1>2, GotoTypes DEF StageOps, Stages
<1>3. CASE \/ \E s \in SessIds : EndOtherSessions(r, s)
           \/ \E c, s \in SessIds : EndSession(r, c, s)
           \/ LoginUpdate(r) \/ LoginInsert(r)
           \/ ChangeWrite(r) \/ ChangeEndOthers(r)
           \/ InviteToken(r) \/ ForgotToken(r)
  BY <1>2, <1>3 DEF EndOtherSessions, EndSession, LoginUpdate, LoginInsert, ChangeWrite,
                    ChangeEndOthers, InviteToken, ForgotToken, IssueLink
<1> QED
  BY <1>1, <1>3, <1>4, <1>5, <1>6, <1>7, <1>8

LEMMA CoverStep ==
    ASSUME CoverInv, [Next]_vars
    PROVE  CoverInv'
<1> USE DEF CoverInv
<1>0. TypeOK' /\ WellFormed'
  BY TypeStep
<1> DEFINE Rest == /\ AdminCover' /\ StageOps' /\ TxHoldsAdminRow' /\ OneTx'
                   /\ SpenderHoldsUser' /\ CheckedLeavesCover'
<1>1. ASSUME NEW r \in Reqs, QuietStep(r)
      PROVE  Rest
  BY <1>1 DEF QuietStep, AdminCover, ActiveAdmin, StageOps, InTx, TxHoldsAdminRow,
              AdminRows, Exists, OneTx, SpenderHoldsUser, CheckedLeavesCover, TakesCover,
              ChangesRole, Disables, UsableAdminsBesides
\* A request that ends and frees its rows.
<1>20. ASSUME NEW r \in Reqs, Goto(r, "done"), Release(r), UNCHANGED <<role, status>>
       PROVE  Rest
  <2>1. /\ req'[r].stage = "done" /\ req'[r].op = req[r].op /\ req'[r].patch = req[r].patch
        /\ \A q \in Reqs \ {r} : req'[q] = req[q]
        /\ \A u \in Users : lock[u] # r => lock'[u] = lock[u]
    BY <1>20, GotoTypes, ReleaseTypes DEF Stages
  <2>2. AdminCover' /\ StageOps' /\ OneTx'
    BY <1>20, <2>1 DEF AdminCover, ActiveAdmin, StageOps, OneTx, InTx
  <2>3. TxHoldsAdminRow' /\ SpenderHoldsUser'
    BY <1>20, <2>1 DEF TxHoldsAdminRow, SpenderHoldsUser, InTx, AdminRows, Exists,
                       WellFormed, InFlight
  <2>4. CheckedLeavesCover'
    BY <1>20, <2>1 DEF CheckedLeavesCover, TakesCover, ChangesRole, Disables, ActiveAdmin,
                       UsableAdminsBesides
  <2> QED
    BY <2>2, <2>3, <2>4
<1>2. ASSUME NEW r \in Reqs, NEW s \in SessIds, NEW u \in Users, NEW ro \in Roles,
             InviteCreate(r, s, u, ro)
      PROVE  Rest
  <2>1. /\ UNCHANGED lock /\ ~Exists(u)
        /\ \A v \in Users \ {u} : role'[v] = role[v] /\ status'[v] = status[v]
        /\ status'[u] = "invited"
        /\ \A q \in Reqs \ {r} : req'[q] = req[q]
        /\ req'[r].stage = "created" /\ req'[r].op = "invite"
    <3>1. /\ UNCHANGED lock /\ ~Exists(u)
          /\ \A v \in Users \ {u} : role'[v] = role[v] /\ status'[v] = status[v]
          /\ status'[u] = "invited"
      BY <1>2 DEF InviteCreate, TypeOK, Exists, locks
    <3>2. /\ \A q \in Reqs \ {r} : req'[q] = req[q]
          /\ req'[r].stage = "created" /\ req'[r].op = "invite"
      BY <1>2 DEF InviteCreate, TypeOK, NewReq
    <3> QED
      BY <3>1, <3>2
  <2>2. AdminCover' /\ StageOps' /\ OneTx'
    BY <2>1 DEF AdminCover, ActiveAdmin, Exists, StageOps, OneTx, InTx
  <2>3. TxHoldsAdminRow'
    BY <2>1 DEF TxHoldsAdminRow, InTx, AdminRows, Exists
  <2>4. SpenderHoldsUser'
    BY <2>1 DEF SpenderHoldsUser, AllowedStatuses, Exists, WellFormed, InFlight
  <2>5. CheckedLeavesCover'
    BY <2>1 DEF CheckedLeavesCover, TakesCover, ChangesRole, Disables, ActiveAdmin,
                UsableAdminsBesides, WellFormed, InFlight, Exists
  <2> QED
    BY <2>2, <2>3, <2>4, <2>5
<1>3. ASSUME NEW r \in Reqs, ConsumeLockUser(r)
      PROVE  Rest
  <2> DEFINE t == req[r].target
  <2>1. CASE status[t] \notin AllowedStatuses(req[r].op)
    BY <1>3, <1>20, <2>1 DEF ConsumeLockUser, accounts
  <2>2. CASE status[t] \in AllowedStatuses(req[r].op)
    <3>1. /\ t \in Users /\ lock[t] \in {None, r} /\ ~InTx(r)
      BY <1>3 DEF ConsumeLockUser, Blocked, WaitsFor, RowsNeeded, WellFormed, InFlight, InTx
    <3>2. /\ req[r].stage = "tokenLocked" /\ req'[r].stage = "userLocked"
          /\ req'[r].op = req[r].op /\ req'[r].patch = req[r].patch
          /\ req'[r].target = t
          /\ \A q \in Reqs \ {r} : req'[q] = req[q]
          /\ UNCHANGED <<role, status>> /\ lock' = [lock EXCEPT ![t] = r]
      BY <1>3, <2>2, GotoTypes DEF ConsumeLockUser, accounts, Stages
    <3>3. /\ lock'[t] = r
          /\ \A u \in Users : lock[u] \notin {None, r} => lock'[u] = lock[u]
      BY <3>1, <3>2 DEF TypeOK
    <3>4. AdminCover' /\ StageOps' /\ OneTx'
      BY <3>2 DEF AdminCover, ActiveAdmin, StageOps, OneTx, InTx
    <3>5. TxHoldsAdminRow' /\ SpenderHoldsUser'
      BY <2>2, <3>2, <3>3, ConstantsAssumption
         DEF TxHoldsAdminRow, SpenderHoldsUser, InTx, AdminRows, Exists, WellFormed, InFlight
    <3>6. CheckedLeavesCover'
      BY <3>2 DEF CheckedLeavesCover, TakesCover, ChangesRole, Disables, ActiveAdmin,
                  UsableAdminsBesides
    <3> QED
      BY <3>4, <3>5, <3>6
  <2> QED
    BY <2>1, <2>2
<1>4. ASSUME NEW r \in Reqs, ConsumeCommit(r)
      PROVE  Rest
  <2> DEFINE t == req[r].target
  <2>1. /\ t \in Users /\ lock[t] = r /\ status[t] \in {"invited", "active"}
        /\ req[r].stage = "userLocked"
    BY <1>4 DEF ConsumeCommit, SpenderHoldsUser, AllowedStatuses, WellFormed, InFlight
  <2>2. /\ UNCHANGED role
        /\ \A u \in Users \ {t} : status'[u] = status[u]
        /\ status'[t] \in {status[t], "active"}
    BY <1>4 DEF ConsumeCommit, TypeOK
  <2>3. /\ req'[r].stage = "done" /\ req'[r].op = req[r].op /\ req'[r].patch = req[r].patch
        /\ \A q \in Reqs \ {r} : req'[q] = req[q]
        /\ \A u \in Users : lock[u] # r => lock'[u] = lock[u]
    BY <1>4, GotoTypes, ReleaseTypes DEF ConsumeCommit, Stages
  <2>4. AdminCover' /\ StageOps' /\ OneTx'
    BY <2>1, <2>2, <2>3 DEF AdminCover, ActiveAdmin, StageOps, OneTx, InTx
  <2>5. TxHoldsAdminRow'
    BY <2>1, <2>2, <2>3 DEF TxHoldsAdminRow, InTx, AdminRows, Exists, WellFormed, InFlight
  <2>6. SpenderHoldsUser'
    BY <2>1, <2>2, <2>3 DEF SpenderHoldsUser, WellFormed, InFlight
  <2>7. CheckedLeavesCover'
    BY <2>1, <2>2, <2>3
       DEF CheckedLeavesCover, TakesCover, ChangesRole, Disables, ActiveAdmin,
           UsableAdminsBesides, TxHoldsAdminRow, InTx, WellFormed, InFlight
  <2> QED
    BY <2>4, <2>5, <2>6, <2>7
<1>5. ASSUME NEW r \in Reqs, TxLock(r)
      PROVE  Rest
  <2> DEFINE t == req[r].target
  <2>1. /\ t \in Users /\ req[r].stage = "authorised"
        /\ \A u \in AdminRows \cup {t} : lock[u] \in {None, r}
    BY <1>5 DEF TxLock, Blocked, WaitsFor, RowsNeeded, WellFormed, InFlight
  <2>2. /\ req'[r].stage = "locked" /\ req'[r].op = req[r].op /\ req'[r].patch = req[r].patch
        /\ req'[r].target = t
        /\ \A q \in Reqs \ {r} : req'[q] = req[q]
        /\ UNCHANGED <<role, status>>
    BY <1>5, GotoTypes DEF TxLock, accounts, Stages
  <2>3. /\ \A u \in AdminRows \cup {t} : lock'[u] = r
        /\ \A u \in Users : lock[u] \notin {None, r} => lock'[u] = lock[u]
    BY <1>5, <2>1 DEF TxLock, RowsNeeded, AdminRows
  <2>4. \A q \in Reqs \ {r} : ~InTx(q)
    BY <2>1, ConstantsAssumption DEF TxHoldsAdminRow
  <2>5. \E a \in AdminRows : lock'[a] = r
    BY <2>3 DEF AdminCover, ActiveAdmin, AdminRows, Exists
  <2>6. AdminCover' /\ StageOps'
    BY <2>1, <2>2 DEF AdminCover, ActiveAdmin, StageOps, InTx
  <2>7. OneTx'
    BY <2>2, <2>4 DEF OneTx, InTx
  <2>8. TxHoldsAdminRow'
    BY <2>2, <2>3, <2>4, <2>5 DEF TxHoldsAdminRow, InTx, AdminRows, Exists
  <2>9. SpenderHoldsUser'
    BY <2>2, <2>3, ConstantsAssumption DEF SpenderHoldsUser, WellFormed, InFlight
  <2>10. CheckedLeavesCover'
    BY <2>2 DEF CheckedLeavesCover, TakesCover, ChangesRole, Disables, ActiveAdmin,
                UsableAdminsBesides
  <2> QED
    BY <2>6, <2>7, <2>8, <2>9, <2>10
<1>6. ASSUME NEW r \in Reqs, TxCheck(r)
      PROVE  Rest
  <2>1. CASE Refused(r) /\ Release(r) /\ Goto(r, "done")
    BY <1>6, <1>20, <2>1 DEF TxCheck, accounts
  <2>2. CASE ~Refused(r) /\ Goto(r, "checked") /\ UNCHANGED locks
    <3>1. /\ req[r].stage = "locked" /\ req'[r].stage = "checked"
          /\ req'[r].op = req[r].op /\ req'[r].patch = req[r].patch
          /\ req'[r].target = req[r].target
          /\ \A q \in Reqs \ {r} : req'[q] = req[q]
          /\ UNCHANGED <<role, status, lock>>
      BY <1>6, <2>2, GotoTypes DEF TxCheck, accounts, locks, Stages
    <3>2. AdminCover' /\ StageOps' /\ OneTx'
      BY <3>1 DEF AdminCover, ActiveAdmin, StageOps, OneTx, InTx
    <3>3. TxHoldsAdminRow' /\ SpenderHoldsUser'
      BY <3>1 DEF TxHoldsAdminRow, SpenderHoldsUser, InTx, AdminRows, Exists
    <3>4. CheckedLeavesCover'
      BY <2>2, <3>1 DEF Refused, CheckedLeavesCover, TakesCover, ChangesRole, Disables,
                        ActiveAdmin, UsableAdminsBesides
    <3> QED
      BY <3>2, <3>3, <3>4
  <2> QED
    BY <1>6, <2>1, <2>2 DEF TxCheck
<1>7. ASSUME NEW r \in Reqs, UpdateWrite(r)
      PROVE  Rest
  <2> DEFINE t == req[r].target
  <2>1. /\ t \in Users /\ req[r].stage = "checked" /\ InTx(r)
        /\ req[r].op = "update" /\ req[r].patch \in PatchSpace
    BY <1>7 DEF UpdateWrite, WellFormed, InFlight, InTx, TypeOK, ReqRecord
  <2>2. /\ \A u \in Users \ {t} : role'[u] = role[u] /\ status'[u] = status[u]
        /\ role'[t] = PatchedRole(req[r].patch, role[t])
        /\ status'[t] = PatchedStatus(req[r].patch, status[t])
    BY <1>7, <2>1 DEF UpdateWrite, TypeOK, PatchedRole, PatchedStatus
  <2>3. /\ req'[r].stage = "done" /\ req'[r].op = req[r].op /\ req'[r].patch = req[r].patch
        /\ \A q \in Reqs \ {r} : req'[q] = req[q]
        /\ \A u \in Users : lock[u] # r => lock'[u] = lock[u]
    BY <1>7, GotoTypes, ReleaseTypes DEF UpdateWrite, Stages
  <2>4. \A q \in Reqs : ~InTx(q)'
    BY <2>1, <2>3 DEF OneTx, InTx
  <2>5. AdminCover'
    <3>1. CASE TakesCover(r)
      BY <2>1, <2>2, <3>1 DEF CheckedLeavesCover, UsableAdminsBesides, AdminCover, ActiveAdmin
    <3>2. CASE ~ActiveAdmin(t)
      BY <2>1, <2>2, <3>2 DEF AdminCover, ActiveAdmin
    <3>3. CASE ActiveAdmin(t) /\ ~TakesCover(r)
      <4>1. role'[t] = "admin" /\ status'[t] = "active"
        BY <2>1, <2>2, <3>3 DEF TakesCover, ChangesRole, Disables, ActiveAdmin, PatchedRole,
                                PatchedStatus, PatchSpace, Roles, Keep
      <4> QED
        BY <2>1, <4>1 DEF AdminCover, ActiveAdmin
    <3> QED
      BY <3>1, <3>2, <3>3
  <2>6. StageOps' /\ OneTx' /\ TxHoldsAdminRow'
    BY <2>3, <2>4 DEF StageOps, OneTx, TxHoldsAdminRow, InTx
  <2>7. SpenderHoldsUser'
    BY <2>1, <2>2, <2>3 DEF SpenderHoldsUser, TxHoldsAdminRow, InTx, WellFormed, InFlight
  <2>8. CheckedLeavesCover'
    BY <2>4 DEF CheckedLeavesCover, InTx
  <2> QED
    BY <2>5, <2>6, <2>7, <2>8
<1>8. ASSUME NEW r \in Reqs, RemoveWrite(r)
      PROVE  Rest
  <2> DEFINE t == req[r].target
  <2>1. /\ t \in Users /\ req[r].stage = "checked" /\ InTx(r) /\ req[r].op = "remove"
    BY <1>8 DEF RemoveWrite, WellFormed, InFlight, InTx
  <2>2. /\ UNCHANGED role
        /\ \A u \in Users \ {t} : status'[u] = status[u]
    BY <1>8 DEF RemoveWrite, TypeOK
  <2>3. /\ req'[r].stage = "done" /\ req'[r].op = req[r].op /\ req'[r].patch = req[r].patch
        /\ \A q \in Reqs \ {r} : req'[q] = req[q]
        /\ \A u \in Users : lock[u] # r => lock'[u] = lock[u]
    BY <1>8, GotoTypes, ReleaseTypes DEF RemoveWrite, Stages
  <2>4. \A q \in Reqs : ~InTx(q)'
    BY <2>1, <2>3 DEF OneTx, InTx
  <2>5. AdminCover'
    <3>1. CASE ActiveAdmin(t)
      BY <2>1, <2>2, <3>1 DEF TakesCover, CheckedLeavesCover, UsableAdminsBesides, AdminCover,
                              ActiveAdmin
    <3>2. CASE ~ActiveAdmin(t)
      BY <2>1, <2>2, <3>2 DEF AdminCover, ActiveAdmin
    <3> QED
      BY <3>1, <3>2
  <2>6. StageOps' /\ OneTx' /\ TxHoldsAdminRow'
    BY <2>3, <2>4 DEF StageOps, OneTx, TxHoldsAdminRow, InTx
  <2>7. SpenderHoldsUser'
    BY <2>1, <2>2, <2>3 DEF SpenderHoldsUser, TxHoldsAdminRow, InTx, WellFormed, InFlight
  <2>8. CheckedLeavesCover'
    BY <2>4 DEF CheckedLeavesCover, InTx
  <2> QED
    BY <2>5, <2>6, <2>7, <2>8
<1>9. ASSUME NEW r \in Reqs, DeadlockAbort(r)
      PROVE  Rest
  BY <1>9, <1>20 DEF DeadlockAbort, accounts
<1>10. ASSUME Crash
      PROVE  Rest
  <2>1. \A r \in Reqs : /\ req'[r].stage \in {"new", "done"}
                         /\ req'[r].op = req[r].op /\ req'[r].patch = req[r].patch
    BY <1>10 DEF Crash, InFlight, TypeOK, ReqRecord
  <2>2. UNCHANGED <<role, status>>
    BY <1>10 DEF Crash, accounts
  <2>3. AdminCover'
    BY <2>2 DEF AdminCover, ActiveAdmin
  <2>4. StageOps' /\ OneTx' /\ TxHoldsAdminRow'
    BY <2>1 DEF StageOps, OneTx, InTx, TxHoldsAdminRow
  <2>5. SpenderHoldsUser' /\ CheckedLeavesCover'
    BY <2>1 DEF SpenderHoldsUser, CheckedLeavesCover
  <2> QED
    BY <2>3, <2>4, <2>5
<1>11. ASSUME UNCHANGED <<role, status, lock, req>>
       PROVE  Rest
  <2>1. AdminCover' /\ StageOps' /\ OneTx'
    BY <1>11 DEF AdminCover, ActiveAdmin, StageOps, OneTx, InTx
  <2>2. TxHoldsAdminRow' /\ SpenderHoldsUser'
    BY <1>11 DEF TxHoldsAdminRow, SpenderHoldsUser, InTx, AdminRows, Exists
  <2>3. CheckedLeavesCover'
    BY <1>11 DEF CheckedLeavesCover, TakesCover, ChangesRole, Disables, ActiveAdmin,
                 UsableAdminsBesides
  <2> QED
    BY <2>1, <2>2, <2>3
<1>12. ASSUME NEW r \in Reqs, Handler(r)
       PROVE  Rest
  BY <1>1, <1>2, <1>3, <1>4, <1>5, <1>6, <1>7, <1>8, <1>9, <1>12, QuietActions DEF Handler
<1> QED
  BY <1>0, <1>10, <1>11, <1>12 DEF Next, vars

LEMMA CoverInit == Init => CoverInv
<1>1. Init => TypeOK /\ WellFormed
  BY InitTypes
<1>2. Init => AdminCover
  BY ConstantsAssumption DEF Init, AdminCover, ActiveAdmin
<1>3. Init => StageOps /\ TxHoldsAdminRow /\ OneTx /\ SpenderHoldsUser /\ CheckedLeavesCover
  BY DEF Init, NewReq, StageOps, TxHoldsAdminRow, OneTx, SpenderHoldsUser,
         CheckedLeavesCover, InTx
<1> QED
  BY <1>1, <1>2, <1>3 DEF CoverInv

LEMMA CoverInvariant == Spec => []CoverInv
  BY CoverInit, CoverStep, PTL DEF Spec

\* users.service.ts (FR-A-03, B1-9): however demotions, disables, deletes and
\* all the other handlers interleave, crash or are rolled back, an active admin
\* is left.
THEOREM AdminAlwaysLeft == Spec => []AdminCover
<1>1. CoverInv => AdminCover
  BY DEF CoverInv
<1> QED
  BY <1>1, CoverInvariant, PTL

-----------------------------------------------------------------------------
(* How a disabled account comes back                                       *)

\* Only three actions write users.status.
LEMMA StatusWriters ==
    ASSUME TypeOK, NEW r \in Reqs, Handler(r), NEW u \in Users,
           status[u] = "disabled", status'[u] = "active"
    PROVE  ConsumeCommit(r) \/ UpdateWrite(r)
<1> USE DEF accounts
<1>1. CASE \/ \E v \in Users : LoginSelect(r, v) \/ ForgotFind(r, v)
           \/ \E s \in SessIds : EndOtherSessions(r, s) \/ ChangeVerify(r, s)
           \/ \E c, s \in SessIds : EndSession(r, c, s)
           \/ \E t \in Reqs : ConsumeLockToken(r, t)
  BY <1>1 DEF LoginSelect, ForgotFind, EndOtherSessions, ChangeVerify, EndSession, ConsumeLockToken
<1>2. CASE \/ \E s \in SessIds, t \in Users : RemoveBegin(r, s, t)
           \/ \E s \in SessIds, t \in Users, p \in Patches : UpdateBegin(r, s, t, p)
  BY <1>2 DEF RemoveBegin, UpdateBegin, AdminBegin
<1>3. CASE LoginUpdate(r) \/ LoginInsert(r) \/ ChangeWrite(r) \/ ChangeEndOthers(r)
             \/ InviteToken(r) \/ ForgotToken(r) \/ ConsumeLockUser(r)
  BY <1>3 DEF LoginUpdate, LoginInsert, ChangeWrite, ChangeEndOthers, InviteToken, ForgotToken,
     IssueLink, ConsumeLockUser
<1>4. CASE TxLock(r) \/ TxCheck(r) \/ DeadlockAbort(r)
  BY <1>4 DEF TxLock, TxCheck, DeadlockAbort
<1>5. CASE RemoveWrite(r)
  BY <1>5 DEF RemoveWrite, TypeOK
<1>6. CASE \E s \in SessIds, v \in Users, ro \in Roles : InviteCreate(r, s, v, ro)
  BY <1>6 DEF InviteCreate, TypeOK
<1> QED
  BY <1>1, <1>2, <1>3, <1>4, <1>5, <1>6 DEF Handler

\* C3 (auth.service.ts, acceptInvite and resetPassword): only the commit of an
\* update that asks for it makes a disabled account active.
THEOREM DisabledUntilAdminEnables == Spec => OnlyAdminReenables
<1>1. CoverInv /\ [Next]_vars =>
        [\A u \in Users :
           status[u] = "disabled" /\ status'[u] = "active" =>
              \E r \in Reqs : /\ req[r].op = "update" /\ req[r].target = u
                             /\ req[r].patch.status = "active"
                             /\ req[r].stage = "checked" /\ req'[r].stage = "done"]_vars
  <2> SUFFICES ASSUME CoverInv, [Next]_vars, NEW u \in Users,
                      status[u] = "disabled", status'[u] = "active"
               PROVE  \E r \in Reqs : /\ req[r].op = "update" /\ req[r].target = u
                                      /\ req[r].patch.status = "active"
                                      /\ req[r].stage = "checked" /\ req'[r].stage = "done"
    OBVIOUS
  <2>1. TypeOK
    BY DEF CoverInv
  <2>2. PICK r \in Reqs : Handler(r)
    BY DEF Next, Crash, vars, accounts
  <2>3. ~ ConsumeCommit(r)
    <3> SUFFICES ASSUME ConsumeCommit(r)
                 PROVE  FALSE
      OBVIOUS
    <3>1. req[r].stage = "userLocked"
      BY DEF ConsumeCommit
    <3>2. status[req[r].target] \in AllowedStatuses(req[r].op)
      BY <3>1 DEF CoverInv, SpenderHoldsUser
    <3>3. req[r].op = "accept" /\ req[r].target = u
      BY <2>1 DEF ConsumeCommit, TypeOK
    <3> QED
      BY <3>2, <3>3 DEF AllowedStatuses
  <2>4. UpdateWrite(r)
    BY <2>1, <2>2, <2>3, StatusWriters
  <2>5. req'[r].stage = "done"
    BY <2>1, <2>4, GotoTypes DEF UpdateWrite, Stages
  <2>6. req[r].target = u /\ PatchedStatus(req[r].patch, status[u]) = "active"
    BY <2>1, <2>4 DEF UpdateWrite, TypeOK
  <2>7. req[r].patch.status = "active"
    BY <2>6 DEF PatchedStatus
  <2> QED
    BY <2>4, <2>5, <2>6, <2>7 DEF UpdateWrite
<1> QED
  BY <1>1, CoverInvariant, PTL DEF Spec, OnlyAdminReenables

-----------------------------------------------------------------------------
(* Every wait ends                                                         *)

HoldsUser(r) == req[r].stage \in {"userLocked", "locked", "checked"}
HoldsLink(r) == req[r].stage \in {"tokenLocked", "userLocked"}

\* A row lock is held by a handler that has got past taking it and has not
\* ended, such a handler holds the row it works on, and a link held is of
\* that account.  A handler issues its link with its last statement.
LocksHeld ==
    /\ \A u \in Users : lock[u] # None => HoldsUser(lock[u])
    /\ \A t \in Reqs : tokLock[t] # None => HoldsLink(tokLock[t]) /\ req[tokLock[t]].tid = t
    /\ \A r \in Reqs : HoldsUser(r) => lock[req[r].target] = r
    /\ \A r \in Reqs : HoldsLink(r) => tok[req[r].tid].user = req[r].target
    /\ \A r \in Reqs : req[r].stage # "done" => tok[r].st = "none"

LEMMA UnblockedRows ==
    ASSUME NEW r \in Reqs, ~ Blocked(r), NEW u \in RowsNeeded(r)
    PROVE  lock[u] \in {None, r}
  BY DEF Blocked, WaitsFor

\* What a step of r does to the links: those that another handler holds keep
\* their account, and only a handler's last statement issues or deletes one.
LinksStep(r) ==
    /\ \A t \in Reqs : tokLock[t] \notin {None, r} => tok'[t].user = tok[t].user
    /\ \A q \in Reqs \ {r} : tok[q].st = "none" => tok'[q].st = "none"
    /\ tok' = tok \/ req'[r].stage = "done"

LEMMA HandlerLinks ==
    ASSUME RowsInv, LocksHeld, NEW r \in Reqs, Handler(r)
    PROVE  LinksStep(r)
<1>0. TypeOK /\ LinkHeld
  BY DEF RowsInv
<1>1. CASE tok' = tok
  BY <1>1 DEF LinksStep
<1>2. ASSUME InviteToken(r) \/ ForgotToken(r)
      PROVE  LinksStep(r)
  <2>1. PICK purpose \in {"invite", "reset"} : IssueLink(r, purpose)
    BY <1>2 DEF InviteToken, ForgotToken
  <2>2. req'[r].stage = "done"
    BY <1>0, <2>1, GotoTypes DEF IssueLink, Stages
  <2>3. tok[r].st = "none"
    BY <1>2 DEF LocksHeld, InviteToken, ForgotToken
  <2>4. \A t \in Reqs : t # r => tok'[t] = tok[t]
    BY <1>0, <2>1 DEF IssueLink, TypeOK
  <2>5. tokLock[r] = None
    BY <1>0, <2>3 DEF LocksHeld, LinkHeld, HoldsLink, TypeOK
  <2> QED
    BY <2>2, <2>4, <2>5 DEF LinksStep
<1>3. ASSUME ConsumeCommit(r) \/ UpdateWrite(r)
      PROVE  LinksStep(r)
  <2>1. req'[r].stage = "done"
    BY <1>0, <1>3, GotoTypes DEF ConsumeCommit, UpdateWrite, Stages
  <2>2. \A t \in Reqs : /\ LinksDeleted(req[r].target)[t].user = tok[t].user
                        /\ tok[t].st = "none" => LinksDeleted(req[r].target)[t].st = "none"
    BY <1>0 DEF LinksDeleted, Outstanding, TypeOK, TokRecord
  <2>3. LinksDeleted(req[r].target) \in [Reqs -> TokRecord]
    BY <1>0, LinksDeletedTypes
  <2>4. CASE ConsumeCommit(r)
    <3> DEFINE k == req[r].tid
               rest == LinksDeleted(req[r].target)
               e == [tok[k] EXCEPT !.st = "used"]
    <3>1. k \in Reqs /\ tok[k].st = "unused"
      BY <1>0, <2>4 DEF LinkHeld, ConsumeCommit
    <3>2. e.user = tok[k].user
      BY <1>0, <3>1 DEF TypeOK, TokRecord
    <3>3. tok' = [rest EXCEPT ![k] = e]
      BY <2>4 DEF ConsumeCommit
    <3> HIDE DEF rest, e, k
    <3>4. \A t \in Reqs : tok'[t] = IF t = k THEN e ELSE rest[t]
      BY <2>3, <3>3 DEF rest
    <3>5. \A t \in Reqs : /\ tok'[t].user = tok[t].user
                          /\ tok[t].st = "none" => tok'[t].st = "none"
      BY <2>2, <3>1, <3>2, <3>4 DEF rest
    <3> QED
      BY <2>1, <3>5 DEF LinksStep
  <2>5. CASE UpdateWrite(r)
    BY <2>1, <2>2, <2>5 DEF UpdateWrite, LinksStep
  <2> QED
    BY <1>3, <2>4, <2>5
<1>4. ASSUME RemoveWrite(r)
      PROVE  LinksStep(r)
  <2>1. req'[r].stage = "done"
    BY <1>0, <1>4, GotoTypes DEF RemoveWrite, Stages
  <2>2. \A t \in Reqs : tok'[t] = IF tok[t].user = req[r].target THEN NoToken ELSE tok[t]
    BY <1>4 DEF RemoveWrite
  <2>3. ASSUME NEW t \in Reqs, tokLock[t] \notin {None, r}
        PROVE  tok[t].user # req[r].target
    <3>1. tok[t].st = "unused"
      BY <1>0, <2>3 DEF LocksHeld, HoldsLink, LinkHeld, TypeOK
    <3>2. t \notin TokensNeeded(r)
      BY <1>4, <2>3, UnblockedLinks DEF RemoveWrite
    <3> QED
      BY <1>4, <3>1, <3>2 DEF RemoveWrite, TokensNeeded, Outstanding
  <2> QED
    BY <2>1, <2>2, <2>3 DEF LinksStep, NoToken
<1>5. CASE \/ \E u \in Users : LoginSelect(r, u) \/ ForgotFind(r, u)
           \/ \E s \in SessIds : EndOtherSessions(r, s) \/ ChangeVerify(r, s)
           \/ \E c, s \in SessIds : EndSession(r, c, s)
           \/ \E s \in SessIds, u \in Users, ro \in Roles : InviteCreate(r, s, u, ro)
           \/ \E s \in SessIds, t \in Users : RemoveBegin(r, s, t)
           \/ \E s \in SessIds, t \in Users, p \in Patches : UpdateBegin(r, s, t, p)
           \/ \E t \in Reqs : ConsumeLockToken(r, t)
           \/ LoginUpdate(r) \/ LoginInsert(r) \/ ChangeWrite(r) \/ ChangeEndOthers(r)
           \/ ConsumeLockUser(r) \/ TxLock(r) \/ TxCheck(r) \/ DeadlockAbort(r)
  <2>1. tok' = tok
    BY <1>5 DEF LoginSelect, ForgotFind, EndOtherSessions, ChangeVerify, EndSession, InviteCreate,
       RemoveBegin, UpdateBegin, AdminBegin, ConsumeLockToken, LoginUpdate, LoginInsert,
       ChangeWrite, ChangeEndOthers, ConsumeLockUser, TxLock, TxCheck, DeadlockAbort
  <2> QED
    BY <2>1, <1>1
<1> QED
  BY <1>2, <1>3, <1>4, <1>5 DEF Handler

\* A step that neither takes nor frees a lock.
LockFree(r) ==
    /\ ~ HoldsUser(r) /\ ~ HoldsLink(r)
    /\ req'[r].stage \notin {"userLocked", "locked", "checked", "tokenLocked"}
    /\ UNCHANGED locks

\* What a step of r does to the other handlers and to the locks.
LEMMA HandlerLocks ==
    ASSUME TypeOK, NEW r \in Reqs, Handler(r)
    PROVE  /\ \A q \in Reqs \ {r} : req'[q] = req[q]
           /\ req[r].stage # "done"
           /\ \/ LockFree(r)
              \/ Goto(r, "done") /\ Release(r)
              \/ \E t \in Reqs : ConsumeLockToken(r, t)
              \/ ConsumeLockUser(r) /\ Goto(r, "userLocked")
              \/ TxLock(r)
              \/ TxCheck(r) /\ Goto(r, "checked") /\ UNCHANGED locks
<1> DEFINE Goal == /\ \A q \in Reqs \ {r} : req'[q] = req[q]
                   /\ req[r].stage # "done"
                   /\ \/ LockFree(r)
                      \/ Goto(r, "done") /\ Release(r)
                      \/ \E t \in Reqs : ConsumeLockToken(r, t)
                      \/ ConsumeLockUser(r) /\ Goto(r, "userLocked")
                      \/ TxLock(r)
                      \/ TxCheck(r) /\ Goto(r, "checked") /\ UNCHANGED locks
<1>0. ASSUME NEW x, req' = [req EXCEPT ![r] = x]
      PROVE  req'[r] = x /\ \A q \in Reqs \ {r} : req'[q] = req[q]
  BY <1>0 DEF TypeOK
<1>1. ASSUME NEW x, req' = [req EXCEPT ![r] = x], req[r].stage = "new",
             x.stage \notin {"userLocked", "locked", "checked", "tokenLocked"},
             UNCHANGED locks
      PROVE  Goal
  BY <1>0, <1>1 DEF LockFree, HoldsUser, HoldsLink
<1>2. ASSUME NEW stage \in Stages, Goto(r, stage), UNCHANGED locks,
             req[r].stage \notin {"done", "userLocked", "locked", "checked", "tokenLocked"},
             stage \notin {"userLocked", "locked", "checked", "tokenLocked"}
      PROVE  Goal
  BY <1>2, GotoTypes DEF LockFree, HoldsUser, HoldsLink
<1>3. ASSUME NEW stage \in Stages, Goto(r, stage), req[r].stage # "done",
             \/ stage = "done" /\ Release(r)
             \/ ConsumeLockUser(r) /\ stage = "userLocked"
             \/ TxLock(r)
             \/ TxCheck(r) /\ stage = "checked" /\ UNCHANGED locks
      PROVE  Goal
  BY <1>3, GotoTypes
<1> HIDE DEF Goal
<1>4. ASSUME NEW u \in Users, LoginSelect(r, u)
      PROVE  Goal
  <2> DEFINE x == [NewReq EXCEPT !.op = "login", !.stage = "verified", !.target = u, !.pw = pw[u]]
  <2>1. req' = [req EXCEPT ![r] = x] /\ req[r].stage = "new" /\ UNCHANGED locks
    BY <1>4 DEF LoginSelect
  <2>2. x.stage = "verified"
    BY DEF NewReq
  <2> HIDE DEF x
  <2> QED
    BY <2>1, <2>2, <1>1
<1>5. ASSUME NEW u \in Users, ForgotFind(r, u)
      PROVE  Goal
  <2> DEFINE x == [NewReq EXCEPT !.op = "forgot", !.stage = "found", !.target = u, !.email = email[u]]
  <2>1. req' = [req EXCEPT ![r] = x] /\ req[r].stage = "new" /\ UNCHANGED locks
    BY <1>5 DEF ForgotFind
  <2>2. x.stage = "found"
    BY DEF NewReq
  <2> HIDE DEF x
  <2> QED
    BY <2>1, <2>2, <1>1
<1>6. ASSUME NEW s \in SessIds, ChangeVerify(r, s)
      PROVE  Goal
  <2> DEFINE x == [NewReq EXCEPT !.op = "password", !.stage = "changing",
                                 !.target = sess[s].user, !.sid = s]
  <2>1. req' = [req EXCEPT ![r] = x] /\ req[r].stage = "new" /\ UNCHANGED locks
    BY <1>6 DEF ChangeVerify
  <2>2. x.stage = "changing"
    BY DEF NewReq
  <2> HIDE DEF x
  <2> QED
    BY <2>1, <2>2, <1>1
<1>7. ASSUME NEW s \in SessIds, NEW u \in Users, NEW ro \in Roles, InviteCreate(r, s, u, ro)
      PROVE  Goal
  <2> DEFINE x == [NewReq EXCEPT !.op = "invite", !.stage = "created",
                                 !.target = u, !.email = email[u]]
  <2>1. req' = [req EXCEPT ![r] = x] /\ req[r].stage = "new" /\ UNCHANGED locks
    BY <1>7 DEF InviteCreate
  <2>2. x.stage = "created"
    BY DEF NewReq
  <2> HIDE DEF x
  <2> QED
    BY <2>1, <2>2, <1>1
<1>8. ASSUME NEW s \in SessIds, NEW t \in Users, NEW op, NEW p, AdminBegin(r, s, t, op, p)
      PROVE  Goal
  <2> DEFINE x == [NewReq EXCEPT !.op = op, !.stage = "authorised",
                                 !.actor = sess[s].user, !.target = t, !.patch = p]
  <2>1. req' = [req EXCEPT ![r] = x] /\ req[r].stage = "new" /\ UNCHANGED locks
    BY <1>8 DEF AdminBegin
  <2>2. x.stage = "authorised"
    BY DEF NewReq
  <2> HIDE DEF x
  <2> QED
    BY <2>1, <2>2, <1>1
<1>9. ASSUME NEW t \in Reqs, ConsumeLockToken(r, t)
      PROVE  Goal
  BY <1>0, <1>9 DEF ConsumeLockToken, Goal
<1>10. ASSUME \/ \E s \in SessIds : EndOtherSessions(r, s)
              \/ \E c, s \in SessIds : EndSession(r, c, s)
              \/ LoginUpdate(r) \/ LoginInsert(r) \/ ChangeWrite(r) \/ ChangeEndOthers(r)
              \/ InviteToken(r) \/ ForgotToken(r)
       PROVE  Goal
  <2>1. \E stage \in {"done", "signedIn", "hashed"} : Goto(r, stage)
    BY <1>10 DEF EndOtherSessions, EndSession, LoginUpdate, LoginInsert, ChangeWrite,
       ChangeEndOthers, InviteToken, ForgotToken, IssueLink
  <2>2. UNCHANGED locks
    BY <1>10 DEF EndOtherSessions, EndSession, LoginUpdate, LoginInsert, ChangeWrite,
       ChangeEndOthers, InviteToken, ForgotToken, IssueLink
  <2>3. req[r].stage \in {"new", "verified", "signedIn", "changing", "hashed", "created", "found"}
    BY <1>10 DEF EndOtherSessions, EndSession, LoginUpdate, LoginInsert, ChangeWrite,
       ChangeEndOthers, InviteToken, ForgotToken
  <2> QED
    BY <2>1, <2>2, <2>3, <1>2 DEF Stages
<1>11. ASSUME ConsumeLockUser(r)
       PROVE  Goal
  BY <1>3, <1>11 DEF ConsumeLockUser, Stages
<1>12. ASSUME ConsumeCommit(r) \/ UpdateWrite(r) \/ RemoveWrite(r) \/ DeadlockAbort(r)
       PROVE  Goal
  BY <1>3, <1>12 DEF ConsumeCommit, UpdateWrite, RemoveWrite, DeadlockAbort, InFlight, Stages
<1>13. ASSUME TxLock(r)
       PROVE  Goal
  BY <1>3, <1>13 DEF TxLock, Stages
<1>14. ASSUME TxCheck(r)
       PROVE  Goal
  BY <1>3, <1>14 DEF TxCheck, Stages
<1>15. Goal
  BY <1>4, <1>5, <1>6, <1>7, <1>8, <1>9, <1>10, <1>11, <1>12, <1>13, <1>14
     DEF Handler, RemoveBegin, UpdateBegin
<1> QED
  BY <1>15 DEF Goal

LEMMA LocksStep ==
    ASSUME RowsInv, LocksHeld, [Next]_vars
    PROVE  LocksHeld'
<1>0. TypeOK /\ LinkHeld /\ WellFormed /\ None \notin Reqs
  BY ConstantsAssumption DEF RowsInv
<1>1. ASSUME NEW r \in Reqs, Handler(r)
      PROVE  LocksHeld'
  <2>1. /\ \A q \in Reqs \ {r} : req'[q] = req[q]
        /\ req[r].stage # "done"
    BY <1>0, <1>1, HandlerLocks
  <2>2. LinksStep(r)
    BY <1>1, HandlerLinks
  <2>3. \A q \in Reqs : req'[q].stage # "done" => tok'[q].st = "none"
    BY <2>1, <2>2 DEF LinksStep, LocksHeld
  <2>4. \A q \in Reqs \ {r} : HoldsLink(q) => tok'[req[q].tid].user = req[q].target
    BY <1>0, <2>2 DEF LinksStep, LocksHeld, LinkHeld, HoldsLink
  <2>5. \A q \in Reqs \ {r} : HoldsLink(q)' => tok'[req'[q].tid].user = req'[q].target
    BY <2>1, <2>4 DEF HoldsLink
  <2>6. \A q \in Reqs : HoldsUser(q) => InFlight(q) /\ req[q].target \in Users /\ lock[req[q].target] = q
    BY <1>0 DEF LocksHeld, HoldsUser, InFlight, WellFormed
  <2>7. \A u \in Users : lock[u] # None => lock[u] \in Reqs /\ HoldsUser(lock[u])
    BY <1>0 DEF LocksHeld, TypeOK
  <2>8. \A t \in Reqs : tokLock[t] # None =>
            tokLock[t] \in Reqs /\ HoldsLink(tokLock[t]) /\ req[tokLock[t]].tid = t
    BY <1>0 DEF LocksHeld, TypeOK
  <2> DEFINE Rest == /\ \A u \in Users : lock'[u] # None => HoldsUser(lock[u])'
                     /\ \A t \in Reqs : tokLock'[t] # None =>
                            HoldsLink(tokLock[t])' /\ req'[tokLock'[t]].tid = t
                     /\ \A q \in Reqs : HoldsUser(q)' => lock'[req'[q].target] = q
                     /\ HoldsLink(r)' => tok'[req'[r].tid].user = req'[r].target
  <2>9. CASE LockFree(r)
    <3>1. UNCHANGED <<lock, tokLock>> /\ ~ HoldsUser(r)' /\ ~ HoldsLink(r)'
      BY <2>9 DEF LockFree, locks, HoldsUser, HoldsLink
    <3>2. Rest
      BY <2>1, <2>6, <2>7, <2>8, <2>9, <3>1 DEF LockFree, HoldsUser, HoldsLink
    <3> QED
      BY <2>3, <2>5, <3>2 DEF LocksHeld
  <2>10. CASE Goto(r, "done") /\ Release(r)
    <3>1. req'[r].stage = "done"
      BY <1>0, <2>10, GotoTypes DEF Stages
    <3>2. /\ \A u \in Users : lock'[u] = IF lock[u] = r THEN None ELSE lock[u]
          /\ \A t \in Reqs : tokLock'[t] = IF tokLock[t] = r THEN None ELSE tokLock[t]
      BY <2>10 DEF Release
    <3>3. Rest
      <4>1. \A u \in Users : lock'[u] # None => HoldsUser(lock[u])'
        BY <2>1, <2>7, <3>2 DEF HoldsUser
      <4>2. \A t \in Reqs : tokLock'[t] # None =>
                            HoldsLink(tokLock[t])' /\ req'[tokLock'[t]].tid = t
        BY <2>1, <2>8, <3>2 DEF HoldsLink
      <4>3. \A q \in Reqs : HoldsUser(q)' => lock'[req'[q].target] = q
        BY <2>1, <2>6, <3>1, <3>2 DEF HoldsUser
      <4>4. ~ HoldsLink(r)'
        BY <3>1 DEF HoldsLink
      <4> QED
        BY <4>1, <4>2, <4>3, <4>4
    <3> QED
      BY <2>3, <2>5, <3>3 DEF LocksHeld
  <2>11. ASSUME NEW t \in Reqs, ConsumeLockToken(r, t)
         PROVE  LocksHeld'
    <3>1. /\ req'[r].stage = "tokenLocked" /\ req'[r].tid = t /\ req'[r].target = tok[t].user
          /\ tokLock[t] = None /\ req[r].stage = "new" /\ UNCHANGED <<lock, tok>>
          /\ \A k \in Reqs : tokLock'[k] = IF k = t THEN r ELSE tokLock[k]
      BY <1>0, <2>11 DEF ConsumeLockToken, NewReq, TypeOK
    <3>2. \A k \in Reqs : tokLock[k] # r
      BY <2>8, <1>0, <3>1 DEF HoldsLink
    <3>3. Rest
      <4>1. \A u \in Users : lock'[u] # None => HoldsUser(lock[u])'
        BY <2>1, <2>7, <3>1 DEF HoldsUser
      <4>2. \A k \in Reqs : tokLock'[k] # None =>
                            HoldsLink(tokLock[k])' /\ req'[tokLock'[k]].tid = k
        BY <2>1, <2>8, <3>1, <3>2 DEF HoldsLink
      <4>3. \A q \in Reqs : HoldsUser(q)' => lock'[req'[q].target] = q
        BY <2>1, <2>6, <3>1 DEF HoldsUser
      <4>4. tok'[req'[r].tid].user = req'[r].target
        BY <3>1
      <4> QED
        BY <4>1, <4>2, <4>3, <4>4
    <3> QED
      BY <2>3, <2>5, <3>3 DEF LocksHeld
  <2>12. CASE ConsumeLockUser(r) /\ Goto(r, "userLocked")
    <3> DEFINE u == req[r].target
    <3>1. /\ req[r].stage = "tokenLocked" /\ ~ Blocked(r) /\ tok' = tok
          /\ u \in Users
      BY <1>0, <2>12 DEF ConsumeLockUser, WellFormed, InFlight
    <3>2. /\ req'[r].stage = "userLocked" /\ req'[r].target = u /\ req'[r].tid = req[r].tid
      BY <1>0, <2>12 DEF Goto, TypeOK, ReqRecord
    <3>3. lock' = [lock EXCEPT ![u] = r] /\ UNCHANGED tokLock
      <4>1. \/ lock' = [lock EXCEPT ![u] = r] /\ UNCHANGED tokLock
            \/ Goto(r, "done")
        BY <2>12 DEF ConsumeLockUser
      <4>2. ~ Goto(r, "done")
        BY <1>0, <3>2, GotoTypes DEF Stages
      <4> QED
        BY <4>1, <4>2
    <3>4. \A v \in Users : lock'[v] = IF v = u THEN r ELSE lock[v]
      BY <1>0, <3>3 DEF TypeOK
    <3>5. lock[u] \in {None, r}
      BY <3>1, UnblockedRows DEF RowsNeeded
    <3>6. Rest
      <4>1. \A v \in Users : lock'[v] # None => HoldsUser(lock[v])'
        BY <2>1, <2>7, <3>1, <3>2, <3>4 DEF HoldsUser
      <4>2. \A k \in Reqs : tokLock'[k] # None =>
                            HoldsLink(tokLock[k])' /\ req'[tokLock'[k]].tid = k
        BY <2>1, <2>8, <3>2, <3>3 DEF HoldsLink
      <4>3. \A q \in Reqs : HoldsUser(q)' => lock'[req'[q].target] = q
        <5> SUFFICES ASSUME NEW q \in Reqs, HoldsUser(q)' PROVE lock'[req'[q].target] = q
          OBVIOUS
        <5>1. CASE q = r
          BY <5>1, <3>1, <3>2, <3>4
        <5>2. CASE q # r
          <6>1. HoldsUser(q) /\ req'[q] = req[q]
            BY <2>1, <5>2 DEF HoldsUser
          <6>2. req[q].target \in Users /\ lock[req[q].target] = q
            BY <2>6, <6>1
          <6>3. req[q].target # u
            BY <3>5, <5>2, <6>2, <1>0
          <6> QED
            BY <3>4, <6>1, <6>2, <6>3
        <5> QED
          BY <5>1, <5>2
      <4>4. tok'[req'[r].tid].user = req'[r].target
        BY <3>1, <3>2 DEF LocksHeld, HoldsLink
      <4> QED
        BY <4>1, <4>2, <4>3, <4>4
    <3> QED
      BY <2>3, <2>5, <3>6 DEF LocksHeld
  <2>13. CASE TxLock(r)
    <3>1. /\ req[r].stage = "authorised" /\ ~ Blocked(r) /\ Goto(r, "locked")
          /\ UNCHANGED <<tok, tokLock>>
          /\ \A v \in Users : lock'[v] = IF v \in RowsNeeded(r) THEN r ELSE lock[v]
      BY <2>13 DEF TxLock
    <3>2. req'[r].stage = "locked" /\ req'[r].target = req[r].target
      BY <1>0, <3>1, GotoTypes DEF Stages
    <3>3. req[r].target \in Users /\ req[r].target \in RowsNeeded(r)
      BY <1>0, <3>1 DEF WellFormed, InFlight, RowsNeeded
    <3>4. Rest
      <4>1. \A v \in Users : lock'[v] # None => HoldsUser(lock[v])'
        <5> SUFFICES ASSUME NEW v \in Users, lock'[v] # None PROVE HoldsUser(lock[v])'
          OBVIOUS
        <5>1. CASE v \in RowsNeeded(r)
          BY <3>1, <3>2, <5>1 DEF HoldsUser
        <5>2. CASE v \notin RowsNeeded(r)
          <6>1. lock'[v] = lock[v] /\ lock[v] \in Reqs /\ HoldsUser(lock[v])
            BY <2>7, <3>1, <5>2
          <6>2. lock[v] # r
            BY <6>1, <3>1 DEF HoldsUser
          <6> QED
            BY <2>1, <6>1, <6>2 DEF HoldsUser
        <5> QED
          BY <5>1, <5>2
      <4>2. \A k \in Reqs : tokLock'[k] # None =>
                            HoldsLink(tokLock[k])' /\ req'[tokLock'[k]].tid = k
        BY <2>1, <2>8, <3>1 DEF HoldsLink
      <4>3. \A q \in Reqs : HoldsUser(q)' => lock'[req'[q].target] = q
        <5> SUFFICES ASSUME NEW q \in Reqs, HoldsUser(q)' PROVE lock'[req'[q].target] = q
          OBVIOUS
        <5>1. CASE q = r
          BY <5>1, <3>1, <3>2, <3>3
        <5>2. CASE q # r
          <6>1. HoldsUser(q) /\ req'[q] = req[q]
            BY <2>1, <5>2 DEF HoldsUser
          <6>2. req[q].target \in Users /\ lock[req[q].target] = q
            BY <2>6, <6>1
          <6>3. req[q].target \notin RowsNeeded(r)
            BY <3>1, <5>2, <6>2, <1>0, UnblockedRows
          <6> QED
            BY <3>1, <6>1, <6>2, <6>3
        <5> QED
          BY <5>1, <5>2
      <4>4. ~ HoldsLink(r)'
        BY <3>2 DEF HoldsLink
      <4> QED
        BY <4>1, <4>2, <4>3, <4>4
    <3> QED
      BY <2>3, <2>5, <3>4 DEF LocksHeld
  <2>14. CASE TxCheck(r) /\ Goto(r, "checked") /\ UNCHANGED locks
    <3>1. req[r].stage = "locked" /\ UNCHANGED <<lock, tokLock>>
      BY <2>14 DEF TxCheck, locks
    <3>2. req'[r].stage = "checked" /\ req'[r].target = req[r].target
      BY <1>0, <2>14, GotoTypes DEF Stages
    <3>3. Rest
      BY <2>1, <2>6, <2>7, <2>8, <3>1, <3>2 DEF HoldsUser, HoldsLink
    <3> QED
      BY <2>3, <2>5, <3>3 DEF LocksHeld
  <2> QED
    BY <1>0, <1>1, <2>9, <2>10, <2>11, <2>12, <2>13, <2>14, HandlerLocks
<1>2. CASE Crash
  <2>1. /\ \A r \in Reqs : req'[r] = IF InFlight(r) THEN [req[r] EXCEPT !.stage = "done"] ELSE req[r]
        /\ \A u \in Users : lock'[u] = None
        /\ \A t \in Reqs : tokLock'[t] = None
        /\ tok' = tok
    BY <1>2 DEF Crash
  <2>2. \A r \in Reqs : req'[r].stage \in {"new", "done"}
    BY <1>0, <2>1 DEF InFlight, TypeOK, ReqRecord
  <2>3. \A r \in Reqs : req'[r].stage # "done" => req[r].stage # "done"
    BY <1>0, <2>1 DEF InFlight, TypeOK, ReqRecord
  <2> QED
    BY <2>1, <2>2, <2>3 DEF LocksHeld, HoldsUser, HoldsLink
<1>3. CASE UNCHANGED vars
  BY <1>3 DEF vars, LocksHeld, HoldsUser, HoldsLink
<1> QED
  BY <1>1, <1>2, <1>3 DEF Next

LEMMA LocksInitially == Init => LocksHeld
  BY DEF Init, LocksHeld, HoldsUser, HoldsLink, NewReq, NoToken

\* A handler that has locked an account, and waits for a link of it, waits for
\* a request that waits for the account.
LEMMA HolderIsInCycle ==
    ASSUME RowsInv, LocksHeld, NEW h \in Reqs, HoldsUser(h), Blocked(h)
    PROVE  InWaitCycle(h)
<1> DEFINE u == req[h].target
<1>0. TypeOK /\ LinkHeld /\ WellFormed /\ None \notin Reqs
  BY ConstantsAssumption DEF RowsInv
<1>1. RowsNeeded(h) = {}
  BY DEF HoldsUser, RowsNeeded
<1>2. PICK t \in TokensNeeded(h) : tokLock[t] \notin {None, h}
  BY <1>1 DEF Blocked, WaitsFor
<1>3. t \in Reqs /\ tok[t].user = u
  BY <1>2 DEF TokensNeeded, Outstanding
<1> DEFINE g == tokLock[t]
<1>4. g \in Reqs /\ g # h /\ HoldsLink(g) /\ req[g].tid = t
  BY <1>0, <1>2, <1>3 DEF LocksHeld, TypeOK
<1>5. g \in WaitsFor(h)
  BY <1>2, <1>3 DEF WaitsFor
<1>6. req[g].target = u /\ lock[u] = h
  BY <1>3, <1>4 DEF LocksHeld
<1>7. req[g].stage = "tokenLocked"
  <2>1. ~ HoldsUser(g)
    BY <1>4, <1>6 DEF LocksHeld
  <2> QED
    BY <1>4, <2>1 DEF HoldsLink, HoldsUser
<1>8. u \in RowsNeeded(g)
  BY <1>6, <1>7 DEF RowsNeeded
<1>9. h \in WaitsFor(g)
  BY <1>0, <1>4, <1>6, <1>8 DEF WaitsFor
<1> QED
  BY <1>5, <1>9 DEF InWaitCycle

\* The row locks of users.service.ts and consumeToken: however many handlers
\* are in flight, one of them can go on or is in a wait cycle.
THEOREM WaitsAreEnded == Spec => []EveryWaitEnds
<1>1. RowsInv /\ LocksHeld => EveryWaitEnds
  <2> SUFFICES ASSUME RowsInv, LocksHeld, NEW r \in Reqs, InFlight(r),
                      \A q \in Reqs : InFlight(q) => Blocked(q) /\ ~ InWaitCycle(q)
               PROVE  FALSE
    BY DEF EveryWaitEnds
  <2>0. TypeOK /\ LinkHeld /\ WellFormed /\ None \notin Reqs
    BY ConstantsAssumption DEF RowsInv
  <2>1. \A h \in Reqs : ~ HoldsUser(h)
    BY HolderIsInCycle DEF HoldsUser, InFlight
  <2>2. \A u \in Users : lock[u] = None
    BY <2>0, <2>1 DEF LocksHeld, TypeOK
  <2>3. ASSUME NEW q \in Reqs, InFlight(q)
        PROVE  \E t \in TokensNeeded(q) : tokLock[t] # None
    <3>1. RowsNeeded(q) \subseteq Users
      BY <2>0, <2>3 DEF RowsNeeded, AdminRows, WellFormed
    <3>2. Blocked(q)
      BY <2>3
    <3> QED
      BY <2>2, <3>1, <3>2 DEF Blocked, WaitsFor
  <2>4. \A q \in Reqs : InFlight(q) => HoldsUser(q)
    <3> SUFFICES ASSUME NEW q \in Reqs, InFlight(q) PROVE HoldsUser(q)
      OBVIOUS
    <3>1. TokensNeeded(q) # {}
      BY <2>3
    <3> QED
      BY <3>1 DEF TokensNeeded, HoldsUser
  <2> QED
    BY <2>1, <2>4
<1>2. Init => RowsInv /\ LocksHeld
  BY RowsInitially, LocksInitially
<1>3. RowsInv /\ LocksHeld /\ [Next]_vars => (RowsInv /\ LocksHeld)'
  BY RowsInductive, LocksStep
<1> QED
  BY <1>1, <1>2, <1>3, PTL DEF Spec

-----------------------------------------------------------------------------
(***************************************************************************)
(* Part 2: LoginLimits                                                     *)
(***************************************************************************)

\* What failed_logins counts, the history does: neither a lock that is in force,
\* nor the decay, nor a sign-in that interleaves makes it count less.
CountFollows == counted <= user.failed_logins

\* The last lock is the one lock_count stands for, and locked_until is its end.
LastOf(lock_count) ==
    \/ lock_count \in 1..6 /\ lastLock = LockLength(lock_count - 1)
    \/ lock_count = 6 /\ lastLock = LockLength(6)
LastLockFollows ==
    lastLock > 0 =>
        /\ user.locked_until # Null
        /\ user.locked_until <= lastLock
        /\ ~Decayed(user.locked_until) => LastOf(user.lock_count)

LimitsInv == LLTypeOK /\ CountFollows /\ LastLockFollows

-----------------------------------------------------------------------------
(* The length of a lock                                                    *)

LEMMA Powers ==
    /\ Pow2[1] = 1 /\ Pow2[2] = 2 /\ Pow2[3] = 4 /\ Pow2[4] = 8
    /\ Pow2[5] = 16 /\ Pow2[6] = 32 /\ Pow2[7] = 64
  BY DEF Pow2

LEMMA LockLengths ==
    /\ LockLength(0) = LeastOf(LOCK_BASE, LOCK_MAX)
    /\ LockLength(1) = LeastOf(2 * LOCK_BASE, LOCK_MAX)
    /\ LockLength(2) = LeastOf(4 * LOCK_BASE, LOCK_MAX)
    /\ LockLength(3) = LeastOf(8 * LOCK_BASE, LOCK_MAX)
    /\ LockLength(4) = LeastOf(16 * LOCK_BASE, LOCK_MAX)
    /\ LockLength(5) = LeastOf(32 * LOCK_BASE, LOCK_MAX)
    /\ LockLength(6) = LOCK_MAX
<1>1. LOCK_BASE \in Nat /\ LOCK_MAX \in Nat
  BY LimitConstants
<1>2. ASSUME NEW n \in 0..6
      PROVE  LockLength(n) = LeastOf(LOCK_BASE * Pow2[n + 1], LOCK_MAX)
  BY <1>2 DEF LockLength, LeastOf
<1>3. LockLength(6) = LeastOf(LOCK_BASE * 64, LOCK_MAX)
  BY <1>2, Powers
<1>4. LockLength(6) = LOCK_MAX
  BY <1>1, <1>3, CapBeforeExponent DEF LeastOf
<1>5. /\ LockLength(0) = LeastOf(LOCK_BASE * 1, LOCK_MAX)
      /\ LockLength(1) = LeastOf(LOCK_BASE * 2, LOCK_MAX)
      /\ LockLength(2) = LeastOf(LOCK_BASE * 4, LOCK_MAX)
      /\ LockLength(3) = LeastOf(LOCK_BASE * 8, LOCK_MAX)
      /\ LockLength(4) = LeastOf(LOCK_BASE * 16, LOCK_MAX)
      /\ LockLength(5) = LeastOf(LOCK_BASE * 32, LOCK_MAX)
  BY <1>2, Powers
<1> QED
  BY <1>1, <1>4, <1>5

LEMMA LockLengthType == \A n \in 0..6 : LockLength(n) \in 1..LOCK_MAX
  BY LimitConstants, LockLengths DEF LeastOf

\* A longer exponent never makes a shorter lock: it doubles it, up to LOCK_MAX.
LEMMA LockLengthGrows ==
    ASSUME NEW n \in 0..5
    PROVE  /\ LockLength(n) <= LockLength(n + 1)
           /\ LockLength(n + 1) = LeastOf(2 * LockLength(n), LOCK_MAX)
<1>1. LOCK_BASE \in Nat /\ LOCK_MAX \in Nat
  BY LimitConstants
<1>2. n = 0 \/ n = 1 \/ n = 2 \/ n = 3 \/ n = 4 \/ n = 5
  OBVIOUS
<1>3. CASE n = 0 \/ n = 1 \/ n = 2
  BY <1>1, <1>3, LockLengths DEF LeastOf
<1>4. CASE n = 3 \/ n = 4
  BY <1>1, <1>4, LockLengths DEF LeastOf
<1>5. CASE n = 5
  BY <1>1, <1>5, LockLengths, CapBeforeExponent DEF LeastOf
<1> QED
  BY <1>2, <1>3, <1>4, <1>5

-----------------------------------------------------------------------------
(* The steps                                                               *)

LEMMA InitInv == LLInit => LimitsInv
  BY LimitConstants
     DEF LLInit, LimitsInv, LLTypeOK, CountFollows, LastLockFollows, User, LockTimes, PastTimes, SignInStages

\* registerFailedAttempt's UPDATE keeps the row in range.
LEMMA FailedType ==
    ASSUME NEW u \in User
    PROVE  /\ Failed(u) \in User
           /\ Failed(u).locked_until \in {u.locked_until} \cup 1..LOCK_MAX
<1> DEFINE lock_count == IF Decayed(u.locked_until) THEN 0 ELSE u.lock_count
           failed == (IF Decayed(u.last_failed_login_at) THEN 0 ELSE u.failed_logins) + 1
<1>1. lock_count \in 0..6 /\ failed \in 1..LOCK_THRESHOLD
  BY LimitConstants DEF User
<1>2. LockLength(lock_count) \in 1..LOCK_MAX
  BY <1>1, LockLengthType
<1>3. 1..LOCK_MAX \subseteq LockTimes /\ 0 \in PastTimes
  BY LimitConstants DEF LockTimes, PastTimes
<1>4. LeastOf(lock_count + 1, 6) \in 0..6
  BY <1>1 DEF LeastOf
<1> HIDE DEF lock_count
<1> QED
  BY <1>1, <1>2, <1>3, <1>4, LimitConstants DEF Failed, User, lock_count

LEMMA FailStep ==
    ASSUME LimitsInv, NEW r \in SignIns, registerFailedAttempt(r)
    PROVE  /\ LimitsInv'
           /\ Locks /\ lastLock > 0 /\ ~Decayed(user.locked_until)
                 => user'.locked_until = LeastOf(2 * lastLock, LOCK_MAX)
<1> DEFINE lock_count == IF Decayed(user.locked_until) THEN 0 ELSE user.lock_count
           failed == (IF Decayed(user.last_failed_login_at) THEN 0 ELSE user.failed_logins) + 1
<1>1. user \in User /\ user' \in User
      /\ user'.locked_until \in {user.locked_until} \cup 1..LOCK_MAX
  BY FailedType DEF LimitsInv, LLTypeOK, registerFailedAttempt
<1>2. lock_count \in 0..6 /\ failed \in 1..LOCK_THRESHOLD
  BY <1>1, LimitConstants DEF User
<1>3. LockLength(lock_count) \in 1..LOCK_MAX
  BY <1>2, LockLengthType
<1>4. /\ lastLock \in 0..LOCK_MAX /\ counted \in Nat
      /\ user.locked_until # Null => user.locked_until \in Int
      /\ LOCK_MAX \in Nat /\ Null \notin Int /\ LOCK_DECAY \in Nat \ {0}
  BY <1>1, LimitConstants DEF LimitsInv, LLTypeOK, User, LockTimes
<1>5. CASE failed >= LOCK_THRESHOLD
  <2>1. /\ user'.locked_until = LockLength(lock_count)
        /\ user'.failed_logins = 0
        /\ user'.lock_count = LeastOf(lock_count + 1, 6)
    BY <1>5 DEF registerFailedAttempt, Failed
  <2>2. isBruteForceLocked' /\ ~Decayed(user'.locked_until)
    BY <2>1, <1>3, <1>4 DEF isBruteForceLocked, Decayed
  <2>3. counted' = 0 /\ CountFollows'
    BY <2>1, <2>2 DEF registerFailedAttempt, CountFollows
  <2>4. lastLock' \in 0..LOCK_MAX
    BY <2>1, <1>3, <1>4 DEF registerFailedAttempt
  <2>5. \/ user'.lock_count = lock_count + 1 /\ lock_count \in 0..5
        \/ user'.lock_count = 6 /\ lock_count = 6
    BY <2>1, <1>2 DEF LeastOf
  <2>6. ASSUME Locks PROVE LastLockFollows'
    <3>1. lastLock' = LockLength(lock_count)
      BY <2>1, <2>6 DEF registerFailedAttempt
    <3>2. \/ user'.lock_count \in 1..6 /\ lastLock' = LockLength(user'.lock_count - 1)
          \/ user'.lock_count = 6 /\ lastLock' = LockLength(6)
      BY <2>5, <3>1
    <3> QED
      BY <2>1, <1>3, <1>4, <3>1, <3>2 DEF LastLockFollows, LastOf, LockLength
  <2>7. ASSUME ~Locks PROVE LastLockFollows'
    <3>1. lastLock' = lastLock /\ user.locked_until = LockLength(lock_count)
      BY <2>1, <2>7 DEF registerFailedAttempt, Locks
    <3>2. ~Decayed(user.locked_until) /\ lock_count = user.lock_count
      BY <3>1, <1>3, <1>4 DEF Decayed
    <3>3. SUFFICES ASSUME lastLock > 0
                   PROVE  lastLock = LockLength(lock_count)
      BY <2>1, <2>5, <3>1, <3>2, <1>3, <1>4 DEF LastLockFollows, LastOf, LockLength
    <3>4. user.locked_until <= lastLock /\ LastOf(lock_count)
      BY <3>2, <3>3 DEF LimitsInv, LastLockFollows
    <3>5. CASE lock_count \in 1..6 /\ lastLock = LockLength(lock_count - 1)
      <4>1. lock_count - 1 \in 0..5 /\ (lock_count - 1) + 1 = lock_count
        BY <3>5
      <4>2. lastLock <= LockLength(lock_count)
        BY <4>1, <3>5, LockLengthGrows
      <4> QED
        BY <4>2, <3>1, <3>4, <1>3, <1>4
    <3> QED
      BY <3>4, <3>5 DEF LastOf
  <2>8. ASSUME Locks, lastLock > 0, ~Decayed(user.locked_until)
        PROVE  user'.locked_until = LeastOf(2 * lastLock, LOCK_MAX)
    <3>1. lock_count = user.lock_count /\ LastOf(lock_count)
      BY <2>8 DEF LimitsInv, LastLockFollows
    <3>2. CASE lock_count \in 1..6 /\ lastLock = LockLength(lock_count - 1)
      <4>1. lock_count - 1 \in 0..5 /\ (lock_count - 1) + 1 = lock_count
        BY <3>2
      <4> QED
        BY <4>1, <2>1, <3>2, LockLengthGrows
    <3>3. CASE lock_count = 6 /\ lastLock = LockLength(6)
      BY <2>1, <3>3, <1>4, LockLengths DEF LeastOf
    <3> QED
      BY <3>1, <3>2, <3>3 DEF LastOf
  <2> QED
    BY <1>1, <2>3, <2>4, <2>6, <2>7, <2>8 DEF LimitsInv, LLTypeOK, registerFailedAttempt, SignInStages
<1>6. CASE ~(failed >= LOCK_THRESHOLD)
  <2>1. /\ user'.locked_until = user.locked_until
        /\ user'.failed_logins = failed
        /\ user'.lock_count = lock_count
    BY <1>6 DEF registerFailedAttempt, Failed
  <2>2. ~Locks /\ lastLock' = lastLock
    BY <2>1 DEF Locks, registerFailedAttempt
  <2>3. counted' \in Nat /\ CountFollows'
    BY <2>1, <1>1, <1>2, <1>4, LimitConstants
       DEF registerFailedAttempt, CountFollows, LimitsInv, User
  <2>4. LastLockFollows'
    BY <2>1, <2>2 DEF LimitsInv, LastLockFollows, LastOf, LockLength
  <2> QED
    BY <1>1, <1>4, <2>2, <2>3, <2>4 DEF LimitsInv, LLTypeOK, registerFailedAttempt, SignInStages
<1> QED
  BY <1>5, <1>6

LEMMA TickStep == LimitsInv /\ Tick => LimitsInv'
<1> SUFFICES ASSUME LimitsInv, Tick PROVE LimitsInv'
  OBVIOUS
<1>1. user \in User /\ LOCK_DECAY \in Nat \ {0} /\ LOCK_MAX \in Nat /\ Null \notin Int
  BY LimitConstants DEF LimitsInv, LLTypeOK
<1>2. /\ Earlier(user.locked_until) \in LockTimes
      /\ Earlier(user.last_failed_login_at) \in PastTimes
  BY <1>1 DEF User, LockTimes, PastTimes, Earlier
<1>3. /\ user'.locked_until = Earlier(user.locked_until)
      /\ user'.failed_logins = user.failed_logins
      /\ user'.lock_count = user.lock_count
      /\ user' \in User
  BY <1>1, <1>2 DEF Tick, User
<1>4. CountFollows'
  BY <1>3 DEF Tick, LimitsInv, CountFollows
<1>5. ASSUME user.locked_until # Null
      PROVE  /\ user'.locked_until # Null
             /\ user'.locked_until <= user.locked_until
             /\ Decayed(user.locked_until) => Decayed(user'.locked_until)
  BY <1>1, <1>3, <1>5 DEF Earlier, User, LockTimes, Decayed
<1>6. lastLock \in 0..LOCK_MAX /\ (user.locked_until # Null => user.locked_until \in Int)
      /\ (user'.locked_until # Null => user'.locked_until \in Int)
  BY <1>1, <1>3 DEF LimitsInv, LLTypeOK, User, LockTimes
<1>7. LastLockFollows'
  BY <1>1, <1>3, <1>5, <1>6 DEF Tick, LimitsInv, LastLockFollows, LastOf, LockLength
<1>8. attempts' \in [count : 0..LOGIN_ATTEMPT_LIMIT, ttl : 0..LOGIN_ATTEMPT_WINDOW]
  BY LimitConstants DEF Tick, LimitsInv, LLTypeOK
<1> QED
  BY <1>3, <1>4, <1>7, <1>8 DEF LimitsInv, LLTypeOK, Tick

\* A good sign-in and an unlock clear the counts.
LEMMA ClearedType ==
    ASSUME NEW u \in User, NEW until \in LockTimes
    PROVE  [u EXCEPT !.locked_until = until, !.failed_logins = 0, !.lock_count = 0] \in User
<1> DEFINE F == 0..(LOCK_THRESHOLD - 1)
           C == 0..6
<1>1. 0 \in F /\ 0 \in C
  BY LimitConstants
<1>2. User = [locked_until : LockTimes, last_failed_login_at : PastTimes,
              failed_logins : F, lock_count : C]
  BY DEF User
<1> HIDE DEF F, C
<1> QED
  BY <1>1, <1>2

LEMMA OtherStep ==
    ASSUME LimitsInv,
           \/ \E r \in SignIns : Login(r) \/ Read(r) \/ Verify(r) \/ Success(r)
           \/ Unlock \/ Restart
    PROVE  LimitsInv'
<1>1. ASSUME NEW r \in SignIns, Login(r) \/ Read(r) \/ Verify(r) PROVE LimitsInv'
  <2>1. /\ signIn' \in [SignIns -> SignInStages]
        /\ attempts' \in [count : 0..LOGIN_ATTEMPT_LIMIT, ttl : 0..LOGIN_ATTEMPT_WINDOW]
        /\ UNCHANGED <<user, counted, lastLock>>
    BY <1>1, LimitConstants DEF Login, Read, Verify, LimitsInv, LLTypeOK, SignInStages
  <2> QED
    BY <2>1 DEF LimitsInv, LLTypeOK, CountFollows, LastLockFollows, LastOf, LockLength
<1>2. ASSUME NEW r \in SignIns, Success(r) PROVE LimitsInv'
  <2>1. user' \in User /\ user'.failed_logins = 0 /\ counted' = 0 /\ lastLock' = 0
    <3>1. /\ user \in User /\ user.locked_until \in LockTimes
          /\ user' = [user EXCEPT !.failed_logins = 0, !.lock_count = 0]
      BY <1>2 DEF Success, LimitsInv, LLTypeOK, User
    <3>2. user' = [user EXCEPT !.locked_until = user.locked_until,
                               !.failed_logins = 0, !.lock_count = 0]
      BY <3>1 DEF User
    <3> QED
      BY <1>2, <3>1, <3>2, ClearedType DEF Success, User
  <2>2. /\ signIn' \in [SignIns -> SignInStages]
        /\ attempts' \in [count : 0..LOGIN_ATTEMPT_LIMIT, ttl : 0..LOGIN_ATTEMPT_WINDOW]
    BY <1>2, LimitConstants DEF Success, LimitsInv, LLTypeOK, SignInStages
  <2>3. LLTypeOK'
    BY <2>1, <2>2, LimitConstants DEF LLTypeOK
  <2>4. CountFollows'
    BY <2>1 DEF CountFollows
  <2>5. LastLockFollows'
    BY <2>1 DEF LastLockFollows
  <2> QED
    BY <2>3, <2>4, <2>5 DEF LimitsInv
<1>3. CASE Unlock
  <2>1. user' \in User /\ user'.failed_logins = 0 /\ counted' = 0 /\ lastLock' = 0
    <3>1. /\ user \in User /\ Null \in LockTimes
          /\ user' = [user EXCEPT !.locked_until = Null, !.failed_logins = 0, !.lock_count = 0]
      BY <1>3 DEF Unlock, LimitsInv, LLTypeOK, LockTimes
    <3> QED
      BY <1>3, <3>1, ClearedType DEF Unlock, User
  <2>2. LLTypeOK'
    BY <1>3, <2>1, LimitConstants DEF Unlock, LimitsInv, LLTypeOK
  <2>3. CountFollows'
    BY <2>1 DEF CountFollows
  <2>4. LastLockFollows'
    BY <2>1 DEF LastLockFollows
  <2> QED
    BY <2>2, <2>3, <2>4 DEF LimitsInv
<1>4. CASE Restart
  <2>1. /\ signIn' \in [SignIns -> SignInStages]
        /\ attempts' \in [count : 0..LOGIN_ATTEMPT_LIMIT, ttl : 0..LOGIN_ATTEMPT_WINDOW]
        /\ UNCHANGED <<user, counted, lastLock>>
    BY <1>4, LimitConstants DEF Restart, SignInStages
  <2> QED
    BY <2>1 DEF LimitsInv, LLTypeOK, CountFollows, LastLockFollows, LastOf, LockLength
<1> QED
  BY <1>1, <1>2, <1>3, <1>4

LEMMA StutterStep == LimitsInv /\ UNCHANGED llvars => LimitsInv'
  BY DEF LimitsInv, LLTypeOK, llvars, CountFollows, LastLockFollows, LastOf, LockLength

LEMMA NextInv == LimitsInv /\ [LLNext]_llvars => LimitsInv'
  BY FailStep, TickStep, OtherStep, StutterStep DEF LLNext

LEMMA Invariance == LLSpec => []LimitsInv
  BY InitInv, NextInv, PTL DEF LLSpec

-----------------------------------------------------------------------------
(* Results                                                                 *)

\* auth.service.ts:405: the row of an account stays in the range of its columns
\* and no lock is longer than LOCK_MAX, whatever sign-ins interleave.
THEOREM LimitsTypeCorrect == LLSpec => []LLTypeOK
<1>1. LimitsInv => LLTypeOK
  BY DEF LimitsInv
<1> QED
  BY <1>1, Invariance, PTL

\* auth.service.ts:405 (C4): one UPDATE counts each wrong password, so that the
\* threshold's leads to a lock whatever else is in flight.
THEOREM EveryGuessCounts == LLSpec => []GuessesLeadToLock
<1>1. LimitsInv => GuessesLeadToLock
  BY LimitConstants DEF LimitsInv, LLTypeOK, User, CountFollows, GuessesLeadToLock
<1> QED
  BY <1>1, Invariance, PTL

\* auth.service.ts:35 (C12), "doubling each time after": also when wrong
\* passwords are recorded under a lock, and when two locks are set at one time.
THEOREM LocksDouble == LLSpec => BackoffDoubles
<1>1. LimitsInv /\ [LLNext]_llvars =>
        [\A r \in SignIns :
            registerFailedAttempt(r) /\ Locks /\ lastLock > 0 /\ ~Decayed(user.locked_until)
                => user'.locked_until = LeastOf(2 * lastLock, LOCK_MAX)]_llvars
  BY FailStep
<1> QED
  BY <1>1, Invariance, PTL DEF LLSpec, BackoffDoubles

=============================================================================
