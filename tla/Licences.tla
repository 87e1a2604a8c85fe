------------------------------ MODULE Licences ------------------------------
(***************************************************************************)
(* The association's licences and the copy of the primary one's number in  *)
(* site_settings (admin-licences.controller.ts, site-settings.controller   *)
(* .ts).                                                                   *)
(*                                                                         *)
(* A licence write is a transaction that locks the site_settings row,      *)
(* reads the licence, clears other primary flags where it must, saves, and *)
(* copies the primary published licence to site_settings; its writes show  *)
(* when it commits.  The settings screen reads the whole row and saves it  *)
(* later: save() compares the entity with the row as it is then and writes *)
(* the columns that differ.                                                *)
(***************************************************************************)
EXTENDS Naturals, FiniteSets

CONSTANTS
    LicenceIds,     \* ids, in the order they are handed out
    Numbers,        \* licence numbers, with their issuers
    Writers,        \* requests that write a licence, one after another
    Settings,       \* requests of the settings screen
    Null            \* null; no holder; no row

Row == [isPrimary : BOOLEAN, isPublished : BOOLEAN, number : Numbers \cup {Null}]

\* A request body; Unsaid is a field that is not in it.
Unsaid == "unsaid"
Body == [isPrimary : {"yes", "no", Unsaid}, isPublished : {"yes", "no", Unsaid},
         number : Numbers \cup {Null, Unsaid}]
NothingSaid == [isPrimary |-> Unsaid, isPublished |-> Unsaid, number |-> Unsaid]
Kinds == {"create", "update", "primary", "remove"}

ASSUME LicenceConstants ==
    /\ LicenceIds \subseteq Nat
    /\ Null \notin Numbers \cup Writers \cup Row
    /\ Unsaid \notin Numbers \cup {Null}

VARIABLES
    row,            \* licences
    licenceNo,      \* site_settings.licence_no, with the issuer
    lock,           \* holder of the site_settings row
    tx,             \* the transactions of licence writes
    screen,         \* the settings screen's copy and whether save() found it to differ
    overwritten     \* history: the screen wrote licenceNo since the last licence write

lcvars == <<row, licenceNo, lock, tx, screen, overwritten>>

NoTx == [stage |-> "idle"]
OpenTx == [stage : {"locked", "cleared"}, kind : Kinds, id : LicenceIds, body : Body,
           cleared : SUBSET LicenceIds, found : Row \cup {Null}]
NoScreen == [stage |-> "idle"]
OpenScreen == [stage : {"read", "same", "differs"}, licenceNo : Numbers \cup {Null}]

LCTypeOK ==
    /\ row \in [LicenceIds -> Row \cup {Null}]
    /\ licenceNo \in Numbers \cup {Null}
    /\ lock \in Writers \cup {Null}
    /\ tx \in [Writers -> OpenTx \cup {NoTx}]
    /\ screen \in [Settings -> OpenScreen \cup {NoScreen}]
    /\ overwritten \in BOOLEAN

LCInit ==
    /\ row = [l \in LicenceIds |-> Null]
    /\ licenceNo = Null
    /\ lock = Null
    /\ tx = [e \in Writers |-> NoTx]
    /\ screen = [s \in Settings |-> NoScreen]
    /\ overwritten = FALSE

Primaries == {l \in LicenceIds : row[l] # Null /\ row[l].isPrimary}

-----------------------------------------------------------------------------
(* A licence write                                                         *)

\* Mutant: the transaction starts without locking the settings row.
TxLock_None(e, kind, id, body) ==
    /\ tx[e] = NoTx
    /\ lock' = e
    /\ tx' = [tx EXCEPT ![e] = [stage |-> "locked", kind |-> kind, id |-> id, body |-> body,
                                cleared |-> {}, found |-> Null]]
    /\ UNCHANGED <<row, licenceNo, screen, overwritten>>

\* lockSettings.  PATCH :id/publish is an update of one field.
TxLock(e, kind, id, body) ==
    /\ tx[e] = NoTx
    /\ lock = Null
    /\ lock' = e
    /\ tx' = [tx EXCEPT ![e] = [stage |-> "locked", kind |-> kind, id |-> id, body |-> body,
                                cleared |-> {}, found |-> Null]]
    /\ UNCHANGED <<row, licenceNo, screen, overwritten>>

Flag(old, field) == IF field = Unsaid THEN old ELSE field = "yes"

\* The entity before Object.assign(): the row, or the defaults of a new one.
Base(found) ==
    IF found = Null THEN [isPrimary |-> FALSE, isPublished |-> FALSE, number |-> Null] ELSE found

\* A row as create() or Object.assign() leaves it.
Patched(found, body) ==
    [isPrimary |-> Flag(Base(found).isPrimary, body.isPrimary),
     isPublished |-> Flag(Base(found).isPublished, body.isPublished),
     number |-> IF body.number = Unsaid THEN Base(found).number ELSE body.number]

\* Whether the write clears the flag of the others first.
Clears(kind, found, body) ==
    \/ kind = "primary"
    \/ kind \in {"create", "update"} /\ body.isPrimary = "yes" /\ ~Base(found).isPrimary

\* findLocked, then clearPrimary; a new licence takes a free id.
TxClear(e) ==
    LET t == tx[e] IN
    /\ t.stage = "locked"
    /\ (t.kind = "create") = (row[t.id] = Null)
    /\ tx' = [tx EXCEPT ![e].stage = "cleared", ![e].found = row[t.id],
                        ![e].cleared = IF Clears(t.kind, row[t.id], t.body)
                                       THEN Primaries ELSE {}]
    /\ UNCHANGED <<row, licenceNo, lock, screen, overwritten>>

\* Mutant: a licence that is not published is copied too.
Synced_Unpublished(rows) ==
    LET shown == {l \in LicenceIds : rows[l] # Null /\ rows[l].isPrimary}
    IN IF shown = {} THEN Null ELSE rows[CHOOSE l \in shown : \A k \in shown : l <= k].number

\* syncSiteSettings: the first primary published licence, or null.
Synced(rows) ==
    LET shown == {l \in LicenceIds : rows[l] # Null /\ rows[l].isPrimary /\ rows[l].isPublished}
    IN IF shown = {} THEN Null ELSE rows[CHOOSE l \in shown : \A k \in shown : l <= k].number

\* The row is saved or removed, the settings follow, the transaction commits.
TxCommit(e) ==
    LET t == tx[e]
        saved == IF t.kind = "remove" THEN Null
                 ELSE IF t.kind = "primary" THEN [t.found EXCEPT !.isPrimary = TRUE]
                 ELSE Patched(t.found, t.body)
    IN
    /\ t.stage = "cleared"
    /\ row' = [l \in LicenceIds |->
                 IF l = t.id THEN saved
                 ELSE IF l \in t.cleared THEN [row[l] EXCEPT !.isPrimary = FALSE] ELSE row[l]]
    /\ licenceNo' = Synced(row')
    /\ lock' = Null
    /\ tx' = [tx EXCEPT ![e] = NoTx]
    /\ overwritten' = FALSE
    /\ UNCHANGED screen

\* 404, a bad document, dates in the wrong order, a failed statement.
TxRollback(e) ==
    /\ tx[e] # NoTx
    /\ lock' = Null
    /\ tx' = [tx EXCEPT ![e] = NoTx]
    /\ UNCHANGED <<row, licenceNo, screen, overwritten>>

-----------------------------------------------------------------------------
(* PUT /admin/settings, whose body has no licence field                    *)

ScreenRead(s) ==
    /\ screen[s] = NoScreen
    /\ screen' = [screen EXCEPT ![s] = [stage |-> "read", licenceNo |-> licenceNo]]
    /\ UNCHANGED <<row, licenceNo, lock, tx, overwritten>>

\* save() reads the row again and compares.
ScreenCompare(s) ==
    /\ screen[s].stage = "read"
    /\ screen' = [screen EXCEPT ![s].stage =
                    IF screen[s].licenceNo = licenceNo THEN "same" ELSE "differs"]
    /\ UNCHANGED <<row, licenceNo, lock, tx, overwritten>>

\* The UPDATE waits for a licence write to end.
ScreenWrite(s) ==
    /\ screen[s].stage \in {"same", "differs"}
    /\ lock = Null
    /\ licenceNo' = IF screen[s].stage = "differs" THEN screen[s].licenceNo ELSE licenceNo
    /\ overwritten' = (overwritten \/ screen[s].stage = "differs")
    /\ screen' = [screen EXCEPT ![s] = NoScreen]
    /\ UNCHANGED <<row, lock, tx>>

LCNext ==
    \/ \E e \in Writers :
          \/ \E kind \in Kinds, id \in LicenceIds, body \in Body :
                /\ kind \in {"primary", "remove"} => body = NothingSaid
                /\ TxLock(e, kind, id, body)
          \/ TxClear(e) \/ TxCommit(e) \/ TxRollback(e)
    \/ \E s \in Settings : ScreenRead(s) \/ ScreenCompare(s) \/ ScreenWrite(s)

LCSpec == LCInit /\ [][LCNext]_lcvars

-----------------------------------------------------------------------------
(* Properties                                                              *)

\* admin-licences.controller.ts:33, "at most one primary", with several
\* requests making licences primary at the same time.
AtMostOnePrimary ==
    \A k, l \in LicenceIds : k \in Primaries /\ l \in Primaries => k = l

Published == {l \in Primaries : row[l].isPublished}

\* The settings show the number of the primary published licence, or none.
InStep ==
    IF Published = {} THEN licenceNo = Null
                      ELSE \E l \in Published : licenceNo = row[l].number

\* admin-licences.controller.ts:35: after every licence write the settings hold
\* the number of the primary published licence, until the settings screen
\* writes the column.
SettingsFollowWrites == InStep \/ overwritten

\* site-settings.entity.ts:100: the number is "never edited here": saving the
\* settings screen leaves the settings in step with the licences.  The code does
\* not keep this (README, section 5).
SettingsFollowPrimary == InStep

=============================================================================
