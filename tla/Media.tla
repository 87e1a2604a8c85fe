------------------------------- MODULE Media -------------------------------
(***************************************************************************)
(* The media library: rows of media_assets and media_variants, their files *)
(* in storage, and the rows of other tables that show an asset             *)
(* (media.service.ts, the storage drivers, scripts/reprocess-media.mjs).   *)
(*                                                                         *)
(* Files and rows are written one after the other, by requests and by the  *)
(* script: each awaited statement is one step, and a failure or a Crash    *)
(* may come between any two.  The three WebP variants are one file here,   *)
(* written and deleted after the original.  An upload that is refused      *)
(* (type, size, pixels) changes nothing and is left out, as are reads      *)
(* (lists, /files: ResponseCache has the memo that gates them).  A         *)
(* transaction that fails is taken not to have committed.                  *)
(***************************************************************************)
EXTENDS Naturals

CONSTANTS
    Assets,     \* ids: of the row, and of its storage keys
    Contents,   \* uploaded bytes; the checksum is a hash of them
    Images,     \* those that are images; the others are PDFs
    Owners,     \* rows of the six tables with a *_asset_id
    Reqs,       \* requests, handled over and over
    MaxHandled  \* bound: requests handled

Nothing == "none"

ASSUME MediaConstants ==
    MaxHandled \in Nat /\ Images \subseteq Contents /\ Nothing \notin Contents \cup Assets

VARIABLES
    asset,      \* media_assets with, per row, whether it has rows in media_variants
    files,      \* storage: <<asset, part>>
    owner,      \* the asset each owner shows
    req,        \* requests in flight
    handled,    \* requests begun
    used,       \* ids handed out
    script,     \* reprocess-media.mjs
    revived,    \* history: assets inserted again by the save of an alt text
    strays      \* history: files known to be lost to a fault

mdhistory == <<revived, strays>>
mdvars == <<asset, files, owner, req, handled, used, script, mdhistory>>

Parts == {"original", "variant"}
PartsOf(c) == IF c \in Images THEN Parts ELSE {"original"}
NoRow == [content |-> Nothing]
AssetRow == [content : Contents, alt : BOOLEAN, variants : BOOLEAN] \cup {NoRow}
NoRequest == [stage |-> "idle"]
NoScript == [stage |-> "idle", todo |-> {}, on |-> Nothing, parts |-> {}]
Request ==
    [op : {"upload"}, stage : {"original", "variant", "insert", "clean"}, on : Assets, content : Contents,
     written : SUBSET Parts]
    \cup [op : {"alt"}, stage : {"load", "write"}, on : Assets, content : Contents]
    \cup [op : {"attach", "edit"}, stage : {"write"}, on : Assets \cup {Nothing}, to : Owners]
    \cup [op : {"remove"}, stage : {"usages", "variants", "row", "original", "variant"}, on : Assets,
          parts : SUBSET Parts]

Asset(a) == asset[a] # NoRow
Owned(f) == Asset(f[1]) /\ (f[2] = "original" \/ asset[f[1]].variants)

MDTypeOK ==
    /\ asset \in [Assets -> AssetRow]
    /\ files \subseteq Assets \X Parts /\ strays \subseteq Assets \X Parts
    /\ owner \in [Owners -> Assets \cup {Nothing}]
    /\ req \in [Reqs -> Request \cup {NoRequest}]
    /\ handled \in 0..MaxHandled
    /\ used \subseteq Assets /\ revived \subseteq used
    /\ script \in [stage : {"idle", "next", "rows", "original", "variant"}, todo : SUBSET Assets,
                    on : Assets \cup {Nothing}, parts : SUBSET Parts]
    \* uq_assets_checksum
    /\ \A a, b \in Assets : Asset(a) /\ asset[a].content = asset[b].content => a = b

MDInit ==
    /\ asset = [a \in Assets |-> NoRow] /\ files = {}
    /\ owner = [o \in Owners |-> Nothing]
    /\ req = [r \in Reqs |-> NoRequest] /\ handled = 0 /\ used = {}
    /\ script = NoScript
    /\ revived = {} /\ strays = {}

-----------------------------------------------------------------------------
(* Requests                                                                *)

At(r, op, stage) == req[r].stage = stage /\ req[r].op = op
Goto(r, stage) == req' = [req EXCEPT ![r].stage = stage]
End(r) == req' = [req EXCEPT ![r] = NoRequest]
Start(r, record) ==
    /\ req[r] = NoRequest /\ handled < MaxHandled
    /\ handled' = handled + 1
    /\ req' = [req EXCEPT ![r] = record]

Holds(c) == \E a \in Assets : asset[a].content = c

\* driver.remove: a failure is logged and the file stays.
Delete(a, parts) ==
    \E lost \in SUBSET parts :
        /\ files' = files \ ({a} \X (parts \ lost))
        /\ strays' = strays \cup ({a} \X lost)

-----------------------------------------------------------------------------
(* upload: checksum look-up, files, rows                                   *)

UploadFind(r, a, c) ==
    /\ a \notin used /\ ~Holds(c)
    /\ used' = used \cup {a}
    /\ Start(r, [op |-> "upload", stage |-> "original", on |-> a, content |-> c, written |-> {}])
    /\ UNCHANGED <<asset, files, owner, script, mdhistory>>

\* Mutant: a put that fails is passed over.
UploadPut_Lenient(r) ==
    LET a == req[r].on
        part == req[r].stage
        done == req[r].written \cup {part}
    IN
    /\ req[r] # NoRequest /\ req[r].op = "upload" /\ part \in Parts
    /\ req' = [req EXCEPT ![r].written = done,
                          ![r].stage = IF done = PartsOf(req[r].content) THEN "insert" ELSE "variant"]
    /\ files' \in {files, files \cup {<<a, part>>}}
    /\ UNCHANGED <<asset, owner, handled, used, script, mdhistory>>

\* A put that fails may leave part of the file, which is not in `written`.
UploadPut(r) ==
    LET a == req[r].on
        part == req[r].stage
        done == req[r].written \cup {part}
        next == IF done = PartsOf(req[r].content) THEN "insert" ELSE "variant"
    IN
    /\ req[r] # NoRequest /\ req[r].op = "upload" /\ part \in Parts
    /\ \/ /\ files' = files \cup {<<a, part>>}
          /\ req' = [req EXCEPT ![r].written = done, ![r].stage = next]
          /\ UNCHANGED strays
       \/ /\ Goto(r, "clean")
          /\ \/ files' = files \cup {<<a, part>>} /\ strays' = strays \cup {<<a, part>>}
             \/ UNCHANGED <<files, strays>>
    /\ UNCHANGED <<asset, owner, handled, used, script, revived>>

\* Mutant: no unique key on the checksum.
UploadInsert_NotUnique(r) ==
    LET a == req[r].on
        c == req[r].content
    IN
    /\ At(r, "upload", "insert") /\ End(r)
    /\ asset' = [asset EXCEPT ![a] = [content |-> c, alt |-> FALSE, variants |-> c \in Images]]
    /\ UNCHANGED <<files, owner, handled, used, script, mdhistory>>

\* One transaction for both tables.  It fails on uq_assets_checksum, or otherwise.
UploadInsert(r) ==
    LET a == req[r].on
        c == req[r].content
    IN
    /\ At(r, "upload", "insert")
    /\ \/ /\ ~Holds(c)
          /\ asset' = [asset EXCEPT ![a] = [content |-> c, alt |-> FALSE, variants |-> c \in Images]]
          /\ End(r)
       \/ Goto(r, "clean") /\ UNCHANGED asset
    /\ UNCHANGED <<files, owner, handled, used, script, mdhistory>>

\* Mutant: a failed upload leaves its files.
UploadClean_None(r) ==
    /\ At(r, "upload", "clean") /\ End(r)
    /\ UNCHANGED <<asset, files, strays, owner, handled, used, script, revived>>

\* The files go; then the answer is the error, or the winner of the race.
UploadClean(r) ==
    /\ At(r, "upload", "clean") /\ End(r)
    /\ Delete(req[r].on, req[r].written)
    /\ UNCHANGED <<asset, owner, handled, used, script, revived>>

-----------------------------------------------------------------------------
(* setAltText: findById, and save(), which reads the row again             *)

AltFind(r, a) ==
    /\ Asset(a)
    /\ Start(r, [op |-> "alt", stage |-> "load", on |-> a, content |-> asset[a].content])
    /\ UNCHANGED <<asset, files, owner, used, script, mdhistory>>

\* save() takes a row that is gone for a new one; its variants do not return.
AltLoad(r) ==
    LET a == req[r].on
        c == req[r].content
        again == ~Asset(a) /\ ~Holds(c)
    IN
    /\ At(r, "alt", "load")
    /\ IF Asset(a) THEN Goto(r, "write") ELSE End(r)
    /\ asset' = IF again THEN [asset EXCEPT ![a] = [content |-> c, alt |-> TRUE, variants |-> FALSE]] ELSE asset
    /\ revived' = IF again THEN revived \cup {a} ELSE revived
    /\ strays' = IF again THEN strays \cup {<<a, "variant">>} ELSE strays
    /\ UNCHANGED <<files, owner, handled, used, script>>

AltWrite(r) ==
    LET a == req[r].on IN
    /\ At(r, "alt", "write") /\ End(r)
    /\ asset' = IF Asset(a) THEN [asset EXCEPT ![a].alt = TRUE] ELSE asset
    /\ UNCHANGED <<files, owner, handled, used, script, mdhistory>>

-----------------------------------------------------------------------------
(* The owners: the kernel's create and update, and remove                  *)

\* assertAltTextReady.  Of an asset that is gone it says nothing.
AltTextReady(a) == asset[a].content \in Images => asset[a].alt

\* The editor picks an asset of the library, which may have been removed by now.
Listed(a) == a \in used /\ ~\E r \in Reqs : req[r] # NoRequest /\ req[r].op = "upload" /\ req[r].on = a

Attach(r, o, a) ==
    /\ Listed(a) /\ AltTextReady(a)
    /\ Start(r, [op |-> "attach", stage |-> "write", on |-> a, to |-> o])
    /\ UNCHANGED <<asset, files, owner, used, script, mdhistory>>

\* An update of other columns writes back the asset it has read.
Edit(r, o) ==
    /\ Start(r, [op |-> "edit", stage |-> "write", on |-> owner[o], to |-> o])
    /\ UNCHANGED <<asset, files, owner, used, script, mdhistory>>

\* The foreign key: the asset must be there.
OwnerWrite(r) ==
    LET a == req[r].on IN
    /\ req[r].stage = "write" /\ req[r].op \in {"attach", "edit"}
    /\ owner' = IF a = Nothing \/ Asset(a) THEN [owner EXCEPT ![req[r].to] = a] ELSE owner
    /\ End(r)
    /\ UNCHANGED <<asset, files, handled, used, script, mdhistory>>

\* An owner is deleted, or shows nothing any more.
Release(o) ==
    /\ owner[o] # Nothing
    /\ owner' = [owner EXCEPT ![o] = Nothing]
    /\ UNCHANGED <<asset, files, req, handled, used, script, mdhistory>>

-----------------------------------------------------------------------------
(* remove: usages, variants, the row, then the files                       *)

Used(a) == \E o \in Owners : owner[o] = a

RemoveFind(r, a) ==
    /\ Asset(a)
    /\ Start(r, [op |-> "remove", stage |-> "usages", on |-> a, parts |-> {"original"}])
    /\ UNCHANGED <<asset, files, owner, used, script, mdhistory>>

RemoveUsages(r) ==
    /\ At(r, "remove", "usages")
    /\ IF Used(req[r].on) THEN End(r) ELSE Goto(r, "variants")
    /\ UNCHANGED <<asset, files, owner, handled, used, script, mdhistory>>

RemoveVariants(r) ==
    LET a == req[r].on
        parts == IF Asset(a) /\ asset[a].variants THEN Parts ELSE {"original"}
    IN
    /\ At(r, "remove", "variants")
    /\ req' = [req EXCEPT ![r].stage = "row", ![r].parts = parts]
    /\ UNCHANGED <<asset, files, owner, handled, used, script, mdhistory>>

\* Mutant: the foreign keys of the owners do not restrict, the code's check remains.
Restricts_None(a) == FALSE

\* ON DELETE RESTRICT of the six foreign keys.
Restricts(a) == Used(a)

RemoveRow(r) ==
    LET a == req[r].on IN
    /\ At(r, "remove", "row")
    /\ IF Restricts(a) THEN End(r) /\ UNCHANGED asset
       ELSE Goto(r, "original") /\ asset' = [asset EXCEPT ![a] = NoRow]
    /\ UNCHANGED <<files, owner, handled, used, script, mdhistory>>

RemoveFile(r) ==
    LET part == req[r].stage IN
    /\ req[r] # NoRequest /\ req[r].op = "remove" /\ part \in Parts
    /\ Delete(req[r].on, {part})
    /\ IF part = "original" /\ "variant" \in req[r].parts THEN Goto(r, "variant") ELSE End(r)
    /\ UNCHANGED <<asset, owner, handled, used, script, revived>>

-----------------------------------------------------------------------------
(* reprocess-media.mjs, run beside the server                              *)

Done(rest) == IF rest = {} THEN NoScript ELSE [NoScript EXCEPT !.stage = "next", !.todo = rest]

ScriptStart ==
    /\ script = NoScript
    /\ script' = Done({a \in Assets : Asset(a) /\ asset[a].content \in Images})
    /\ UNCHANGED <<asset, files, owner, req, handled, used, mdhistory>>

\* The file is read.  One that is not there, or needs nothing, is passed over.
ScriptRead(a) ==
    /\ script.stage = "next" /\ a \in script.todo
    /\ \/ script' = Done(script.todo \ {a})
       \/ <<a, "original">> \in files /\ script' = [script EXCEPT !.stage = "rows", !.on = a]
    /\ UNCHANGED <<asset, files, owner, req, handled, used, mdhistory>>

\* The rows of the variants are read before anything is written.
ScriptRows ==
    LET a == script.on IN
    /\ script.stage = "rows"
    /\ script' = [script EXCEPT !.stage = "original",
                     !.parts = IF Asset(a) /\ asset[a].variants THEN Parts ELSE {"original"}]
    /\ UNCHANGED <<asset, files, owner, req, handled, used, mdhistory>>

\* A file is written whether or not the asset is still there.
ScriptPut ==
    LET a == script.on
        part == script.stage
    IN
    /\ part \in Parts
    /\ files' = files \cup {<<a, part>>}
    /\ strays' = IF Owned(<<a, part>>) THEN strays ELSE strays \cup {<<a, part>>}
    /\ script' = IF part = "original" /\ "variant" \in script.parts
                 THEN [script EXCEPT !.stage = "variant"] ELSE Done(script.todo \ {a})
    /\ UNCHANGED <<asset, owner, req, handled, used, revived>>

-----------------------------------------------------------------------------

\* The server stops: what it had not finished stays as it is.
Crash ==
    /\ \E r \in Reqs : req[r] # NoRequest
    /\ req' = [r \in Reqs |-> NoRequest]
    /\ strays' = strays \cup {f \in files : ~Owned(f)}
    /\ UNCHANGED <<asset, files, owner, handled, used, script, revived>>

\* The script stops.
ScriptStops ==
    /\ script # NoScript
    /\ script' = NoScript
    /\ UNCHANGED <<asset, files, owner, req, handled, used, mdhistory>>

MDNext ==
    \/ \E r \in Reqs, a \in Assets :
          \/ \E c \in Contents : UploadFind(r, a, c)
          \/ AltFind(r, a) \/ RemoveFind(r, a)
          \/ \E o \in Owners : Attach(r, o, a)
    \/ \E r \in Reqs :
          \/ UploadPut(r) \/ UploadInsert(r) \/ UploadClean(r)
          \/ AltLoad(r) \/ AltWrite(r)
          \/ OwnerWrite(r) \/ \E o \in Owners : Edit(r, o)
          \/ RemoveUsages(r) \/ RemoveVariants(r) \/ RemoveRow(r) \/ RemoveFile(r)
    \/ \E o \in Owners : Release(o)
    \/ ScriptStart \/ (\E a \in Assets : ScriptRead(a)) \/ ScriptRows \/ ScriptPut \/ ScriptStops
    \/ Crash

MDSpec == MDInit /\ [][MDNext]_mdvars

-----------------------------------------------------------------------------
(* Properties                                                              *)

\* A row never points at files that are not there, but for an asset that the save
\* of an alt text has inserted again after its removal (upload stores the files
\* before the rows, remove deletes them after).
RowsHaveFiles ==
    \A a \in Assets \ revived :
        Asset(a) => {a} \X (IF asset[a].variants THEN Parts ELSE {"original"}) \subseteq files

\* The files that request r will have no more use for, or has still to delete.
InHand(r) ==
    IF req[r] = NoRequest THEN {}
    ELSE CASE req[r].op = "upload" -> {req[r].on} \X req[r].written
           [] req[r].op = "remove" ->
                 {req[r].on} \X (IF req[r].stage = "variant" THEN {"variant"}
                                 ELSE IF req[r].stage = "original" THEN req[r].parts ELSE {})
           [] OTHER -> {}

\* C38: whatever fails or races, two identical uploads included, every file in storage
\* belongs to a row, or a request still has it to delete; a file is lost only to a
\* crash, a put or a delete that fails, or a reprocessing that overlaps a removal.
NoStrayFiles ==
    \A f \in files : Owned(f) \/ f \in strays \/ \E r \in Reqs : f \in InHand(r)

\* What an owner shows is there, has its files and, if it is an image, its Arabic alt
\* text: the check, the removal and an update that writes back an asset it read
\* earlier may come in any order.
ShownIsComplete ==
    \A o \in Owners :
        LET a == owner[o] IN
        a # Nothing =>
            /\ Asset(a) /\ AltTextReady(a)
            /\ a \in revived \/ <<a, "original">> \in files
=============================================================================
