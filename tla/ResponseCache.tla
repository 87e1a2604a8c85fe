--------------------------- MODULE ResponseCache ---------------------------
(***************************************************************************)
(* The in-process response cache (cache.service.ts), the handlers that     *)
(* fill it (cache.interceptor.ts, MediaService.isPubliclyReadable) and the *)
(* writes that purge it (the CRUD kernel, settings, media, messages).      *)
(*                                                                         *)
(* JavaScript runs one callback at a time, so each method of the cache is  *)
(* one step; a handler that reads is interleaved with writes between its   *)
(* queries, and a write between its commit and its purge.                  *)
(*                                                                         *)
(* Data is a version number per tag: what a route reads under a tag.  The  *)
(* response cache and the memo store share the tag index and differ only   *)
(* in their limits.  LRU order is left open: any entry may be pushed out.  *)
(* The hit and miss counters are left out.                                 *)
(***************************************************************************)
EXTENDS Naturals, FiniteSets

CONSTANTS
    Tags,
    PageKeys,       \* keys of the response cache
    MemoKeys,       \* keys of the memo store
    TagsOf,         \* the tags of each key's route
    PreviewKeys,    \* keys of @PreviewAware routes
    WriteTags,      \* the tag sets of the collections and settings written
    Readers,        \* requests on cached routes, handled over and over
    Writers,        \* requests that write
    PageMax,        \* CACHE_MAX_ENTRIES
    MemoMax,        \* MEMO_MAX_ENTRIES
    MaxData,        \* bound: writes to a tag
    MaxPurges,      \* bound: purge count of a tag at which an admin stops purging
    MaxClears,      \* bound: clears of the whole cache
    Nothing         \* no entry, not read yet

Keys == PageKeys \cup MemoKeys

ASSUME CacheConstants ==
    /\ PageKeys \cap MemoKeys = {}
    /\ TagsOf \in [Keys -> SUBSET Tags]
    /\ PreviewKeys \subseteq PageKeys
    /\ WriteTags \subseteq SUBSET Tags
    /\ {PageMax, MemoMax} \subseteq Nat \ {0}
    /\ {MaxData, MaxPurges, MaxClears} \subseteq Nat
    /\ Nothing \notin Nat
    /\ \A k \in Keys : Nothing \notin [TagsOf[k] -> Nat]

VARIABLES
    db,         \* version of each tag's data in the database
    store,      \* the entries of both stores
    tagIndex,   \* keys filed under each tag
    tagVersions,\* purges of each tag
    epoch,      \* clears
    reader,     \* handlers of cached routes: key, snapshot, versions read
    writer,     \* tags a handler has committed to and not purged yet
    floor,      \* history: db at the last purge of each tag
    missed      \* history: tags written by a handler that failed before its purge

vars == <<db, store, tagIndex, tagVersions, epoch, reader, writer, floor, missed>>
cache == <<store, tagIndex, tagVersions, epoch>>

Idle == [key |-> Nothing]
Reading(k) == [key : {k}, version : [epoch : Nat, vers : [TagsOf[k] -> Nat]],
               got : [TagsOf[k] -> Nat \cup {Nothing}]]

TypeOK ==
    /\ db \in [Tags -> Nat]
    /\ \A k \in Keys : store[k] \in [TagsOf[k] -> Nat] \cup {Nothing}
    /\ store = [k \in Keys |-> store[k]]
    /\ tagIndex \in [Tags -> SUBSET Keys]
    /\ tagVersions \in [Tags -> Nat]
    /\ epoch \in Nat
    /\ \A r \in Readers : reader[r] = Idle \/ \E k \in Keys : reader[r] \in Reading(k)
    /\ reader = [r \in Readers |-> reader[r]]
    /\ writer \in [Writers -> SUBSET Tags]
    /\ floor \in [Tags -> Nat]
    /\ missed \in SUBSET Tags

Init ==
    /\ db = [t \in Tags |-> 0]
    /\ store = [k \in Keys |-> Nothing]
    /\ tagIndex = [t \in Tags |-> {}]
    /\ tagVersions = [t \in Tags |-> 0]
    /\ epoch = 0
    /\ reader = [r \in Readers |-> Idle]
    /\ writer = [w \in Writers |-> {}]
    /\ floor = [t \in Tags |-> 0]
    /\ missed = {}

-----------------------------------------------------------------------------
(* CacheService                                                            *)

Stored(keys) == {k \in keys : store[k] # Nothing}

\* Both stores' dispose callback: an entry that goes is untagged.  A key
\* without an entry stays filed.
Untagged(t, gone) == tagIndex[t] \ {k \in Stored(gone) : t \in TagsOf[k]}

\* The string is the epoch and the versions of the route's tags, in order.
VersionOf(tags) == [epoch |-> epoch, vers |-> [t \in tags |-> tagVersions[t]]]

\* Mutant: the key is filed before the entry it replaces is disposed of.
SetEntry_TagFirst(k, value, victims) ==
    /\ store' = [j \in Keys |-> IF j = k THEN value
                                ELSE IF j \in victims THEN Nothing ELSE store[j]]
    /\ tagIndex' = [t \in Tags |->
                      IF t \in TagsOf[k]
                      THEN (tagIndex[t] \cup {k}) \ {j \in Stored(victims \cup {k}) : t \in TagsOf[j]}
                      ELSE Untagged(t, victims \cup {k})]

\* lru-cache disposes of the entry replaced and of those pushed out; then the
\* key is filed, also when the value was too large to be stored.
SetEntry(k, value, victims) ==
    /\ store' = [j \in Keys |-> IF j = k THEN value
                                ELSE IF j \in victims THEN Nothing ELSE store[j]]
    /\ tagIndex' = [t \in Tags |->
                      Untagged(t, victims \cup {k})
                        \cup (IF t \in TagsOf[k] THEN {k} ELSE {})]

\* Which entries a value for k may push out: the store keeps to its limit, and
\* the response cache to its size.
PushesOut(k, victims) ==
    IF k \in MemoKeys
    THEN /\ victims \subseteq Stored(MemoKeys \ {k})
         /\ Cardinality(Stored(MemoKeys \ {k}) \ victims) < MemoMax
         /\ Cardinality(victims) <= 1
    ELSE /\ victims \subseteq Stored(PageKeys \ {k})
         /\ Cardinality(Stored(PageKeys \ {k}) \ victims) < PageMax

\* Mutant: a tag with nothing filed under it returns before the version moves.
PurgeTags_OnlyIfFiled(ts) ==
    /\ tagVersions' = [t \in Tags |-> IF t \in ts /\ tagIndex[t] # {}
                                      THEN tagVersions[t] + 1 ELSE tagVersions[t]]
    /\ store' = [k \in Keys |-> IF \E t \in ts : k \in tagIndex[t] THEN Nothing ELSE store[k]]
    /\ tagIndex' = [t \in Tags |-> IF t \in ts THEN {}
                                   ELSE Untagged(t, UNION {tagIndex[u] : u \in ts})]
    /\ floor' = [t \in Tags |-> IF t \in ts THEN db[t] ELSE floor[t]]
    /\ missed' = missed \ ts
    /\ UNCHANGED epoch

\* purgeTag of each tag in turn, with no await between them.
PurgeTags(ts) ==
    /\ tagVersions' = [t \in Tags |-> IF t \in ts THEN tagVersions[t] + 1 ELSE tagVersions[t]]
    /\ store' = [k \in Keys |-> IF \E t \in ts : k \in tagIndex[t] THEN Nothing ELSE store[k]]
    /\ tagIndex' = [t \in Tags |-> IF t \in ts THEN {}
                                   ELSE Untagged(t, UNION {tagIndex[u] : u \in ts})]
    /\ floor' = [t \in Tags |-> IF t \in ts THEN db[t] ELSE floor[t]]
    /\ missed' = missed \ ts
    /\ UNCHANGED epoch

\* Mutant: clear() forgets the handlers that are still reading.
Clear_SameEpoch ==
    /\ epoch < MaxClears
    /\ store' = [k \in Keys |-> Nothing]
    /\ tagIndex' = [t \in Tags |-> {}]
    /\ floor' = db
    /\ missed' = {}
    /\ UNCHANGED <<epoch, tagVersions, db, reader, writer>>

\* DELETE /admin/cache: clear(), or purgeTag of the tag that is named.
Clear ==
    /\ epoch < MaxClears
    /\ epoch' = epoch + 1
    /\ store' = [k \in Keys |-> Nothing]
    /\ tagIndex' = [t \in Tags |-> {}]
    /\ floor' = db
    /\ missed' = {}
    /\ UNCHANGED <<tagVersions, db, reader, writer>>

AdminPurge(t) ==
    /\ tagVersions[t] < MaxPurges
    /\ PurgeTags({t})
    /\ UNCHANGED <<db, reader, writer>>

\* Mutant: the memo store is built without a ttl.
Expire_PagesOnly(k) ==
    /\ k \in Stored(PageKeys)
    /\ store' = [store EXCEPT ![k] = Nothing]
    /\ tagIndex' = [t \in Tags |-> Untagged(t, {k})]
    /\ UNCHANGED <<tagVersions, epoch, db, reader, writer, floor, missed>>

\* The ttl of either store.
Expire(k) ==
    /\ k \in Stored(Keys)
    /\ store' = [store EXCEPT ![k] = Nothing]
    /\ tagIndex' = [t \in Tags |-> Untagged(t, {k})]
    /\ UNCHANGED <<tagVersions, epoch, db, reader, writer, floor, missed>>

-----------------------------------------------------------------------------
(* CacheInterceptor.intercept and isPubliclyReadable                       *)

\* A miss, or a ?preview= whose token turns out not to be valid.
ReadBegin(r, k) ==
    /\ reader[r] = Idle
    /\ store[k] = Nothing \/ k \in PreviewKeys
    /\ reader' = [reader EXCEPT ![r] = [key |-> k, version |-> VersionOf(TagsOf[k]),
                                        got |-> [t \in TagsOf[k] |-> Nothing]]]
    /\ UNCHANGED <<db, cache, writer, floor, missed>>

\* One of the handler's queries.
ReadQuery(r, t) ==
    /\ reader[r] # Idle
    /\ t \in TagsOf[reader[r].key]
    /\ reader[r].got[t] = Nothing
    /\ reader' = [reader EXCEPT ![r].got[t] = db[t]]
    /\ UNCHANGED <<db, cache, writer, floor, missed>>

ReadComplete(r) ==
    /\ reader[r] # Idle
    /\ \A t \in TagsOf[reader[r].key] : reader[r].got[t] # Nothing

\* Mutant: the snapshot is not compared.
MayStore_Always(r) == TRUE

MayStore(r) == reader[r].version = VersionOf(TagsOf[reader[r].key])

\* set() or setMemo(): refused, too large, or stored.
ReadStore(r) ==
    LET k == reader[r].key IN
    /\ ReadComplete(r)
    /\ \/ ~MayStore(r) /\ UNCHANGED <<store, tagIndex>>
       \/ MayStore(r) /\ k \in PageKeys /\ SetEntry(k, Nothing, {})
       \/ /\ MayStore(r)
          /\ \E victims \in SUBSET Stored(Keys) :
                PushesOut(k, victims) /\ SetEntry(k, reader[r].got, victims)
    /\ reader' = [reader EXCEPT ![r] = Idle]
    /\ UNCHANGED <<tagVersions, epoch, db, writer, floor, missed>>

\* The handler threw, a preview was verified, or skipCacheWrite is set.
ReadEnd(r) ==
    /\ reader[r] # Idle
    /\ reader' = [reader EXCEPT ![r] = Idle]
    /\ UNCHANGED <<db, cache, writer, floor, missed>>

-----------------------------------------------------------------------------
(* Writes: commit, then purge in the callback that follows                 *)

WriteCommit(w, ts) ==
    /\ writer[w] = {}
    /\ \A t \in ts : db[t] < MaxData
    /\ db' = [t \in Tags |-> IF t \in ts THEN db[t] + 1 ELSE db[t]]
    /\ writer' = [writer EXCEPT ![w] = ts]
    /\ UNCHANGED <<cache, reader, floor, missed>>

WritePurge(w) ==
    /\ writer[w] # {}
    /\ PurgeTags(writer[w])
    /\ writer' = [writer EXCEPT ![w] = {}]
    /\ UNCHANGED <<db, reader>>

\* The commit took effect and a later await failed: the answer to the commit
\* itself, or clearRedirectsInto.  Nothing is purged.
WriteFail(w) ==
    /\ writer[w] # {}
    /\ missed' = missed \cup writer[w]
    /\ writer' = [writer EXCEPT ![w] = {}]
    /\ UNCHANGED <<db, cache, reader, floor>>

\* The process restarts: the cache and every handler are gone.
Restart ==
    /\ store' = [k \in Keys |-> Nothing]
    /\ tagIndex' = [t \in Tags |-> {}]
    /\ tagVersions' = [t \in Tags |-> 0]
    /\ epoch' = 0
    /\ reader' = [r \in Readers |-> Idle]
    /\ writer' = [w \in Writers |-> {}]
    /\ floor' = db
    /\ missed' = {}
    /\ UNCHANGED db

Next ==
    \/ Clear \/ Restart
    \/ \E t \in Tags : AdminPurge(t)
    \/ \E k \in Keys : Expire(k)
    \/ \E r \in Readers :
          \/ \E k \in Keys : ReadBegin(r, k)
          \/ \E t \in Tags : ReadQuery(r, t)
          \/ ReadStore(r) \/ ReadEnd(r)
    \/ \E w \in Writers :
          \/ \E ts \in WriteTags : WriteCommit(w, ts)
          \/ WritePurge(w) \/ WriteFail(w)

\* Queries are answered, callbacks run and entries outlive their ttl by no more
\* than the next access.
Fairness ==
    /\ \A r \in Readers : WF_vars((\E t \in Tags : ReadQuery(r, t)) \/ ReadStore(r))
    /\ \A w \in Writers : WF_vars(WritePurge(w) \/ WriteFail(w))
    /\ \A k \in Keys : WF_vars(Expire(k))

Spec == Init /\ [][Next]_vars /\ Fairness

-----------------------------------------------------------------------------
(* Properties                                                              *)

\* cache.service.ts:83 (C31): no entry is older than the last purge of one of
\* its tags, whichever handlers were reading while it ran.
PurgeIsFinal ==
    \A k \in Stored(Keys) : \A t \in TagsOf[k] : store[k][t] >= floor[t]

\* cache.interceptor.ts:49: "a write's purgeTag is authoritative".  An entry is
\* behind the database only between a write's commit and its purge, or after a
\* write that failed in between.
StaleOnlyDuringWrite ==
    \A k \in Stored(Keys) : \A t \in TagsOf[k] :
        store[k][t] < db[t] => t \in missed \/ \E w \in Writers : t \in writer[w]

\* cache.service.ts, set and dispose: every entry can be found through each of
\* its tags, after replacements, evictions and purges of its other tags.
EveryEntryFiled ==
    \A k \in Stored(Keys) : \A t \in TagsOf[k] : k \in tagIndex[t]

\* Once writes stop, every entry ends up equal to the database, those left by a
\* write that failed before its purge included (writes do stop: MaxData).
Converges ==
    <>[](\A k \in Stored(Keys) : \A t \in TagsOf[k] : store[k][t] = db[t])

\* The cache implements its contract, in which there is no tag index and no
\* version: a purge of a tag is final.
Contract == INSTANCE CacheContract WITH data <- db, floor <- floor, held <- store
ImplementsContract == Contract!Spec

=============================================================================
