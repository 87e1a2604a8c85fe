------------------------ MODULE ResponseCache_proofs ------------------------
(***************************************************************************)
(* Proofs about ResponseCache, for any tags, routes, handlers and limits:  *)
(* a purge is final, the cache is stale only while a write is under way or *)
(* after one that failed, and the cache implements CacheContract.          *)
(***************************************************************************)
EXTENDS ResponseCache, TLAPS

\* What a handler that is still reading holds.  Its snapshot is of the past;
\* while it is still the current one, nothing it read was purged since.
ReadersSound ==
    \A r \in Readers : \A k \in Keys : reader[r] # Idle /\ reader[r].key = k =>
        /\ reader[r].version.epoch <= epoch
        /\ \A t \in TagsOf[k] :
              /\ reader[r].version.epoch = epoch =>
                    reader[r].version.vers[t] <= tagVersions[t]
              /\ reader[r].got[t] # Nothing => reader[r].got[t] <= db[t]
              /\ /\ reader[r].got[t] # Nothing
                 /\ reader[r].version.epoch = epoch
                 /\ reader[r].version.vers[t] = tagVersions[t]
                 => floor[t] <= reader[r].got[t]

\* Entries lie between the last purge and the database.
EntriesSound ==
    \A k \in Keys : store[k] # Nothing =>
       \A t \in TagsOf[k] : floor[t] <= store[k][t] /\ store[k][t] <= db[t]

\* A tag whose data moved since its last purge has a write that still owes the
\* purge, or one that failed owing it.
WritesTracked ==
    \A t \in Tags : /\ floor[t] <= db[t]
                    /\ floor[t] < db[t] => t \in missed \/ \E w \in Writers : t \in writer[w]

\* A key is only filed under tags of its route.
IndexSound == \A t \in Tags : \A k \in tagIndex[t] : t \in TagsOf[k]

Inv == TypeOK /\ EveryEntryFiled /\ IndexSound /\ ReadersSound /\ EntriesSound /\ WritesTracked

-----------------------------------------------------------------------------
(* What the methods of the cache do to the invariant                       *)

LEMMA InitInv == Init => Inv
  BY CacheConstants
     DEF Init, Inv, TypeOK, EveryEntryFiled, IndexSound, ReadersSound, EntriesSound,
         WritesTracked, Stored, Idle, Keys

\* What a purge deletes is exactly what carries one of its tags.
LEMMA PurgeRemoves ==
    ASSUME Inv, NEW ts \in SUBSET Tags, PurgeTags(ts)
    PROVE  store' = [k \in Keys |-> IF TagsOf[k] \cap ts # {} THEN Nothing ELSE store[k]]
<1>1. ASSUME NEW k \in Keys, store[k] # Nothing
      PROVE  (\E t \in ts : k \in tagIndex[t]) <=> TagsOf[k] \cap ts # {}
  BY <1>1, CacheConstants DEF Inv, EveryEntryFiled, IndexSound, Stored
<1> QED
  BY <1>1 DEF PurgeTags

LEMMA PurgeInv ==
    ASSUME Inv, NEW ts \in SUBSET Tags, PurgeTags(ts), UNCHANGED <<db, reader>>,
           \A w \in Writers : writer'[w] = writer[w] \/ (writer[w] = ts /\ writer'[w] = {}),
           writer' \in [Writers -> SUBSET Tags]
    PROVE  Inv'
<1>1. store' = [k \in Keys |-> IF TagsOf[k] \cap ts # {} THEN Nothing ELSE store[k]]
  BY PurgeRemoves
<1>2. TypeOK'
  BY <1>1 DEF Inv, TypeOK, PurgeTags, Untagged, Stored
<1>3. EveryEntryFiled'
  <2> SUFFICES ASSUME NEW k \in Keys, store'[k] # Nothing, NEW t \in TagsOf[k]
               PROVE  k \in tagIndex'[t]
    BY DEF EveryEntryFiled, Stored
  <2>1. TagsOf[k] \cap ts = {} /\ store[k] # Nothing /\ t \in Tags \ ts
    BY <1>1, CacheConstants
  <2>2. k \in tagIndex[t] /\ \A u \in ts : k \notin tagIndex[u]
    BY <2>1 DEF Inv, EveryEntryFiled, IndexSound, Stored
  <2> QED
    BY <2>1, <2>2 DEF PurgeTags, Untagged, Stored
<1>4. IndexSound'
  BY DEF Inv, IndexSound, PurgeTags, Untagged
<1>5. ReadersSound'
  <2> SUFFICES ASSUME NEW r \in Readers, NEW k \in Keys, reader[r] # Idle, reader[r].key = k,
                      NEW t \in TagsOf[k]
               PROVE  /\ reader[r].version.epoch <= epoch
                      /\ reader[r].version.epoch = epoch =>
                            reader[r].version.vers[t] <= tagVersions'[t]
                      /\ reader[r].got[t] # Nothing => reader[r].got[t] <= db[t]
                      /\ /\ reader[r].got[t] # Nothing
                         /\ reader[r].version.epoch = epoch
                         /\ reader[r].version.vers[t] = tagVersions'[t]
                         => floor'[t] <= reader[r].got[t]
    BY DEF Inv, ReadersSound, PurgeTags
  <2>1. t \in Tags /\ tagVersions[t] \in Nat /\ reader[r].version.vers[t] \in Nat
    BY CacheConstants DEF Inv, TypeOK, Reading
  <2>2. /\ tagVersions'[t] = IF t \in ts THEN tagVersions[t] + 1 ELSE tagVersions[t]
        /\ t \notin ts => floor'[t] = floor[t]
    BY <2>1 DEF PurgeTags
  <2> QED
    BY <2>1, <2>2 DEF Inv, ReadersSound
<1>6. EntriesSound'
  BY <1>1, CacheConstants DEF Inv, EntriesSound, PurgeTags
<1>7. WritesTracked'
  BY DEF Inv, WritesTracked, PurgeTags, TypeOK
<1> QED
  BY <1>2, <1>3, <1>4, <1>5, <1>6, <1>7 DEF Inv

\* Storing a value that lies between the last purge and the database, or
\* failing to store it.
LEMMA SetEntryInv ==
    ASSUME Inv, NEW k \in Keys, NEW value, NEW victims \in SUBSET Keys,
           SetEntry(k, value, victims),
           value = Nothing \/ /\ value \in [TagsOf[k] -> Nat]
                              /\ \A t \in TagsOf[k] : floor[t] <= value[t] /\ value[t] <= db[t]
    PROVE  /\ store' = [k2 \in Keys |-> store'[k2]]
           /\ \A j \in Keys : store'[j] \in [TagsOf[j] -> Nat] \cup {Nothing}
           /\ tagIndex' \in [Tags -> SUBSET Keys]
           /\ \A j \in Keys : store'[j] # Nothing => \A t \in TagsOf[j] : j \in tagIndex'[t]
           /\ \A t \in Tags : \A j \in tagIndex'[t] : t \in TagsOf[j]
           /\ \A j \in Keys : store'[j] # Nothing =>
                 \A t \in TagsOf[j] : floor[t] <= store'[j][t] /\ store'[j][t] <= db[t]
<1>1. /\ store' = [k2 \in Keys |-> store'[k2]]
      /\ \A j \in Keys : store'[j] \in [TagsOf[j] -> Nat] \cup {Nothing}
      /\ tagIndex' \in [Tags -> SUBSET Keys]
  BY DEF SetEntry, Untagged, Stored, Inv, TypeOK
<1>2. ASSUME NEW j \in Keys, store'[j] # Nothing, NEW t \in TagsOf[j]
      PROVE  j \in tagIndex'[t]
  BY <1>2, CacheConstants DEF SetEntry, Untagged, Stored, Inv, EveryEntryFiled
<1>3. \A t \in Tags : \A j \in tagIndex'[t] : t \in TagsOf[j]
  BY DEF SetEntry, Untagged, Inv, IndexSound
<1>4. \A j \in Keys : store'[j] # Nothing =>
         \A t \in TagsOf[j] : floor[t] <= store'[j][t] /\ store'[j][t] <= db[t]
  BY DEF SetEntry, Inv, EntriesSound
<1> QED
  BY <1>1, <1>2, <1>3, <1>4

\* What a read may store was read since the last purge of every tag.
LEMMA StoredIsCurrent ==
    ASSUME Inv, NEW r \in Readers, NEW k \in Keys, k = reader[r].key,
           ReadComplete(r), MayStore(r)
    PROVE  /\ reader[r].got \in [TagsOf[k] -> Nat]
           /\ \A t \in TagsOf[k] : floor[t] <= reader[r].got[t] /\ reader[r].got[t] <= db[t]
<1>1. reader[r].got \in [TagsOf[k] -> Nat \cup {Nothing}]
  BY DEF Inv, TypeOK, Reading, ReadComplete
<1>2. \A t \in TagsOf[k] : reader[r].got[t] # Nothing
  BY DEF ReadComplete
<1>3. /\ reader[r].version.epoch = epoch
      /\ \A t \in TagsOf[k] : reader[r].version.vers[t] = tagVersions[t]
  BY DEF MayStore, VersionOf
<1> QED
  BY <1>1, <1>2, <1>3 DEF Inv, ReadersSound, ReadComplete

LEMMA StepInv ==
    ASSUME Inv, [Next]_vars
    PROVE  Inv'
<1>1. CASE Clear
  <2>1. TypeOK'
    BY <1>1 DEF Clear, Inv, TypeOK, Reading
  <2>2. EveryEntryFiled' /\ IndexSound' /\ EntriesSound'
    BY <1>1 DEF Clear, EveryEntryFiled, IndexSound, EntriesSound, Stored
  <2>3. ReadersSound'
    <3>1. \A r \in Readers : \A k \in Keys : reader[r] # Idle /\ reader[r].key = k =>
             reader[r].version.epoch \in Nat
      BY DEF Inv, TypeOK, Reading
    <3> QED
      BY <1>1, <3>1 DEF Clear, Inv, ReadersSound, TypeOK
  <2>4. WritesTracked'
    BY <1>1 DEF Clear, Inv, WritesTracked, TypeOK
  <2> QED
    BY <2>1, <2>2, <2>3, <2>4 DEF Inv
<1>2. CASE Restart
  <2>1. TypeOK'
    BY <1>2 DEF Restart, Inv, TypeOK
  <2>2. EveryEntryFiled' /\ IndexSound' /\ EntriesSound' /\ ReadersSound'
    BY <1>2 DEF Restart, EveryEntryFiled, IndexSound, EntriesSound, ReadersSound, Stored
  <2>3. WritesTracked'
    BY <1>2 DEF Restart, Inv, WritesTracked, TypeOK
  <2> QED
    BY <2>1, <2>2, <2>3 DEF Inv
<1>3. ASSUME NEW t \in Tags, AdminPurge(t)
      PROVE  Inv'
  BY <1>3, PurgeInv DEF AdminPurge, Inv, TypeOK
<1>4. ASSUME NEW k \in Keys, Expire(k)
      PROVE  Inv'
  <2>1. TypeOK'
    BY <1>4 DEF Expire, Inv, TypeOK, Untagged, Stored
  <2>2. EveryEntryFiled'
    BY <1>4, CacheConstants DEF Expire, Inv, TypeOK, EveryEntryFiled, Untagged, Stored
  <2>3. IndexSound' /\ EntriesSound'
    BY <1>4, CacheConstants DEF Expire, Inv, TypeOK, IndexSound, EntriesSound, Untagged
  <2>4. ReadersSound' /\ WritesTracked'
    BY <1>4 DEF Expire, Inv, ReadersSound, WritesTracked
  <2> QED
    BY <2>1, <2>2, <2>3, <2>4 DEF Inv
<1>5. ASSUME NEW r \in Readers, NEW k \in Keys, ReadBegin(r, k)
      PROVE  Inv'
  <2> DEFINE begun == [key |-> k, version |-> VersionOf(TagsOf[k]),
                       got |-> [t \in TagsOf[k] |-> Nothing]]
  <2>1. begun \in Reading(k)
    BY CacheConstants DEF VersionOf, Reading, Inv, TypeOK
  <2>2. reader' = [reader EXCEPT ![r] = begun]
    BY <1>5 DEF ReadBegin
  <2> HIDE DEF begun
  <2>3. TypeOK'
    BY <1>5, <2>1, <2>2 DEF ReadBegin, cache, Inv, TypeOK
  <2>4. ReadersSound'
    <3>1. /\ begun.key = k /\ begun.version.epoch = epoch
          /\ \A t \in TagsOf[k] : begun.version.vers[t] = tagVersions[t] /\ begun.got[t] = Nothing
      BY DEF begun, VersionOf
    <3>2. epoch \in Nat /\ \A t \in TagsOf[k] : tagVersions[t] \in Nat
      BY CacheConstants DEF Inv, TypeOK
    <3> QED
      BY <1>5, <2>2, <3>1, <3>2 DEF ReadBegin, cache, Inv, TypeOK, ReadersSound
  <2>5. EveryEntryFiled' /\ IndexSound' /\ EntriesSound' /\ WritesTracked'
    BY <1>5 DEF ReadBegin, cache, Inv, EveryEntryFiled, IndexSound, EntriesSound,
                WritesTracked, Stored
  <2> QED
    BY <2>3, <2>4, <2>5 DEF Inv
<1>6. ASSUME NEW r \in Readers, NEW t \in Tags, ReadQuery(r, t)
      PROVE  Inv'
  <2>1. PICK k \in Keys : reader[r] \in Reading(k)
    BY <1>6 DEF ReadQuery, Inv, TypeOK
  <2>2. /\ reader[r].key = k /\ t \in TagsOf[k]
        /\ reader'[r] = [reader[r] EXCEPT !.got[t] = db[t]]
        /\ \A q \in Readers \ {r} : reader'[q] = reader[q]
        /\ reader' = [q \in Readers |-> reader'[q]]
    BY <1>6, <2>1 DEF ReadQuery, Reading, Inv, TypeOK
  <2>3. /\ reader'[r] \in Reading(k)
        /\ reader'[r].version = reader[r].version /\ reader'[r].key = k
        /\ reader'[r].got[t] = db[t]
        /\ \A u \in TagsOf[k] \ {t} : reader'[r].got[u] = reader[r].got[u]
    BY <2>1, <2>2 DEF Reading, Inv, TypeOK
  <2>4. TypeOK'
    BY <1>6, <2>2, <2>3 DEF ReadQuery, cache, Inv, TypeOK
  <2>5. ReadersSound'
    <3>1. floor[t] <= db[t] /\ db[t] \in Nat
      BY DEF Inv, WritesTracked, TypeOK
    <3> QED
      BY <1>6, <2>1, <2>2, <2>3, <3>1 DEF ReadQuery, cache, Inv, ReadersSound
  <2>6. EveryEntryFiled' /\ IndexSound' /\ EntriesSound' /\ WritesTracked'
    BY <1>6 DEF ReadQuery, cache, Inv, EveryEntryFiled, IndexSound, EntriesSound,
                WritesTracked, Stored
  <2> QED
    BY <2>4, <2>5, <2>6 DEF Inv
<1>7. ASSUME NEW r \in Readers, ReadStore(r)
      PROVE  Inv'
  <2>1. PICK k \in Keys : reader[r] \in Reading(k) /\ k = reader[r].key
    BY <1>7 DEF ReadStore, ReadComplete, Reading, Inv, TypeOK
  <2>2. /\ reader' = [q \in Readers |-> IF q = r THEN Idle ELSE reader[q]]
        /\ UNCHANGED <<tagVersions, epoch, db, writer, floor, missed>>
    BY <1>7 DEF ReadStore, Inv, TypeOK
  <2>3. ReadersSound' /\ WritesTracked'
    BY <2>2 DEF Inv, ReadersSound, WritesTracked
  <2>4. CASE UNCHANGED <<store, tagIndex>>
    BY <2>2, <2>3, <2>4 DEF Inv, TypeOK, EveryEntryFiled, IndexSound, EntriesSound, Stored
  <2>5. ASSUME NEW value, NEW victims \in SUBSET Keys, SetEntry(k, value, victims),
               value = Nothing \/ /\ value \in [TagsOf[k] -> Nat]
                                  /\ \A t \in TagsOf[k] : floor[t] <= value[t] /\ value[t] <= db[t]
        PROVE  Inv'
    <3>1. TypeOK'
      BY <2>2, <2>5, SetEntryInv DEF Inv, TypeOK
    <3>2. EveryEntryFiled' /\ IndexSound' /\ EntriesSound'
      BY <2>2, <2>5, SetEntryInv DEF EveryEntryFiled, IndexSound, EntriesSound, Stored
    <3> QED
      BY <2>3, <3>1, <3>2 DEF Inv
  <2> QED
    BY <1>7, <2>1, <2>4, <2>5, StoredIsCurrent DEF ReadStore, Stored
<1>8. ASSUME NEW r \in Readers, ReadEnd(r)
      PROVE  Inv'
  BY <1>8 DEF ReadEnd, cache, Inv, TypeOK, EveryEntryFiled, IndexSound, ReadersSound,
              EntriesSound, WritesTracked, Stored
<1>9. ASSUME NEW w \in Writers, NEW ts \in WriteTags, WriteCommit(w, ts)
      PROVE  Inv'
  <2>1. ts \in SUBSET Tags
    BY CacheConstants
  <2>2. TypeOK'
    BY <1>9, <2>1 DEF WriteCommit, cache, Inv, TypeOK
  <2>3. \A t \in Tags : /\ db[t] \in Nat /\ db'[t] \in Nat /\ db[t] <= db'[t]
                        /\ t \notin ts => db'[t] = db[t]
    BY <1>9 DEF WriteCommit, Inv, TypeOK
  <2>4. EveryEntryFiled' /\ IndexSound'
    BY <1>9 DEF WriteCommit, cache, Inv, EveryEntryFiled, IndexSound, Stored
  <2>5. EntriesSound'
    <3>1. \A k \in Keys : store[k] # Nothing => \A t \in TagsOf[k] : store[k][t] \in Nat
      BY DEF Inv, TypeOK
    <3> QED
      BY <1>9, <2>3, <3>1, CacheConstants DEF WriteCommit, cache, Inv, EntriesSound
  <2>6. ReadersSound'
    <3>1. \A r \in Readers : \A k \in Keys : reader[r] # Idle /\ reader[r].key = k =>
             \A t \in TagsOf[k] : reader[r].got[t] \in Nat \cup {Nothing}
      BY DEF Inv, TypeOK, Reading
    <3> QED
      BY <1>9, <2>3, <3>1, CacheConstants DEF WriteCommit, cache, Inv, ReadersSound
  <2>7. WritesTracked'
    <3>1. \A v \in Writers : writer'[v] = IF v = w THEN ts ELSE writer[v]
      BY <1>9 DEF WriteCommit, Inv, TypeOK
    <3>2. /\ UNCHANGED <<floor, missed>>
          /\ writer[w] = {}
          /\ \A t \in Tags : floor[t] \in Nat
      BY <1>9 DEF WriteCommit, Inv, TypeOK
    <3> QED
      BY <2>3, <3>1, <3>2 DEF Inv, WritesTracked
  <2> QED
    BY <2>2, <2>4, <2>5, <2>6, <2>7 DEF Inv
<1>10. ASSUME NEW w \in Writers, WritePurge(w)
       PROVE  Inv'
  BY <1>10, PurgeInv DEF WritePurge, Inv, TypeOK
<1>11. ASSUME NEW w \in Writers, WriteFail(w)
       PROVE  Inv'
  <2>1. TypeOK'
    BY <1>11 DEF WriteFail, cache, Inv, TypeOK
  <2>2. EveryEntryFiled' /\ IndexSound' /\ EntriesSound' /\ ReadersSound'
    BY <1>11 DEF WriteFail, cache, Inv, EveryEntryFiled, IndexSound, EntriesSound,
                 ReadersSound, Stored
  <2>3. WritesTracked'
    BY <1>11 DEF WriteFail, Inv, WritesTracked, TypeOK
  <2> QED
    BY <2>1, <2>2, <2>3 DEF Inv
<1>12. CASE UNCHANGED vars
  BY <1>12 DEF vars, Inv, TypeOK, EveryEntryFiled, IndexSound, ReadersSound, EntriesSound,
               WritesTracked, Stored
<1> QED
  BY <1>1, <1>2, <1>3, <1>4, <1>5, <1>6, <1>7, <1>8, <1>9, <1>10, <1>11, <1>12 DEF Next

LEMMA Invariant == Spec => []Inv
  BY InitInv, StepInv, PTL DEF Spec

-----------------------------------------------------------------------------
(* Results                                                                 *)

\* cache.service.ts:83 (C31): no entry is older than the last purge of one of
\* its tags, whichever handlers were reading while it ran.
THEOREM PurgesAreFinal == Spec => []PurgeIsFinal
<1>1. Inv => PurgeIsFinal
  BY CacheConstants DEF Inv, TypeOK, EntriesSound, PurgeIsFinal, Stored
<1> QED
  BY <1>1, Invariant, PTL

\* cache.interceptor.ts:49: an entry is behind the database only between a
\* write's commit and its purge, or after a write that failed in between.
THEOREM StalenessIsOwed == Spec => []StaleOnlyDuringWrite
<1>1. Inv => StaleOnlyDuringWrite
  BY CacheConstants DEF Inv, TypeOK, EntriesSound, WritesTracked, StaleOnlyDuringWrite, Stored
<1> QED
  BY <1>1, Invariant, PTL

\* cache.service.ts, set and dispose: whatever is evicted, replaced or purged by
\* another tag meanwhile, a purge finds every entry through each of its tags.
THEOREM EntriesAreFiled == Spec => []EveryEntryFiled
<1>1. Inv => EveryEntryFiled
  BY DEF Inv
<1> QED
  BY <1>1, Invariant, PTL

\* cache.service.ts, set, purgeTag, clear and dispose: tag index, versions and
\* evictions together behave as the contract, in which a purge is final.
THEOREM CacheImplementsContract == Spec => ImplementsContract
<1>1. Init => Contract!Init
  BY DEF Init, Contract!Init
<1>2. ASSUME Inv, [Next]_vars
      PROVE  [Contract!Next]_<<db, floor, store>>
  <2>1. CASE Clear \/ Restart
    BY <2>1 DEF Clear, Restart, Contract!Next, Contract!Clear
  <2>2. ASSUME NEW ts \in SUBSET Tags, PurgeTags(ts), UNCHANGED db
        PROVE  Contract!Next
    <3>1. Contract!Purge(ts)
      BY <1>2, <2>2, PurgeRemoves DEF PurgeTags, Contract!Purge
    <3> QED
      BY <3>1 DEF Contract!Next
  <2>3. ASSUME NEW t \in Tags, AdminPurge(t)
        PROVE  Contract!Next
    BY <2>2, <2>3 DEF AdminPurge
  <2>4. ASSUME NEW w \in Writers, WritePurge(w)
        PROVE  Contract!Next
    BY <1>2, <2>2, <2>4 DEF WritePurge, Inv, TypeOK
  <2>5. ASSUME NEW k \in Keys, Expire(k)
        PROVE  Contract!Next
    <3>1. Contract!Drop({k})
      BY <1>2, <2>5 DEF Expire, Contract!Drop, Inv, TypeOK
    <3> QED
      BY <3>1 DEF Contract!Next
  <2>6. ASSUME NEW r \in Readers, ReadStore(r)
        PROVE  [Contract!Next]_<<db, floor, store>>
    <3>1. PICK k \in Keys : k = reader[r].key
      BY <1>2, <2>6 DEF ReadStore, ReadComplete, Reading, Inv, TypeOK
    <3>2. ASSUME NEW value, NEW victims \in SUBSET Keys, SetEntry(k, value, victims),
                 value = Nothing \/ /\ value \in [TagsOf[k] -> Nat]
                                    /\ \A t \in TagsOf[k] : floor[t] <= value[t] /\ value[t] <= db[t]
          PROVE  Contract!Next
      <4>1. Contract!Fill(k, victims)
        BY <2>6, <3>2 DEF ReadStore, SetEntry, Contract!Fill
      <4> QED
        BY <4>1 DEF Contract!Next
    <3> QED
      BY <1>2, <2>6, <3>1, <3>2, StoredIsCurrent DEF ReadStore, Stored
  <2>7. ASSUME NEW w \in Writers, NEW ts \in WriteTags, WriteCommit(w, ts)
        PROVE  Contract!Next
    <3>1. ts \in SUBSET Tags /\ Contract!Write(ts)
      BY <2>7, CacheConstants DEF WriteCommit, cache, Contract!Write
    <3> QED
      BY <3>1 DEF Contract!Next
  <2>8. ASSUME NEW r \in Readers,
               \/ \E k \in Keys : ReadBegin(r, k)
               \/ \E t \in Tags : ReadQuery(r, t)
               \/ ReadEnd(r)
        PROVE  UNCHANGED <<db, floor, store>>
    BY <2>8 DEF ReadBegin, ReadQuery, ReadEnd, cache
  <2>9. ASSUME NEW w \in Writers, WriteFail(w)
        PROVE  UNCHANGED <<db, floor, store>>
    BY <2>9 DEF WriteFail, cache
  <2> QED
    BY <1>2, <2>1, <2>3, <2>4, <2>5, <2>6, <2>7, <2>8, <2>9 DEF Next, vars
<1> QED
  BY <1>1, <1>2, Invariant, PTL DEF Spec, ImplementsContract, Contract!Spec

=============================================================================
