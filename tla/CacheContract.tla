--------------------------- MODULE CacheContract ---------------------------
(***************************************************************************)
(* What the response cache promises its callers (cache.service.ts), told   *)
(* without tag index, versions or handlers: a purge of a tag is final.     *)
(* Whatever is held under a tag was read no earlier than the last purge of *)
(* that tag; a purge leaves nothing held under it; anything held may be    *)
(* dropped at any time.                                                    *)
(***************************************************************************)
EXTENDS Naturals

CONSTANTS
    Tags,       \* what writes purge and reads are stored under
    Keys,       \* cache keys
    TagsOf,     \* the tags of each key's route
    Nothing     \* no entry

VARIABLES
    data,       \* which version of each tag's data is committed
    floor,      \* the version committed when the tag was last purged
    held       \* what is held for each key: the version read of each tag

Init ==
    /\ data = [t \in Tags |-> 0]
    /\ floor = [t \in Tags |-> 0]
    /\ held = [k \in Keys |-> Nothing]

Write(ts) ==
    /\ data' = [t \in Tags |-> IF t \in ts THEN data[t] + 1 ELSE data[t]]
    /\ UNCHANGED <<floor, held>>

Purge(ts) ==
    /\ floor' = [t \in Tags |-> IF t \in ts THEN data[t] ELSE floor[t]]
    /\ held' = [k \in Keys |-> IF TagsOf[k] \cap ts # {} THEN Nothing ELSE held[k]]
    /\ UNCHANGED data

\* Everything goes, in one purge: a clear.
Clear ==
    /\ floor' = data
    /\ held' = [k \in Keys |-> Nothing]
    /\ UNCHANGED data

\* Filling an entry may push out others, or not succeed after all.
Fill(k, lost) ==
    /\ \A j \in Keys \ {k} : held'[j] = IF j \in lost THEN Nothing ELSE held[j]
    /\ \/ held'[k] = Nothing
       \/ /\ held'[k] \in [TagsOf[k] -> Nat]
          /\ \A t \in TagsOf[k] : floor[t] <= held'[k][t] /\ held'[k][t] <= data[t]
    /\ UNCHANGED <<data, floor>>

Drop(lost) ==
    /\ held' = [k \in Keys |-> IF k \in lost THEN Nothing ELSE held[k]]
    /\ UNCHANGED <<data, floor>>

Next ==
    \/ \E ts \in SUBSET Tags : Write(ts) \/ Purge(ts)
    \/ \E lost \in SUBSET Keys : Drop(lost) \/ \E k \in Keys : Fill(k, lost)
    \/ Clear

Spec == Init /\ [][Next]_<<data, floor, held>>

=============================================================================
