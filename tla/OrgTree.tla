------------------------------ MODULE OrgTree ------------------------------
(***************************************************************************)
(* The organisation chart (admin-org-positions.controller.ts, tree-guard   *)
(* .ts): who reports to whom, while several administrators move, publish   *)
(* and delete positions.                                                   *)
(*                                                                         *)
(* Creating and moving lock every row of org_positions, check the new      *)
(* parent and save.  Deleting locks one row.  Publishing is the generic    *)
(* handler of crud.factory.ts: it reads the entity and saves it later, and *)
(* save() reads the row again and writes whatever differs from the entity. *)
(* Sort order, names and publication are left out.                         *)
(***************************************************************************)
EXTENDS Naturals, FiniteSets

CONSTANTS
    Positions,      \* ids org_positions may hand out
    Members,        \* rows of board_members
    Editors,        \* requests that create, move or delete
    Publishers,     \* requests that publish
    MaxDepth,       \* ORG_MAX_DEPTH
    Top,            \* parent_id is null
    None            \* no row; no position; no holder; parentId not in the body

ASSUME OrgConstants ==
    /\ IsFiniteSet(Positions)
    /\ MaxDepth \in Nat \ {0}
    /\ Top \notin Positions /\ None \notin Positions /\ Top # None
    /\ None \notin Editors

VARIABLES
    parent,         \* org_positions.parent_id
    used,           \* ids handed out so far
    post,           \* board_members.org_position_id
    tree,           \* who locks the whole table
    tx,             \* transactions that create, move or delete
    publishing      \* publish requests: the entity and what save() found

vars == <<parent, used, post, tree, tx, publishing>>

Idle == [stage |-> "idle"]
Forests == [Positions -> Positions \cup {Top, None}]
OpenTx == [stage : {"write"}, id : Positions, to : Positions \cup {Top, None}, rows : Forests]
          \cup [stage : {"remove"}, id : Positions]
Stages == {"read", "same", "differs", "gone"}

TypeOK ==
    /\ parent \in Forests
    /\ used \subseteq Positions
    /\ post \in [Members -> Positions \cup {None}]
    /\ tree \in Editors \cup {None}
    /\ tx \in [Editors -> OpenTx \cup {Idle}]
    /\ publishing \in [Publishers -> [stage : Stages, id : Positions, was : Positions \cup {Top}]
                                      \cup {Idle}]

Init ==
    /\ parent = [p \in Positions |-> None]
    /\ used = {}
    /\ post = [m \in Members |-> None]
    /\ tree = None
    /\ tx = [e \in Editors |-> Idle]
    /\ publishing = [s \in Publishers |-> Idle]

Existing(rows) == {p \in Positions : rows[p] # None}

-----------------------------------------------------------------------------
(* tree-guard.ts                                                           *)

\* What a walk has before it after n steps, for n up to the number of positions.
Walk(start, step) ==
    LET at[n \in 0 .. Cardinality(Positions)] == IF n = 0 THEN start ELSE step[at[n - 1]]
    IN at

\* The positions met walking up from p, p included, until a root or one
\* already seen.
Upward(rows, p) ==
    Walk({p}, [met \in SUBSET Positions |-> met \cup ({rows[q] : q \in met} \cap Positions)])
Chain(rows, p) == Upward(rows, p)[Cardinality(Positions)]

\* isDescendant
IsDescendant(rows, candidate, ancestor) ==
    rows[candidate] \in Positions /\ ancestor \in Chain(rows, rows[candidate])

\* depthOf
DepthOf(rows, p) == Cardinality(Chain(rows, p))

\* subtreeDepth: how many levels below and with p are not empty.
Below(rows, p) ==
    Walk({p}, [level \in SUBSET Positions |-> {q \in Existing(rows) \ {p} : rows[q] \in level}])
SubtreeDepth(rows, p) == Cardinality({n \in 0 .. Cardinality(Positions) : Below(rows, p)[n] # {}})

\* Mutant: only the new parent's depth is counted, not the subtree moved.
CheckParent_DepthUpOnly(rows, id, to) ==
    IF to = Top THEN "ok"
    ELSE IF to = id THEN "SELF_PARENT"
    ELSE IF to \notin Existing(rows) THEN "PARENT_NOT_FOUND"
    ELSE IF IsDescendant(rows, to, id) THEN "CYCLE"
    ELSE IF DepthOf(rows, to) + 1 > MaxDepth THEN "TOO_DEEP" ELSE "ok"

\* checkParent.  A new position is not in rows and has a subtree of one level.
CheckParent(rows, id, to) ==
    IF to = Top THEN IF SubtreeDepth(rows, id) > MaxDepth THEN "TOO_DEEP" ELSE "ok"
    ELSE IF to = id THEN "SELF_PARENT"
    ELSE IF to \notin Existing(rows) THEN "PARENT_NOT_FOUND"
    ELSE IF IsDescendant(rows, to, id) THEN "CYCLE"
    ELSE IF DepthOf(rows, to) + SubtreeDepth(rows, id) > MaxDepth THEN "TOO_DEEP" ELSE "ok"

-----------------------------------------------------------------------------
(* Create and update                                                       *)

RowsHeld == {tx[e].id : e \in {f \in Editors : tx[f].stage = "remove"}}

\* Mutant: the rows are read without locking them.
TxLockTree_None(e, id, to) ==
    /\ tx[e] = Idle
    /\ tree' = e
    /\ tx' = [tx EXCEPT ![e] = [stage |-> "write", id |-> id, to |-> to, rows |-> parent]]
    /\ UNCHANGED <<parent, used, post, publishing>>

\* lockTree.  to is the parentId of the body.
TxLockTree(e, id, to) ==
    /\ tx[e] = Idle
    /\ tree = None /\ RowsHeld = {}
    /\ tree' = e
    /\ tx' = [tx EXCEPT ![e] = [stage |-> "write", id |-> id, to |-> to, rows |-> parent]]
    /\ UNCHANGED <<parent, used, post, publishing>>

Ended(e) ==
    /\ tree' = IF tree = e THEN None ELSE tree
    /\ tx' = [tx EXCEPT ![e] = Idle]

\* create: a new id, checked like any other; no parent in the body is a root.
Create(e) ==
    LET t == tx[e]
        to == IF t.to = None THEN Top ELSE t.to
    IN
    /\ t.stage = "write"
    /\ t.id \notin used
    /\ CheckParent(t.rows, t.id, to) = "ok"
    /\ parent' = [parent EXCEPT ![t.id] = to]
    /\ used' = used \cup {t.id}
    /\ Ended(e)
    /\ UNCHANGED <<post, publishing>>

\* update: checked only when the parent changes.
Move(e) ==
    LET t == tx[e]
        moving == t.to # None /\ t.to # parent[t.id]
    IN
    /\ t.stage = "write"
    /\ parent[t.id] # None
    /\ moving => CheckParent(t.rows, t.id, t.to) = "ok"
    /\ parent' = [parent EXCEPT ![t.id] = IF moving THEN t.to ELSE @]
    /\ Ended(e)
    /\ UNCHANGED <<used, post, publishing>>

-----------------------------------------------------------------------------
(* Delete, and the members that keep a position                            *)

\* The row is locked, found and read for the log.
TxLockRow(e, id) ==
    /\ tx[e] = Idle
    /\ tree = None /\ id \notin RowsHeld
    /\ parent[id] # None
    /\ tx' = [tx EXCEPT ![e] = [stage |-> "remove", id |-> id]]
    /\ UNCHANGED <<parent, used, post, tree, publishing>>

InUse(id) == (\E p \in Positions : parent[p] = id) \/ (\E m \in Members : post[m] = id)

\* The usages are listed (409), then the row is deleted; a usage that came in
\* between is refused by the foreign keys.
Remove(e) ==
    /\ tx[e].stage = "remove"
    /\ ~InUse(tx[e].id)
    /\ parent' = [parent EXCEPT ![tx[e].id] = None]
    /\ Ended(e)
    /\ UNCHANGED <<used, post, publishing>>

\* 400, 404, 409, a failed statement.
TxRollback(e) ==
    /\ tx[e] # Idle
    /\ Ended(e)
    /\ UNCHANGED <<parent, used, post, publishing>>

\* A member is given a position or loses it.  The foreign key reads the row,
\* which waits for whoever locks it.
Appoint(m, p) ==
    /\ p # None => parent[p] # None /\ tree = None /\ p \notin RowsHeld
    /\ post' = [post EXCEPT ![m] = p]
    /\ UNCHANGED <<parent, used, tree, tx, publishing>>

-----------------------------------------------------------------------------
(* PATCH :id/publish                                                       *)

\* findOrNotFound
PublishRead(s, id) ==
    /\ publishing[s] = Idle
    /\ parent[id] # None
    /\ publishing' = [publishing EXCEPT ![s] = [stage |-> "read", id |-> id, was |-> parent[id]]]
    /\ UNCHANGED <<parent, used, post, tree, tx>>

\* save() reads the row again.
PublishCompare(s) ==
    LET b == publishing[s] IN
    /\ b.stage = "read"
    /\ publishing' = [publishing EXCEPT ![s].stage =
                        IF parent[b.id] = None THEN "gone"
                        ELSE IF parent[b.id] = b.was THEN "same" ELSE "differs"]
    /\ UNCHANGED <<parent, used, post, tree, tx>>

\* What differs is updated, and a row that is gone is inserted, if its parent
\* exists.  Waits for the locks.
PublishWrite(s) ==
    LET b == publishing[s]
        stale == \/ b.stage = "differs" /\ parent[b.id] # None
                 \/ b.stage = "gone" /\ parent[b.id] = None
    IN
    /\ b.stage \in {"same", "differs", "gone"}
    /\ tree = None /\ {b.id, b.was} \cap RowsHeld = {}
    /\ parent' = IF stale /\ (b.was = Top \/ parent[b.was] # None)
                 THEN [parent EXCEPT ![b.id] = b.was] ELSE parent
    /\ publishing' = [publishing EXCEPT ![s] = Idle]
    /\ UNCHANGED <<used, post, tree, tx>>

-----------------------------------------------------------------------------

Next ==
    \/ \E e \in Editors :
          \/ \E id \in Positions, to \in Positions \cup {Top, None} : TxLockTree(e, id, to)
          \/ \E id \in Positions : TxLockRow(e, id)
          \/ Create(e) \/ Move(e) \/ Remove(e) \/ TxRollback(e)
    \/ \E m \in Members, p \in Positions \cup {None} : Appoint(m, p)
    \/ \E s \in Publishers :
          \/ \E id \in Positions : PublishRead(s, id)
          \/ PublishCompare(s) \/ PublishWrite(s)

Spec == Init /\ [][Next]_vars

-----------------------------------------------------------------------------
(* Properties                                                              *)

\* Every position has a level: 1 for a root, one more than its parent's, and
\* never more than MaxDepth.  No cycle, no missing parent, not too deep.
IsChart(rows) ==
    \E level \in [Existing(rows) -> 1 .. MaxDepth] : \A p \in Existing(rows) :
        \/ rows[p] = Top /\ level[p] = 1
        \/ rows[p] \in Existing(rows) /\ level[p] = level[rows[p]] + 1

\* admin-org-positions.controller.ts:41: concurrent moves, creations and
\* deletions never break a chart between them; only a publish that saves the
\* parent it read earlier does.
MovesKeepChart ==
    [][IsChart(parent) => IsChart(parent') \/ \E s \in Publishers : PublishWrite(s)]_vars

\* tree-guard.ts: of a chart, checkParent accepts exactly the parents that
\* leave a chart.
GuardIsExact ==
    IsChart(parent) =>
        \A id \in Positions, to \in Positions \cup {Top} :
            (CheckParent(parent, id, to) = "ok") <=> IsChart([parent EXCEPT ![id] = to])

\* org-position.entity.ts:10: the tree is kept acyclic and at most MaxDepth
\* deep by tree-guard.ts on every write.
ChartOnEveryWrite == IsChart(parent)

=============================================================================
