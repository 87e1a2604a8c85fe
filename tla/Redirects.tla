------------------------------ MODULE Redirects ------------------------------
(***************************************************************************)
(* News posts, their addresses, and the redirects from addresses they gave *)
(* up (crud.factory.ts, admin-news.controller.ts, redirects.controller     *)
(* .ts).                                                                   *)
(*                                                                         *)
(* A handler reads an entity, changes it and saves it.  save() reads the   *)
(* row again, compares, and in a transaction writes the columns in which   *)
(* the entity differs, or inserts a row that is gone.  A rename of a       *)
(* published post changes the redirects in that transaction; its scan of   *)
(* redirects locks the table, so those statements and the commit are one   *)
(* step.  Redirects made by hand are checked by assertNoChain and saved    *)
(* later.                                                                  *)
(*                                                                         *)
(* A post's path is its slug.  An id is handed out again only when no row  *)
(* and no request has it.  Left out: the other columns, the query that     *)
(* refuses a taken slug early (the unique index refuses it too), purges    *)
(* (ResponseCache) and statusCode and hits.                                *)
(***************************************************************************)
EXTENDS Naturals, FiniteSets

CONSTANTS
    Posts,          \* ids of posts
    RuleIds,        \* ids of redirects
    Paths,          \* site paths, those of posts included
    Editors,        \* requests on posts, one after another
    RuleEditors,    \* requests on redirects, one after another
    MaxRequests,    \* bound: requests on posts and redirects, deletes aside
    None            \* no row; no id

Keep == "keep"                              \* a field that is not in the body
Post == [slug : Paths, shown : BOOLEAN]
Rule == [from : Paths, to : Paths]

ASSUME RedirectConstants ==
    /\ None \notin Post \cup Rule \cup Posts \cup RuleIds
    /\ Keep \notin Paths
    /\ MaxRequests \in Nat

VARIABLES
    post,           \* posts: slug and is_published
    rule,           \* redirects
    edit,           \* the requests on posts
    ruling,         \* the requests on redirects
    former,         \* history: which post gave a path up while it was published
    astray,         \* history: posts renamed while they were not published
    stale,          \* history: requests on redirects since whose first look these changed
    begun           \* how many requests have begun

vars == <<post, rule, edit, ruling, former, astray, stale, begun>>
history == <<former, astray, stale>>

Idle == [stage |-> "idle"]
Saving == [stage : {"read", "compared", "written"}, id : Posts, was : Post, now : Post,
           diff : SUBSET {"slug", "shown", "row"}]
Created == [stage : {"created"}, path : Paths]
Ruling == [stage : {"asked", "vetted", "loaded", "compared"}, id : RuleIds \cup {None},
           body : [from : Paths \cup {Keep}, to : Paths \cup {Keep}], now : Rule,
           diff : SUBSET {"from", "to", "row"}]

TypeOK ==
    /\ post \in [Posts -> Post \cup {None}]
    /\ rule \in [RuleIds -> Rule \cup {None}]
    /\ edit \in [Editors -> Saving \cup Created \cup {Idle}]
    /\ ruling \in [RuleEditors -> Ruling \cup {Idle}]
    /\ former \in [Paths -> Posts \cup {None}]
    /\ astray \subseteq Posts
    /\ stale \subseteq RuleEditors
    /\ begun \in 0 .. MaxRequests

\* Posts written earlier, under their first addresses.
Init ==
    /\ post \in [Posts -> Post \cup {None}]
    /\ \A p, q \in Posts : post[p] # None /\ post[q] # None /\ p # q => post[p].slug # post[q].slug
    /\ rule = [i \in RuleIds |-> None]
    /\ edit = [e \in Editors |-> Idle]
    /\ ruling = [e \in RuleEditors |-> Idle]
    /\ former = [a \in Paths |-> None]
    /\ astray = {}
    /\ stale = {}
    /\ begun = 0

-----------------------------------------------------------------------------
(* Rows                                                                    *)

ExistingPosts == {p \in Posts : post[p] # None}
ExistingRules == {i \in RuleIds : rule[i] # None}

Writing(e) == edit[e].stage = "written" /\ edit[e].diff # {}
LockedPosts == {edit[e].id : e \in {f \in Editors : Writing(f)}}

\* uq_posts_slug: no other row has the slug, nor is about to when it commits.
SlugFree(a, p) ==
    /\ \A q \in ExistingPosts \ {p} : post[q].slug # a
    /\ \A e \in Editors : Writing(e) /\ edit[e].diff \cap {"slug", "row"} # {} =>
          edit[e].id = p \/ edit[e].now.slug # a

FreshPost(p) ==
    /\ post[p] = None
    /\ \A e \in Editors : edit[e].stage \in {"read", "compared", "written"} => edit[e].id # p
FreshRule(i) ==
    /\ rule[i] = None
    /\ \A e \in RuleEditors : ruling[e] # Idle => ruling[e].id # i

\* Paths whose owner is no longer promised an address.
Forgotten(rows, paths) ==
    [a \in Paths |-> IF a \in paths \/ former[a] \in rows THEN None ELSE former[a]]

\* A change of the redirects outdates what the requests on them have read.
Outdated(rules) == IF rules = rule THEN stale ELSE {e \in RuleEditors : ruling[e] # Idle}

-----------------------------------------------------------------------------
(* Redirects that follow posts                                             *)

\* clearRedirectsInto: nothing leads away from a path that is taken.
Cleared(rules, path) ==
    [i \in RuleIds |-> IF rules[i] # None
                          /\ (rules[i].from = path \/ rules[i].from = rules[i].to)
                       THEN None ELSE rules[i]]

Repointed(rules, from, to) ==
    [i \in RuleIds |-> IF rules[i] # None /\ rules[i].to = from
                       THEN [rules[i] EXCEPT !.to = to] ELSE rules[i]]

\* Mutants: chains are not collapsed; the new path is not cleared.
Renamed_NotCollapsed(new, from, to) ==
    Cleared([i \in RuleIds |-> IF i = new THEN [from |-> from, to |-> to]
                               ELSE IF rule[i] # None /\ rule[i].from = from THEN None
                               ELSE rule[i]], to)
Renamed_NotCleared(new, from, to) ==
    LET rules == Repointed(rule, from, to)
    IN [i \in RuleIds |-> IF i = new THEN [from |-> from, to |-> to]
                          ELSE IF rules[i] # None /\ rules[i].from = from THEN None
                          ELSE rules[i]]

\* saveWithRedirect for a published post; the new rule has a new id.
Renamed(new, from, to) ==
    LET rules == Repointed(rule, from, to)
    IN Cleared([i \in RuleIds |-> IF i = new THEN [from |-> from, to |-> to]
                                  ELSE IF rules[i] # None /\ rules[i].from = from THEN None
                                  ELSE rules[i]], to)

-----------------------------------------------------------------------------
(* Posts: create and remove                                                *)

\* The slug is generated and free; the row is committed by its INSERT.
Create(e, p, a, shown) ==
    /\ edit[e] = Idle
    /\ FreshPost(p) /\ SlugFree(a, p)
    /\ post' = [post EXCEPT ![p] = [slug |-> a, shown |-> shown]]
    /\ edit' = [edit EXCEPT ![e] = [stage |-> "created", path |-> a]]
    /\ former' = Forgotten({p}, {a})
    /\ astray' = astray \ {p}
    /\ begun < MaxRequests /\ begun' = begun + 1
    /\ UNCHANGED <<rule, ruling, stale>>

ClearRedirectsInto(e) ==
    /\ edit[e].stage = "created"
    /\ rule' = Cleared(rule, edit[e].path)
    /\ edit' = [edit EXCEPT ![e] = Idle]
    /\ former' = Forgotten({}, {edit[e].path})
    /\ stale' = Outdated(rule')
    /\ UNCHANGED <<post, ruling, astray, begun>>

\* One post, or each legacy post in turn.
Remove(p) ==
    /\ post[p] # None /\ p \notin LockedPosts
    /\ post' = [post EXCEPT ![p] = None]
    /\ former' = Forgotten({p}, {})
    /\ UNCHANGED <<rule, edit, ruling, astray, stale, begun>>

-----------------------------------------------------------------------------
(* Posts: update and publish                                               *)

\* findOrNotFound, Object.assign.  publish changes is_published only.
UpdateRead(e, p, now) ==
    /\ edit[e] = Idle
    /\ post[p] # None
    /\ edit' = [edit EXCEPT ![e] = [stage |-> "read", id |-> p, was |-> post[p], now |-> now,
                                    diff |-> {}]]
    /\ begun < MaxRequests /\ begun' = begun + 1
    /\ UNCHANGED <<post, rule, ruling, history>>

Differs(row, now) == {f \in DOMAIN now : row[f] # now[f]}

SaveCompare(e) ==
    LET row == post[edit[e].id] IN
    /\ edit[e].stage = "read"
    /\ edit' = [edit EXCEPT ![e].stage = "compared",
                            ![e].diff = IF row = None THEN {"row"}
                                        ELSE Differs(row, edit[e].now)]
    /\ UNCHANGED <<post, rule, ruling, history, begun>>

\* The UPDATE or INSERT: it waits for the row and for the slug.
SaveWrite(e) ==
    LET x == edit[e] IN
    /\ x.stage = "compared"
    /\ x.diff # {} => x.id \notin LockedPosts
    /\ "row" \in x.diff => post[x.id] = None
    /\ x.diff \cap {"slug", "row"} # {} => SlugFree(x.now.slug, x.id)
    /\ edit' = [edit EXCEPT ![e].stage = "written"]
    /\ UNCHANGED <<post, rule, ruling, history, begun>>

\* What the statement left in the row; an UPDATE of a row that is gone does
\* nothing.
Saved(row, now, diff) ==
    IF "row" \in diff THEN now
    ELSE IF row = None THEN None
    ELSE [f \in DOMAIN row |-> IF f \in diff THEN now[f] ELSE row[f]]

\* Another request changed the row since this one read it: the save does not
\* take it from was to now.
Overtaken(e) ==
    LET x == edit[e] IN
    post[x.id] = None \/ post[x.id].slug # x.was.slug
        \/ Saved(post[x.id], x.now, x.diff).slug # x.now.slug

LeavesRedirect(x) == x.was.slug # x.now.slug /\ x.was.shown

SaveCommit(e) ==
    LET x == edit[e] IN
    /\ x.stage = "written"
    /\ post' = [post EXCEPT ![x.id] = Saved(@, x.now, x.diff)]
    /\ CASE x.was.slug = x.now.slug -> UNCHANGED rule
         [] LeavesRedirect(x) ->
               \E i \in RuleIds : FreshRule(i) /\ rule' = Renamed(i, x.was.slug, x.now.slug)
         [] OTHER -> rule' = Cleared(rule, x.now.slug)
    /\ edit' = [edit EXCEPT ![e] = Idle]
    /\ IF Overtaken(e)
       THEN former' = Forgotten({x.id} \cup {q \in ExistingPosts : post[q].slug = x.was.slug},
                                {x.was.slug, x.now.slug})
       ELSE former' = [Forgotten({}, {x.now.slug}) EXCEPT
                         ![x.was.slug] = IF LeavesRedirect(x) THEN x.id ELSE @]
    /\ astray' = IF x.was.slug # x.now.slug /\ ~x.was.shown THEN astray \cup {x.id} ELSE astray
    /\ stale' = Outdated(rule')
    /\ UNCHANGED <<ruling, begun>>

\* 404, 409, a deadlock, a failed statement: a transaction rolls back, and a
\* post that was created keeps the redirects into its path.
EditFails(e) ==
    /\ edit[e] # Idle
    /\ edit' = [edit EXCEPT ![e] = Idle]
    /\ UNCHANGED <<post, rule, ruling, history, begun>>

-----------------------------------------------------------------------------
(* Redirects made by hand                                                  *)

\* Mutant: only the target is looked at.
Chains_TargetOnly(id, r) ==
    \E i \in ExistingRules \ {id} : rule[i].from \in {r.from, r.to}

\* assertNoChain
Chains(id, r) ==
    \E i \in ExistingRules \ {id} : rule[i].from \in {r.from, r.to} \/ rule[i].to = r.from

Ask(e, id, body, now) ==
    /\ ruling[e] = Idle
    /\ now.from # now.to
    /\ ruling' = [ruling EXCEPT ![e] = [stage |-> "asked", id |-> id, body |-> body,
                                        now |-> now, diff |-> {}]]
    /\ begun < MaxRequests /\ begun' = begun + 1
    /\ UNCHANGED <<post, rule, edit, history>>

NoBody == [from |-> Keep, to |-> Keep]

Assigned(row, body) ==
    [f \in DOMAIN row |-> IF body[f] = Keep THEN row[f] ELSE body[f]]

RuleCreate(e, now) == Ask(e, None, NoBody, now)
RuleUpdate(e, i, body) == rule[i] # None /\ Ask(e, i, body, Assigned(rule[i], body))

AssertNoChain(e) ==
    /\ ruling[e].stage = "asked"
    /\ ~Chains(ruling[e].id, ruling[e].now)
    /\ ruling' = [ruling EXCEPT ![e].stage = "vetted"]
    /\ stale' = IF ruling[e].id = None THEN stale \ {e} ELSE stale
    /\ UNCHANGED <<post, rule, edit, former, astray, begun>>

FromFree(id, a) == \A i \in ExistingRules \ {id} : rule[i].from # a

RuleInsert(e, i) ==
    /\ ruling[e].stage = "vetted" /\ ruling[e].id = None
    /\ FreshRule(i) /\ FromFree(i, ruling[e].now.from)
    /\ rule' = [rule EXCEPT ![i] = ruling[e].now]
    /\ ruling' = [ruling EXCEPT ![e] = Idle]
    /\ former' = Forgotten({}, {ruling[e].now.from})
    /\ stale' = Outdated(rule') \ {e}
    /\ UNCHANGED <<post, edit, astray, begun>>

\* The generated update reads the row once more.
RuleLoad(e) ==
    LET x == ruling[e] IN
    /\ x.stage = "vetted" /\ x.id # None
    /\ rule[x.id] # None
    /\ ruling' = [ruling EXCEPT ![e].stage = "loaded",
                                ![e].now = Assigned(rule[x.id], x.body),
                                ![e].body = NoBody]
    /\ UNCHANGED <<post, rule, edit, history, begun>>

RuleCompare(e) ==
    LET x == ruling[e] IN
    /\ x.stage = "loaded"
    /\ ruling' = [ruling EXCEPT ![e].stage = "compared",
                                ![e].diff = IF rule[x.id] = None THEN {"row"}
                                            ELSE Differs(rule[x.id], x.now)]
    /\ UNCHANGED <<post, rule, edit, history, begun>>

Written(e) == Saved(rule[ruling[e].id], ruling[e].now, ruling[e].diff)

RuleWrite(e) ==
    LET x == ruling[e]
        held == {rule[i].from : i \in {x.id} \cap ExistingRules}
    IN
    /\ x.stage = "compared"
    /\ "row" \in x.diff => rule[x.id] = None
    /\ Written(e) # None => FromFree(x.id, Written(e).from)
    /\ rule' = [rule EXCEPT ![x.id] = Written(e)]
    /\ ruling' = [ruling EXCEPT ![e] = Idle]
    /\ former' = IF x.diff = {} THEN former ELSE Forgotten({}, held \cup {x.now.from})
    /\ stale' = Outdated(rule') \ {e}
    /\ UNCHANGED <<post, edit, astray, begun>>

RuleRemove(i) ==
    /\ rule[i] # None
    /\ rule' = [rule EXCEPT ![i] = None]
    /\ former' = Forgotten({}, {rule[i].from})
    /\ UNCHANGED <<post, edit, ruling, astray, begun>>
    /\ stale' = Outdated(rule')

\* 400, 404, 409, a failed statement.
RuleFails(e) ==
    /\ ruling[e] # Idle
    /\ ruling' = [ruling EXCEPT ![e] = Idle]
    /\ stale' = stale \ {e}
    /\ UNCHANGED <<post, rule, edit, former, astray, begun>>

Next ==
    \/ \E e \in Editors :
          \/ \E p \in Posts, a \in Paths, shown \in BOOLEAN : Create(e, p, a, shown)
          \/ \E p \in Posts, now \in Post : UpdateRead(e, p, now)
          \/ ClearRedirectsInto(e) \/ SaveCompare(e) \/ SaveWrite(e) \/ SaveCommit(e)
          \/ EditFails(e)
    \/ \E p \in Posts : Remove(p)
    \/ \E e \in RuleEditors :
          \/ \E now \in Rule : RuleCreate(e, now)
          \/ \E i \in RuleIds, body \in [from : Paths \cup {Keep}, to : Paths \cup {Keep}] :
                RuleUpdate(e, i, body)
          \/ \E i \in RuleIds : RuleInsert(e, i)
          \/ AssertNoChain(e) \/ RuleLoad(e) \/ RuleCompare(e) \/ RuleWrite(e) \/ RuleFails(e)
    \/ \E i \in RuleIds : RuleRemove(i)

Spec == Init /\ [][Next]_vars

-----------------------------------------------------------------------------
(* Properties                                                              *)

OneHop(rules) ==
    \A i, j \in RuleIds : rules[i] # None /\ rules[j] # None => rules[i].to # rules[j].from

RuleEnds(e) == ruling[e].stage \in {"vetted", "compared"} /\ ruling'[e] = Idle

\* redirects.controller.ts:61 (C10): redirects lead there in one hop.  No rename
\* and no removal makes a chain, whatever runs at the same time; a redirect
\* written by hand does only if the redirects changed since its handler first looked.
OnlyStaleChecksChain ==
    [][OneHop(rule) => OneHop(rule') \/ \E e \in stale : RuleEnds(e)]_vars

LedAway(p) == post[p] # None /\ \E i \in ExistingRules : rule[i].from = post[p].slug

\* crud.factory.ts, clearRedirectsInto (C14): a path that is taken has no
\* redirect away from it.  A post comes to be hidden behind a redirect only by
\* one made by hand, by the save of an entity that another request overtook, and
\* in a create before its second statement.
LivePathsStayFree ==
    [][\A p \in Posts : LedAway(p)' =>
         \/ LedAway(p) /\ post'[p].slug = post[p].slug
         \/ \E e \in RuleEditors : RuleEnds(e) /\ rule' # rule
         \/ \E e \in Editors : \/ edit[e] = Idle /\ edit'[e].stage = "created"
                               \/ edit[e].stage = "written" /\ edit'[e] = Idle /\ Overtaken(e)]_vars

Leads(a) == \E i \in ExistingRules : rule[i] = [from |-> a, to |-> post[former[a]].slug]

\* crud.factory.ts, saveWithRedirect (I-7): the address a published post gave up
\* leads to its present one through any later renames, unless the post was
\* renamed while it was not published, a save of it was overtaken, another post
\* or an admin took the address over, or the post's create cleared it late.
OldAddressesLead ==
    \A a \in Paths : former[a] # None /\ former[a] \notin astray => Leads(a)

=============================================================================
