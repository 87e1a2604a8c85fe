------------------------- MODULE AdminWrites_proofs -------------------------
(***************************************************************************)
(* Proofs about Redirects, for any posts, redirects, paths and requests,   *)
(* about Licences, for any licences, writers and requests of the settings  *)
(* screen, and about Media, for any assets, contents, owners and requests. *)
(* The three components share no state.                                    *)
(***************************************************************************)
EXTENDS Redirects, Licences, Media, TLAPS

(***************************************************************************)
(* PART 1.  Redirects: the address a published post gave up leads to its   *)
(* present one, no request that saw the redirects as they are makes a      *)
(* chain, and a post is not hidden behind a redirect.                      *)
(***************************************************************************)


-----------------------------------------------------------------------------
(* Rows                                                                    *)

LEMMA PostIs ==
    ASSUME NEW x \in Post
    PROVE  /\ x.slug \in Paths /\ x.shown \in BOOLEAN /\ DOMAIN x = {"slug", "shown"}
           /\ x["slug"] = x.slug /\ x["shown"] = x.shown /\ x # None
  BY RedirectConstants DEF Post

LEMMA MergedPost ==
    ASSUME NEW old \in Post, NEW now \in Post, NEW diff
    PROVE  LET new == [f \in DOMAIN old |-> IF f \in diff THEN now[f] ELSE old[f]]
           IN  /\ new \in Post
               /\ new.slug = IF "slug" \in diff THEN now.slug ELSE old.slug
<1> DEFINE new == [f \in DOMAIN old |-> IF f \in diff THEN now[f] ELSE old[f]]
<1>1. DOMAIN old = {"slug", "shown"}
  BY PostIs
<1>2. new["slug"] = IF "slug" \in diff THEN now["slug"] ELSE old["slug"]
  BY <1>1
<1>3. new["shown"] = IF "shown" \in diff THEN now["shown"] ELSE old["shown"]
  BY <1>1
<1>4. DOMAIN new = {"slug", "shown"}
  BY <1>1
<1>5. new = [slug |-> new["slug"], shown |-> new["shown"]]
  BY <1>1, <1>4
<1> QED
  BY <1>2, <1>3, <1>5, PostIs DEF Post

\* What a statement leaves of a post.
LEMMA SavedIs ==
    ASSUME NEW old \in Post \cup {None}, NEW now \in Post, NEW diff
    PROVE  /\ Saved(old, now, diff) \in Post \cup {None}
           /\ "row" \in diff => Saved(old, now, diff) = now
           /\ "row" \notin diff /\ old = None => Saved(old, now, diff) = None
           /\ "row" \notin diff /\ old # None =>
                 /\ Saved(old, now, diff) # None
                 /\ "slug" \in diff => Saved(old, now, diff).slug = now.slug
                 /\ "slug" \notin diff => Saved(old, now, diff).slug = old.slug
           /\ diff = {} => Saved(old, now, diff) = old
<1>1. CASE "row" \notin diff /\ old # None
  <2> DEFINE new == [f \in DOMAIN old |-> IF f \in diff THEN now[f] ELSE old[f]]
  <2>1. old \in Post /\ Saved(old, now, diff) = new
    BY <1>1 DEF Saved
  <2>2. new \in Post /\ new.slug = IF "slug" \in diff THEN now.slug ELSE old.slug
    BY <2>1, MergedPost
  <2>3. diff = {} => new = old
    BY <2>1, PostIs DEF Post
  <2> HIDE DEF new
  <2> QED
    BY <1>1, <2>1, <2>2, <2>3, PostIs
<1>2. CASE "row" \in diff
  BY <1>2 DEF Saved
<1>3. CASE "row" \notin diff /\ old = None
  BY <1>3 DEF Saved
<1> QED
  BY <1>1, <1>2, <1>3

LEMMA SavedSlug ==
    ASSUME NEW old \in Post \cup {None}, NEW now \in Post, NEW diff,
           Saved(old, now, diff) # None
    PROVE  \/ old # None /\ Saved(old, now, diff).slug = old.slug
           \/ ("slug" \in diff \/ "row" \in diff) /\ Saved(old, now, diff).slug = now.slug
<1>1. CASE "row" \in diff
  BY <1>1, SavedIs
<1>2. CASE "row" \notin diff /\ old = None
  BY <1>2 DEF Saved
<1>3. CASE "row" \notin diff /\ old # None
  BY <1>3, SavedIs
<1> QED
  BY <1>1, <1>2, <1>3

LEMMA RuleIs ==
    ASSUME NEW x \in Rule
    PROVE  /\ x.from \in Paths /\ x.to \in Paths /\ DOMAIN x = {"from", "to"}
           /\ x["from"] = x.from /\ x["to"] = x.to /\ x # None
  BY RedirectConstants DEF Rule

\* What a statement leaves of a redirect, and what a body makes of one.
LEMMA MergedRule ==
    ASSUME NEW old \in Rule, NEW now \in Rule, NEW diff
    PROVE  LET new == [f \in DOMAIN old |-> IF f \in diff THEN now[f] ELSE old[f]]
           IN  /\ new \in Rule
               /\ new.from = IF "from" \in diff THEN now.from ELSE old.from
               /\ new.to = IF "to" \in diff THEN now.to ELSE old.to
<1> DEFINE new == [f \in DOMAIN old |-> IF f \in diff THEN now[f] ELSE old[f]]
<1>1. DOMAIN old = {"from", "to"}
  BY RuleIs
<1>2. new["from"] = IF "from" \in diff THEN now["from"] ELSE old["from"]
  BY <1>1
<1>3. new["to"] = IF "to" \in diff THEN now["to"] ELSE old["to"]
  BY <1>1
<1>4. DOMAIN new = {"from", "to"}
  BY <1>1
<1>5. new = [from |-> new["from"], to |-> new["to"]]
  BY <1>1, <1>4
<1> QED
  BY <1>2, <1>3, <1>5, RuleIs DEF Rule

LEMMA SavedRuleIs ==
    ASSUME NEW old \in Rule \cup {None}, NEW now \in Rule, NEW diff
    PROVE  /\ Saved(old, now, diff) \in Rule \cup {None}
           /\ diff = {} => Saved(old, now, diff) = old
           /\ old # None /\ diff = Differs(old, now) => Saved(old, now, diff) = now
           /\ Saved(old, now, diff) # None =>
                 Saved(old, now, diff).from = now.from \/ (old # None /\ Saved(old, now, diff).from = old.from)
<1>1. CASE "row" \notin diff /\ old # None
  <2> DEFINE new == [f \in DOMAIN old |-> IF f \in diff THEN now[f] ELSE old[f]]
  <2>1. old \in Rule /\ Saved(old, now, diff) = new
    BY <1>1 DEF Saved
  <2>2. /\ new \in Rule /\ new.from = IF "from" \in diff THEN now.from ELSE old.from
        /\ new.to = IF "to" \in diff THEN now.to ELSE old.to
    BY <2>1, MergedRule
  <2>3. diff = {} => new = old
    BY <2>1, RuleIs DEF Rule
  <2>4. ASSUME diff = Differs(old, now)
        PROVE  new = now
    <3>1. ("from" \notin diff => old["from"] = now["from"]) /\ ("to" \notin diff => old["to"] = now["to"])
      BY <2>4, RuleIs DEF Differs
    <3>2. new.from = now.from /\ new.to = now.to
      BY <2>1, <2>2, <3>1, RuleIs
    <3> HIDE DEF new
    <3> QED
      BY <2>2, <3>2 DEF Rule
  <2> HIDE DEF new
  <2> QED
    BY <1>1, <2>1, <2>2, <2>3, <2>4, RuleIs
<1>2. CASE "row" \in diff
  <2>1. old # None => "row" \notin Differs(old, now)
    BY RuleIs DEF Differs
  <2> QED
    BY <1>2, <2>1 DEF Saved
<1>3. CASE "row" \notin diff /\ old = None
  BY <1>3 DEF Saved
<1> QED
  BY <1>1, <1>2, <1>3

Bodies == [from : Paths \cup {Keep}, to : Paths \cup {Keep}]

LEMMA AssignedIs ==
    ASSUME NEW old \in Rule, NEW body \in Bodies
    PROVE  /\ Assigned(old, body) \in Rule
           /\ body = NoBody => Assigned(old, body) = old
<1> DEFINE new == [f \in DOMAIN old |-> IF body[f] = Keep THEN old[f] ELSE body[f]]
<1>1. DOMAIN old = {"from", "to"} /\ old["from"] \in Paths /\ old["to"] \in Paths
  BY RuleIs
<1>2. body["from"] \in Paths \cup {Keep} /\ body["to"] \in Paths \cup {Keep}
  BY DEF Bodies
<1>3. new["from"] \in Paths /\ new["to"] \in Paths /\ DOMAIN new = {"from", "to"}
  BY <1>1, <1>2
<1>4. new = [from |-> new["from"], to |-> new["to"]]
  BY <1>1, <1>3
<1>5. new \in Rule
  <2> HIDE DEF new
  <2> QED
    BY <1>3, <1>4 DEF Rule
<1>6. body = NoBody => new = old
  BY <1>1 DEF NoBody, Rule
<1> QED
  BY <1>5, <1>6 DEF Assigned

-----------------------------------------------------------------------------
(* Requests                                                                *)

LEMMA EditIs ==
    ASSUME TypeOK, NEW e \in Editors
    PROVE  /\ edit[e] \in Saving \cup Created \cup {Idle}
           /\ edit[e].stage = "idle" <=> edit[e] = Idle
           /\ edit[e].stage = "created" => edit[e] \in Created /\ edit[e].path \in Paths
           /\ edit[e].stage \in {"read", "compared", "written"} =>
                 /\ edit[e] \in Saving /\ edit[e].id \in Posts /\ edit[e].was \in Post /\ edit[e].now \in Post
                 /\ edit[e].diff \in SUBSET {"slug", "shown", "row"}
<1>1. edit[e] \in Saving \cup Created \cup {Idle}
  BY DEF TypeOK
<1>2. CASE edit[e] \in Saving
  BY <1>2 DEF Saving, Idle
<1>3. CASE edit[e] \in Created
  BY <1>3 DEF Created, Idle
<1>4. CASE edit[e] = Idle
  BY <1>4 DEF Idle
<1> QED
  BY <1>1, <1>2, <1>3, <1>4

LEMMA RulingIs ==
    ASSUME TypeOK, NEW e \in RuleEditors
    PROVE  /\ ruling[e] \in Ruling \cup {Idle}
           /\ ruling[e].stage = "idle" <=> ruling[e] = Idle
           /\ ruling[e] # Idle => /\ ruling[e] \in Ruling /\ ruling[e].id \in RuleIds \cup {None}
                                  /\ ruling[e].body \in Bodies /\ ruling[e].now \in Rule
                                  /\ ruling[e].diff \in SUBSET {"from", "to", "row"}
                                  /\ ruling[e].stage \in {"asked", "vetted", "loaded", "compared"}
<1>1. ruling[e] \in Ruling \cup {Idle}
  BY DEF TypeOK
<1>2. CASE ruling[e] \in Ruling
  BY <1>2 DEF Ruling, Idle, Bodies
<1>3. CASE ruling[e] = Idle
  BY <1>3 DEF Idle
<1> QED
  BY <1>1, <1>2, <1>3

\* A request goes on: only its place and what it found to differ change.
LEMMA EditMoves ==
    ASSUME TypeOK, NEW e \in Editors, edit[e].stage \in {"read", "compared", "written"},
           NEW stage \in {"read", "compared", "written"}, NEW diff \in SUBSET {"slug", "shown", "row"},
           edit' = [edit EXCEPT ![e].stage = stage, ![e].diff = diff]
    PROVE  /\ edit' \in [Editors -> Saving \cup Created \cup {Idle}]
           /\ edit'[e].stage = stage /\ edit'[e].diff = diff
           /\ edit'[e].id = edit[e].id /\ edit'[e].was = edit[e].was /\ edit'[e].now = edit[e].now
           /\ \A f \in Editors \ {e} : edit'[f] = edit[f]
<1> DEFINE new == [edit[e] EXCEPT !.stage = stage, !.diff = diff]
<1>1. edit[e] \in Saving
  BY EditIs
<1>2. edit' = [edit EXCEPT ![e] = new]
  BY DEF TypeOK
<1>3. /\ new \in Saving /\ new.stage = stage /\ new.diff = diff
      /\ new.id = edit[e].id /\ new.was = edit[e].was /\ new.now = edit[e].now
  BY <1>1 DEF Saving
<1> HIDE DEF new
<1> QED
  BY <1>2, <1>3 DEF TypeOK

LEMMA RulingMoves ==
    ASSUME TypeOK, NEW e \in RuleEditors, NEW new \in Ruling, ruling' = [ruling EXCEPT ![e] = new]
    PROVE  /\ ruling' \in [RuleEditors -> Ruling \cup {Idle}]
           /\ ruling'[e] = new /\ new # Idle
           /\ \A f \in RuleEditors \ {e} : ruling'[f] = ruling[f]
  BY DEF TypeOK, Ruling, Idle

\* A save that compared, and one that wrote.
LEMMA EditCompares ==
    ASSUME TypeOK, NEW e \in Editors, SaveCompare(e)
    PROVE  LET diff == IF post[edit[e].id] = None THEN {"row"} ELSE Differs(post[edit[e].id], edit[e].now)
           IN  /\ diff \in SUBSET {"slug", "shown", "row"}
               /\ edit' \in [Editors -> Saving \cup Created \cup {Idle}]
               /\ edit'[e].stage = "compared" /\ edit'[e].diff = diff
               /\ edit'[e].id = edit[e].id /\ edit'[e].was = edit[e].was /\ edit'[e].now = edit[e].now
               /\ \A f \in Editors \ {e} : edit'[f] = edit[f]
<1> DEFINE diff == IF post[edit[e].id] = None THEN {"row"} ELSE Differs(post[edit[e].id], edit[e].now)
<1>1. edit[e].stage = "read" /\ edit[e].now \in Post
  BY EditIs DEF SaveCompare
<1>2. diff \in SUBSET {"slug", "shown", "row"}
  BY <1>1, PostIs DEF Differs
<1>3. edit' = [edit EXCEPT ![e].stage = "compared", ![e].diff = diff]
  BY DEF SaveCompare
<1> HIDE DEF diff
<1>4. /\ edit' \in [Editors -> Saving \cup Created \cup {Idle}]
      /\ edit'[e].stage = "compared" /\ edit'[e].diff = diff
      /\ edit'[e].id = edit[e].id /\ edit'[e].was = edit[e].was /\ edit'[e].now = edit[e].now
      /\ \A f \in Editors \ {e} : edit'[f] = edit[f]
  BY <1>1, <1>2, <1>3, EditMoves
<1> QED
  BY <1>2, <1>4 DEF diff

LEMMA EditWrites ==
    ASSUME TypeOK, NEW e \in Editors, SaveWrite(e)
    PROVE  /\ edit[e].stage = "compared"
           /\ edit' \in [Editors -> Saving \cup Created \cup {Idle}]
           /\ edit'[e].stage = "written" /\ edit'[e].diff = edit[e].diff
           /\ edit'[e].id = edit[e].id /\ edit'[e].was = edit[e].was /\ edit'[e].now = edit[e].now
           /\ \A f \in Editors \ {e} : edit'[f] = edit[f]
<1>1. edit[e].stage = "compared" /\ edit[e] \in Saving /\ edit[e].diff \in SUBSET {"slug", "shown", "row"}
  BY EditIs DEF SaveWrite
<1>2. edit' = [edit EXCEPT ![e].stage = "written"]
  BY DEF SaveWrite
<1>3. [edit[e] EXCEPT !.stage = "written"] = [edit[e] EXCEPT !.stage = "written", !.diff = edit[e].diff]
  BY <1>1 DEF Saving
<1>4. edit' = [edit EXCEPT ![e].stage = "written", ![e].diff = edit[e].diff]
  BY <1>2, <1>3 DEF TypeOK
<1> QED
  BY <1>1, <1>4, EditMoves

\* What each step of a request on a redirect makes of it.
LEMMA RulingAsks ==
    ASSUME TypeOK, NEW e \in RuleEditors, NEW id \in RuleIds \cup {None}, NEW body \in Bodies,
           NEW now \in Rule, Ask(e, id, body, now)
    PROVE  /\ ruling' \in [RuleEditors -> Ruling \cup {Idle}]
           /\ ruling'[e] # Idle /\ ruling'[e].stage = "asked" /\ ruling'[e].id = id
           /\ ruling'[e].now = now /\ ruling'[e].body = body
           /\ \A f \in RuleEditors \ {e} : ruling'[f] = ruling[f]
<1> DEFINE new == [stage |-> "asked", id |-> id, body |-> body, now |-> now, diff |-> {}]
<1>1. new \in Ruling /\ new # Idle
  BY DEF Ruling, Bodies, Idle
<1>2. ruling' = [ruling EXCEPT ![e] = new]
  BY DEF Ask
<1>3. new.stage = "asked" /\ new.id = id /\ new.now = now /\ new.body = body
  OBVIOUS
<1> HIDE DEF new
<1> QED
  BY <1>1, <1>2, <1>3 DEF TypeOK

LEMMA RulingVetted ==
    ASSUME TypeOK, NEW e \in RuleEditors, AssertNoChain(e)
    PROVE  /\ ruling' \in [RuleEditors -> Ruling \cup {Idle}]
           /\ ruling[e] # Idle /\ ruling'[e] # Idle /\ ruling'[e].stage = "vetted"
           /\ ruling'[e].id = ruling[e].id /\ ruling'[e].now = ruling[e].now
           /\ ruling'[e].body = ruling[e].body
           /\ \A f \in RuleEditors \ {e} : ruling'[f] = ruling[f]
<1> DEFINE new == [ruling[e] EXCEPT !.stage = "vetted"]
<1>1. ruling[e] # Idle /\ ruling[e] \in Ruling
  BY RulingIs DEF AssertNoChain, Idle
<1>2. /\ new \in Ruling /\ new.stage = "vetted" /\ new.id = ruling[e].id /\ new.now = ruling[e].now
      /\ new.body = ruling[e].body
  BY <1>1 DEF Ruling
<1>3. ruling' = [ruling EXCEPT ![e] = new]
  BY DEF AssertNoChain
<1> HIDE DEF new
<1> QED
  BY <1>1, <1>2, <1>3, RulingMoves

LEMMA RulingLoads ==
    ASSUME TypeOK, NEW e \in RuleEditors, RuleLoad(e)
    PROVE  /\ ruling' \in [RuleEditors -> Ruling \cup {Idle}]
           /\ ruling[e] # Idle /\ ruling'[e] # Idle /\ ruling'[e].stage = "loaded"
           /\ ruling'[e].id = ruling[e].id /\ ruling[e].id # None /\ rule[ruling[e].id] \in Rule
           /\ ruling'[e].now = Assigned(rule[ruling[e].id], ruling[e].body)
           /\ \A f \in RuleEditors \ {e} : ruling'[f] = ruling[f]
<1>1. ruling[e] # Idle /\ ruling[e] \in Ruling
  BY RulingIs DEF RuleLoad, Idle
<1>2. rule[ruling[e].id] \in Rule /\ ruling[e].id # None
  BY <1>1, RulingIs DEF RuleLoad, TypeOK
<1> DEFINE now == Assigned(rule[ruling[e].id], ruling[e].body)
           new == [ruling[e] EXCEPT !.stage = "loaded", !.now = now, !.body = NoBody]
<1>3. now \in Rule /\ NoBody \in Bodies
  BY <1>1, <1>2, RulingIs, AssignedIs DEF NoBody, Bodies
<1>4. new \in Ruling /\ new.stage = "loaded" /\ new.now = now /\ new.id = ruling[e].id
  <2> HIDE DEF now
  <2> QED
    BY <1>1, <1>3 DEF Ruling, Bodies
<1>5. ruling' = [ruling EXCEPT ![e] = new]
  BY DEF RuleLoad, TypeOK
<1> HIDE DEF new
<1> QED
  BY <1>1, <1>2, <1>4, <1>5, RulingMoves

LEMMA RulingCompares ==
    ASSUME TypeOK, NEW e \in RuleEditors, RuleCompare(e)
    PROVE  /\ ruling' \in [RuleEditors -> Ruling \cup {Idle}]
           /\ ruling[e] # Idle /\ ruling'[e] # Idle /\ ruling'[e].stage = "compared"
           /\ ruling'[e].id = ruling[e].id /\ ruling'[e].now = ruling[e].now
           /\ rule[ruling[e].id] # None => ruling'[e].diff = Differs(rule[ruling[e].id], ruling[e].now)
           /\ \A f \in RuleEditors \ {e} : ruling'[f] = ruling[f]
<1> DEFINE diff == IF rule[ruling[e].id] = None THEN {"row"} ELSE Differs(rule[ruling[e].id], ruling[e].now)
           new == [ruling[e] EXCEPT !.stage = "compared", !.diff = diff]
<1>1. ruling[e] # Idle /\ ruling[e] \in Ruling
  BY RulingIs DEF RuleCompare, Idle
<1>2. diff \in SUBSET {"from", "to", "row"}
  BY <1>1, RulingIs, RuleIs DEF Differs
<1>3. /\ new \in Ruling /\ new.stage = "compared" /\ new.diff = diff /\ new.id = ruling[e].id
      /\ new.now = ruling[e].now
  <2> HIDE DEF diff
  <2> QED
    BY <1>1, <1>2 DEF Ruling
<1>4. ruling' = [ruling EXCEPT ![e] = new]
  BY DEF RuleCompare, TypeOK
<1> HIDE DEF new
<1> QED
  BY <1>1, <1>3, <1>4, RulingMoves

-----------------------------------------------------------------------------
(* Redirects and promises                                                  *)

Rules == [RuleIds -> Rule \cup {None}]

\* clearRedirectsInto takes redirects away and changes none.
LEMMA ClearedIs ==
    ASSUME NEW rules \in Rules, NEW path
    PROVE  /\ Cleared(rules, path) \in Rules
           /\ \A i \in RuleIds :
                 /\ Cleared(rules, path)[i] # None =>
                       /\ Cleared(rules, path)[i] = rules[i]
                       /\ rules[i].from # path /\ rules[i].from # rules[i].to
                 /\ rules[i] # None /\ rules[i].from # path /\ rules[i].from # rules[i].to
                       => Cleared(rules, path)[i] = rules[i]
  BY DEF Cleared, Rules

LEMMA RepointedIs ==
    ASSUME NEW rules \in Rules, NEW from \in Paths, NEW to \in Paths
    PROVE  /\ Repointed(rules, from, to) \in Rules
           /\ \A i \in RuleIds :
                 /\ Repointed(rules, from, to)[i] = None <=> rules[i] = None
                 /\ rules[i] # None =>
                       /\ Repointed(rules, from, to)[i].from = rules[i].from
                       /\ Repointed(rules, from, to)[i].to = IF rules[i].to = from THEN to ELSE rules[i].to
<1> SUFFICES ASSUME NEW i \in RuleIds
             PROVE  /\ Repointed(rules, from, to)[i] \in Rule \cup {None}
                    /\ Repointed(rules, from, to)[i] = None <=> rules[i] = None
                    /\ rules[i] # None =>
                          /\ Repointed(rules, from, to)[i].from = rules[i].from
                          /\ Repointed(rules, from, to)[i].to = IF rules[i].to = from THEN to ELSE rules[i].to
  BY DEF Repointed, Rules
<1>1. rules[i] \in Rule \cup {None}
  BY DEF Rules
<1>2. ASSUME rules[i] # None, rules[i].to = from
      PROVE  /\ [rules[i] EXCEPT !.to = to] \in Rule
             /\ [rules[i] EXCEPT !.to = to].from = rules[i].from /\ [rules[i] EXCEPT !.to = to].to = to
  BY <1>1, <1>2 DEF Rule
<1> QED
  BY <1>1, <1>2, RuleIs DEF Repointed

\* saveWithRedirect: the redirects before clearRedirectsInto, the new one among them.
Made(new, from, to) ==
    [i \in RuleIds |-> IF i = new THEN [from |-> from, to |-> to]
                       ELSE IF Repointed(rule, from, to)[i] # None /\ Repointed(rule, from, to)[i].from = from
                            THEN None ELSE Repointed(rule, from, to)[i]]

LEMMA MadeIs ==
    ASSUME TypeOK, NEW new \in RuleIds, rule[new] = None, NEW from \in Paths, NEW to \in Paths
    PROVE  /\ Made(new, from, to) \in Rules
           /\ Made(new, from, to)[new] = [from |-> from, to |-> to]
           /\ \A i \in RuleIds \ {new} :
                 /\ rule[i] = None \/ rule[i].from = from => Made(new, from, to)[i] = None
                 /\ rule[i] # None /\ rule[i].from # from =>
                       /\ Made(new, from, to)[i] # None
                       /\ Made(new, from, to)[i].from = rule[i].from
                       /\ rule[i].to = from => Made(new, from, to)[i].to = to
                       /\ rule[i].to # from => Made(new, from, to)[i].to = rule[i].to
<1> DEFINE rep == Repointed(rule, from, to)
<1>1. rule \in Rules
  BY DEF TypeOK, Rules
<1>2. /\ rep \in Rules
      /\ \A i \in RuleIds : /\ rep[i] = None <=> rule[i] = None
                            /\ rule[i] # None => /\ rep[i].from = rule[i].from
                                                 /\ rep[i].to = IF rule[i].to = from THEN to ELSE rule[i].to
  BY <1>1, RepointedIs
<1>3. [from |-> from, to |-> to] \in Rule
  BY DEF Rule
<1>4. Made(new, from, to) = [i \in RuleIds |-> IF i = new THEN [from |-> from, to |-> to]
                                               ELSE IF rep[i] # None /\ rep[i].from = from THEN None ELSE rep[i]]
  BY DEF Made
<1> HIDE DEF rep
<1>5. Made(new, from, to) \in Rules
  BY <1>2, <1>3, <1>4 DEF Rules
<1>6. /\ Made(new, from, to)[new] = [from |-> from, to |-> to]
      /\ \A i \in RuleIds \ {new} : Made(new, from, to)[i] = IF rep[i] # None /\ rep[i].from = from THEN None ELSE rep[i]
  BY <1>4
<1> HIDE DEF Made
<1> QED
  BY <1>2, <1>5, <1>6

LEMMA RenamedMade ==
    ASSUME NEW new, NEW from, NEW to
    PROVE  Renamed(new, from, to) = Cleared(Made(new, from, to), to)
  BY DEF Renamed, Made

LEMMA RenamedIs ==
    ASSUME TypeOK, NEW new \in RuleIds, rule[new] = None, NEW from \in Paths, NEW to \in Paths, from # to
    PROVE  /\ Renamed(new, from, to) \in Rules
           /\ Renamed(new, from, to)[new] = [from |-> from, to |-> to]
<1> DEFINE made == Made(new, from, to)
<1>1. made \in Rules /\ made[new] = [from |-> from, to |-> to]
  BY MadeIs
<1> HIDE DEF made
<1>2. /\ Cleared(made, to) \in Rules
      /\ made[new] # None /\ made[new].from # to /\ made[new].from # made[new].to => Cleared(made, to)[new] = made[new]
  BY <1>1, ClearedIs
<1>3. [from |-> from, to |-> to] # None
  BY RuleIs DEF Rule
<1> QED
  BY <1>1, <1>2, <1>3, RenamedMade DEF made

\* The others, which are the old ones brought up to it.
LEMMA RenamedBack ==
    ASSUME TypeOK, NEW new \in RuleIds, rule[new] = None, NEW from \in Paths, NEW to \in Paths, from # to,
           NEW i \in RuleIds \ {new}, Renamed(new, from, to)[i] # None
    PROVE  /\ rule[i] # None /\ rule[i].from # from /\ rule[i].from # to
           /\ Renamed(new, from, to)[i].from = rule[i].from
           /\ rule[i].to = from => Renamed(new, from, to)[i].to = to
           /\ rule[i].to # from => Renamed(new, from, to)[i].to = rule[i].to
<1> DEFINE made == Made(new, from, to)
<1>1. /\ made \in Rules
      /\ rule[i] = None \/ rule[i].from = from => made[i] = None
      /\ rule[i] # None /\ rule[i].from # from =>
            /\ made[i] # None
            /\ made[i].from = rule[i].from
            /\ rule[i].to = from => made[i].to = to
            /\ rule[i].to # from => made[i].to = rule[i].to
  BY MadeIs
<1>2. Cleared(made, to)[i] # None
  BY RenamedMade
<1> HIDE DEF made
<1>3. Cleared(made, to)[i] # None => Cleared(made, to)[i] = made[i] /\ made[i].from # to
  BY <1>1, ClearedIs
<1>4. made[i] # None
  BY <1>2, <1>3
<1> QED
  BY <1>1, <1>2, <1>3, <1>4, RenamedMade DEF made

\* One that has nothing to do with the two paths but where it leads.
LEMMA RenamedLeaves ==
    ASSUME TypeOK, NEW new \in RuleIds, rule[new] = None, NEW from \in Paths, NEW to \in Paths, from # to,
           NEW i \in RuleIds, rule[i] # None, rule[i].from # from, rule[i].from # to, rule[i].from # rule[i].to
    PROVE  /\ rule[i].to # from => Renamed(new, from, to)[i] = rule[i]
           /\ rule[i].to = from => Renamed(new, from, to)[i] = [from |-> rule[i].from, to |-> to]
<1> DEFINE made == Made(new, from, to)
<1>1. i \in RuleIds \ {new} /\ rule[i] \in Rule
  BY DEF TypeOK
<1>8. /\ made \in Rules
      /\ rule[i] = None \/ rule[i].from = from => made[i] = None
      /\ rule[i] # None /\ rule[i].from # from =>
            /\ made[i] # None
            /\ made[i].from = rule[i].from
            /\ rule[i].to = from => made[i].to = to
            /\ rule[i].to # from => made[i].to = rule[i].to
  BY <1>1, MadeIs
<1> HIDE DEF made
<1>2. /\ made \in Rules /\ made[i] # None /\ made[i].from = rule[i].from
      /\ rule[i].to = from => made[i].to = to
      /\ rule[i].to # from => made[i].to = rule[i].to
  BY <1>8
<1>3. made[i] # None /\ made[i].from # to /\ made[i].from # made[i].to => Cleared(made, to)[i] = made[i]
  BY <1>2, ClearedIs
<1>4. made[i].from # to /\ made[i].from # made[i].to
  BY <1>2
<1>5. made[i] = [from |-> made[i].from, to |-> made[i].to] /\ rule[i] = [from |-> rule[i].from, to |-> rule[i].to]
  BY <1>1, <1>2 DEF Rule, Rules
<1>6. made[i] = IF rule[i].to = from THEN [from |-> rule[i].from, to |-> to] ELSE rule[i]
  BY <1>2, <1>5
<1>7. Renamed(new, from, to) = Cleared(made, to)
  BY RenamedMade DEF made
<1> QED
  BY <1>2, <1>3, <1>4, <1>6, <1>7

LEMMA ForgottenIs ==
    ASSUME TypeOK, NEW rows, NEW paths
    PROVE  /\ Forgotten(rows, paths) \in [Paths -> Posts \cup {None}]
           /\ \A a \in Paths : /\ Forgotten(rows, paths)[a] # None =>
                                     /\ Forgotten(rows, paths)[a] = former[a]
                                     /\ a \notin paths /\ former[a] \notin rows
                               /\ a \in paths => Forgotten(rows, paths)[a] = None
  BY RedirectConstants DEF TypeOK, Forgotten

-----------------------------------------------------------------------------
(* Types                                                                   *)

\* A request on a redirect that it loaded has that redirect's id.
Typed ==
    /\ TypeOK
    /\ \A e \in RuleEditors : ruling[e].stage \in {"loaded", "compared"} => ruling[e].id # None

\* The requests on posts, whatever a step does.
LEMMA EditTypes ==
    ASSUME TypeOK, [Next]_vars
    PROVE  edit' \in [Editors -> Saving \cup Created \cup {Idle}]
<1>0. CASE UNCHANGED edit
  BY <1>0 DEF TypeOK
<1>1. ASSUME NEW e \in Editors, NEW p \in Posts, NEW a \in Paths, NEW shown \in BOOLEAN, Create(e, p, a, shown)
      PROVE  edit' \in [Editors -> Saving \cup Created \cup {Idle}]
  BY <1>1 DEF TypeOK, Create, Created
<1>2. ASSUME NEW e \in Editors, NEW p \in Posts, NEW now \in Post, UpdateRead(e, p, now)
      PROVE  edit' \in [Editors -> Saving \cup Created \cup {Idle}]
  BY <1>2 DEF TypeOK, UpdateRead, Saving
<1>3. ASSUME NEW e \in Editors, ClearRedirectsInto(e) \/ SaveCommit(e) \/ EditFails(e)
      PROVE  edit' \in [Editors -> Saving \cup Created \cup {Idle}]
  BY <1>3 DEF TypeOK, ClearRedirectsInto, SaveCommit, EditFails
<1>4. ASSUME NEW e \in Editors, SaveCompare(e)
      PROVE  edit' \in [Editors -> Saving \cup Created \cup {Idle}]
  BY <1>4, EditIs, EditCompares
<1>5. ASSUME NEW e \in Editors, SaveWrite(e)
      PROVE  edit' \in [Editors -> Saving \cup Created \cup {Idle}]
  BY <1>5, EditIs, EditWrites
<1> QED
  BY <1>0, <1>1, <1>2, <1>3, <1>4, <1>5
  DEF Next, vars, Remove, RuleCreate, RuleUpdate, Ask, RuleInsert, AssertNoChain, RuleLoad, RuleCompare,
      RuleWrite, RuleFails, RuleRemove

\* The requests on redirects.
LEMMA RulingTypes ==
    ASSUME Typed, [Next]_vars
    PROVE  /\ ruling' \in [RuleEditors -> Ruling \cup {Idle}]
           /\ \A e \in RuleEditors : ruling'[e].stage \in {"loaded", "compared"} => ruling'[e].id # None
<1> DEFINE Kept == /\ ruling' \in [RuleEditors -> Ruling \cup {Idle}]
                   /\ \A e \in RuleEditors : ruling'[e].stage \in {"loaded", "compared"} => ruling'[e].id # None
<1> USE DEF Typed
<1>0. ASSUME UNCHANGED ruling
      PROVE  Kept
  BY <1>0 DEF TypeOK
<1>1. ASSUME NEW e \in RuleEditors, NEW now \in Rule, RuleCreate(e, now)
      PROVE  Kept
  BY <1>1, RulingAsks DEF RuleCreate, NoBody, Bodies
<1>2. ASSUME NEW e \in RuleEditors, NEW i \in RuleIds, NEW body \in Bodies, RuleUpdate(e, i, body)
      PROVE  Kept
  <2>1. rule[i] \in Rule
    BY <1>2 DEF RuleUpdate, TypeOK
  <2>2. Assigned(rule[i], body) \in Rule /\ Ask(e, i, body, Assigned(rule[i], body))
    BY <1>2, <2>1, AssignedIs DEF RuleUpdate
  <2> QED
    BY <2>2, RulingAsks
<1>3. ASSUME NEW e \in RuleEditors, AssertNoChain(e)
      PROVE  Kept
  BY <1>3, RulingVetted
<1>4. ASSUME NEW e \in RuleEditors, RuleLoad(e)
      PROVE  Kept
  BY <1>4, RulingLoads
<1>5. ASSUME NEW e \in RuleEditors, RuleCompare(e)
      PROVE  Kept
  BY <1>5, RulingCompares DEF RuleCompare
<1>6. ASSUME NEW e \in RuleEditors, NEW i \in RuleIds, RuleInsert(e, i) \/ RuleWrite(e) \/ RuleFails(e)
      PROVE  Kept
  BY <1>6 DEF RuleInsert, RuleWrite, RuleFails, TypeOK, Idle
<1>7. ASSUME NEW e \in RuleEditors, RuleWrite(e) \/ RuleFails(e)
      PROVE  Kept
  BY <1>7 DEF RuleWrite, RuleFails, TypeOK, Idle
<1> HIDE DEF Kept
<1>8. Kept
  BY <1>0, <1>1, <1>2, <1>3, <1>4, <1>5, <1>6, <1>7
  DEF Next, vars, Remove, Create, UpdateRead, ClearRedirectsInto, SaveCompare, SaveWrite, SaveCommit, EditFails,
      RuleRemove, Bodies
<1> QED
  BY <1>8 DEF Kept

\* What a commit makes of the redirects.
LEMMA CommitRules ==
    ASSUME Typed, NEW e \in Editors, SaveCommit(e)
    PROVE  /\ edit[e].stage = "written" /\ edit[e].id \in Posts /\ edit[e].was \in Post /\ edit[e].now \in Post
           /\ edit[e].diff \in SUBSET {"slug", "shown", "row"}
           /\ rule' \in Rules
           /\ edit[e].was.slug = edit[e].now.slug => rule' = rule
           /\ LeavesRedirect(edit[e]) =>
                 \E i \in RuleIds : FreshRule(i) /\ rule' = Renamed(i, edit[e].was.slug, edit[e].now.slug)
           /\ edit[e].was.slug # edit[e].now.slug /\ ~LeavesRedirect(edit[e])
                 => rule' = Cleared(rule, edit[e].now.slug)
<1>1. /\ edit[e].stage = "written" /\ edit[e].id \in Posts /\ edit[e].was \in Post /\ edit[e].now \in Post
      /\ edit[e].diff \in SUBSET {"slug", "shown", "row"}
  BY EditIs DEF SaveCommit, Typed
<1>2. rule \in Rules
  BY DEF Typed, TypeOK, Rules
<1>3. CASE edit[e].was.slug = edit[e].now.slug
  BY <1>1, <1>2, <1>3 DEF SaveCommit, LeavesRedirect
<1>4. CASE LeavesRedirect(edit[e])
  <2>1. PICK i \in RuleIds : FreshRule(i) /\ rule' = Renamed(i, edit[e].was.slug, edit[e].now.slug)
    BY <1>4 DEF SaveCommit, LeavesRedirect
  <2>2. rule' \in Rules
    BY <1>1, <1>4, <2>1, RenamedIs, PostIs DEF FreshRule, LeavesRedirect, Typed
  <2> QED
    BY <1>1, <1>4, <2>1, <2>2 DEF LeavesRedirect
<1>5. CASE edit[e].was.slug # edit[e].now.slug /\ ~LeavesRedirect(edit[e])
  <2>1. rule' = Cleared(rule, edit[e].now.slug)
    BY <1>5 DEF SaveCommit
  <2> QED
    BY <1>1, <1>2, <1>5, <2>1, ClearedIs
<1> QED
  BY <1>3, <1>4, <1>5

LEMMA RulesType ==
    ASSUME Typed, [Next]_vars
    PROVE  rule' \in Rules
<1>1. rule \in Rules
  BY DEF Typed, TypeOK, Rules
<1>2. ASSUME NEW e \in Editors, ClearRedirectsInto(e)
      PROVE  rule' \in Rules
  BY <1>1, <1>2, ClearedIs DEF ClearRedirectsInto
<1>3. ASSUME NEW e \in Editors, SaveCommit(e)
      PROVE  rule' \in Rules
  BY <1>3, CommitRules
<1>4. ASSUME NEW e \in RuleEditors, NEW i \in RuleIds, RuleInsert(e, i)
      PROVE  rule' \in Rules
  <2>1. ruling[e].now \in Rule
    BY <1>4, RulingIs DEF RuleInsert, Typed, Idle
  <2> QED
    BY <1>1, <1>4, <2>1 DEF RuleInsert, Rules
<1>5. ASSUME NEW e \in RuleEditors, RuleWrite(e)
      PROVE  rule' \in Rules
  <2>1. ruling[e].now \in Rule /\ ruling[e].id \in RuleIds /\ ruling[e].diff \in SUBSET {"from", "to", "row"}
    BY <1>5, RulingIs DEF RuleWrite, Typed, Idle
  <2>2. Written(e) \in Rule \cup {None}
    BY <1>1, <2>1, SavedRuleIs DEF Written, Rules
  <2> QED
    BY <1>1, <1>5, <2>2 DEF RuleWrite, Rules
<1>6. ASSUME NEW i \in RuleIds, RuleRemove(i)
      PROVE  rule' \in Rules
  BY <1>1, <1>6 DEF RuleRemove, Rules
<1> QED
  BY <1>1, <1>2, <1>3, <1>4, <1>5, <1>6
  DEF Next, vars, Remove, Create, UpdateRead, SaveCompare, SaveWrite, EditFails, RuleCreate, RuleUpdate, Ask,
      AssertNoChain, RuleLoad, RuleCompare, RuleFails

LEMMA TypesStep ==
    ASSUME Typed, [Next]_vars
    PROVE  Typed'
<1> USE DEF Typed
<1>1. edit' \in [Editors -> Saving \cup Created \cup {Idle}]
  BY EditTypes
<1>2. /\ ruling' \in [RuleEditors -> Ruling \cup {Idle}]
      /\ \A e \in RuleEditors : ruling'[e].stage \in {"loaded", "compared"} => ruling'[e].id # None
  BY RulingTypes
<1>3. rule' \in [RuleIds -> Rule \cup {None}]
  BY RulesType DEF Rules
<1> DEFINE Rest == /\ post' \in [Posts -> Post \cup {None}]
                   /\ former' \in [Paths -> Posts \cup {None}]
                   /\ astray' \subseteq Posts
                   /\ stale' \subseteq RuleEditors
                   /\ begun' \in 0 .. MaxRequests
<1>4. \A rules : Outdated(rules) \subseteq RuleEditors
  BY DEF Outdated, TypeOK
<1>5. ASSUME UNCHANGED vars
      PROVE  Rest
  BY <1>5 DEF vars, TypeOK
<1>6. ASSUME NEW e \in Editors, NEW p \in Posts, NEW a \in Paths, NEW shown \in BOOLEAN, Create(e, p, a, shown)
      PROVE  Rest
  <2>1. [slug |-> a, shown |-> shown] \in Post
    BY DEF Post
  <2> QED
    BY <1>6, <2>1, ForgottenIs, RedirectConstants DEF Create, TypeOK
<1>7. ASSUME NEW e \in Editors, NEW p \in Posts, NEW now \in Post, UpdateRead(e, p, now)
      PROVE  Rest
  BY <1>7, RedirectConstants DEF UpdateRead, TypeOK, history
<1>8. ASSUME NEW e \in Editors, ClearRedirectsInto(e)
      PROVE  Rest
  BY <1>4, <1>8, ForgottenIs DEF ClearRedirectsInto, TypeOK
<1>9. ASSUME NEW e \in Editors, SaveCommit(e)
      PROVE  Rest
  <2>1. /\ edit[e].id \in Posts /\ edit[e].was \in Post /\ edit[e].now \in Post
        /\ edit[e].diff \in SUBSET {"slug", "shown", "row"}
    BY <1>9, CommitRules
  <2>2. post' \in [Posts -> Post \cup {None}]
    <3>1. post[edit[e].id] \in Post \cup {None}
      BY <2>1 DEF TypeOK
    <3>2. Saved(post[edit[e].id], edit[e].now, edit[e].diff) \in Post \cup {None}
      BY <2>1, <3>1, SavedIs
    <3> QED
      BY <1>9, <2>1, <3>2 DEF SaveCommit, TypeOK
  <2>3. \A rows, paths : Forgotten(rows, paths) \in [Paths -> Posts \cup {None}]
    BY ForgottenIs
  <2>4. former' \in [Paths -> Posts \cup {None}]
    BY <1>9, <2>1, <2>3 DEF SaveCommit
  <2> QED
    BY <1>4, <1>9, <2>1, <2>2, <2>4 DEF SaveCommit, TypeOK
<1>10. ASSUME NEW p \in Posts, Remove(p)
       PROVE  Rest
  BY <1>10, ForgottenIs DEF Remove, TypeOK
<1>11. ASSUME NEW e \in RuleEditors, NEW now \in Rule, RuleCreate(e, now)
       PROVE  Rest
  BY <1>11, RedirectConstants DEF RuleCreate, Ask, TypeOK, history
<1>18. ASSUME NEW e \in RuleEditors, NEW i \in RuleIds, NEW body \in Bodies, RuleUpdate(e, i, body)
       PROVE  Rest
  BY <1>18, RedirectConstants DEF RuleUpdate, Ask, TypeOK, history
<1>12. ASSUME NEW e \in RuleEditors, NEW i \in RuleIds, RuleInsert(e, i)
       PROVE  Rest
  BY <1>4, <1>12, ForgottenIs DEF RuleInsert, TypeOK
<1>13. ASSUME NEW e \in RuleEditors, RuleWrite(e)
       PROVE  Rest
  BY <1>4, <1>13, ForgottenIs DEF RuleWrite, TypeOK
<1>14. ASSUME NEW i \in RuleIds, RuleRemove(i)
       PROVE  Rest
  BY <1>4, <1>14, ForgottenIs DEF RuleRemove, TypeOK
<1>15. ASSUME NEW e \in RuleEditors, AssertNoChain(e) \/ RuleLoad(e) \/ RuleCompare(e) \/ RuleFails(e)
       PROVE  Rest
  BY <1>15 DEF AssertNoChain, RuleLoad, RuleCompare, RuleFails, TypeOK, history
<1>16. ASSUME NEW e \in Editors, SaveCompare(e) \/ SaveWrite(e) \/ EditFails(e)
       PROVE  Rest
  BY <1>16 DEF SaveCompare, SaveWrite, EditFails, TypeOK, history
<1> HIDE DEF Rest
<1>17. Rest
  BY <1>5, <1>6, <1>7, <1>8, <1>9, <1>10, <1>11, <1>12, <1>13, <1>14, <1>15, <1>16, <1>18
  DEF Next, Bodies
<1> QED
  BY <1>1, <1>2, <1>3, <1>17 DEF Rest, TypeOK

-----------------------------------------------------------------------------
(* No two posts have one slug, and no transaction is about to make two     *)

DistinctSlugs == \A p, q \in Posts : post[p] # None /\ post[q] # None /\ p # q => post[p].slug # post[q].slug

\* The statement writes the slug: it changes it, or inserts the row.
WritesSlug(e) == edit[e].diff \cap {"slug", "row"} # {}

SoundWrites ==
    \A e \in Editors : Writing(e) =>
        /\ "row" \in edit[e].diff => post[edit[e].id] = None
        /\ WritesSlug(e) => \A q \in Posts : post[q] # None /\ q # edit[e].id => post[q].slug # edit[e].now.slug

DistinctWrites ==
    \A e, f \in Editors : Writing(e) /\ Writing(f) /\ e # f =>
        /\ edit[e].id # edit[f].id
        /\ WritesSlug(e) /\ WritesSlug(f) => edit[e].now.slug # edit[f].now.slug

UniqueSlugs == DistinctSlugs /\ SoundWrites /\ DistinctWrites

\* Transactions end or go on as they were.
WritesStay == \A f \in Editors : Writing(f)' => Writing(f) /\ edit'[f] = edit[f]

LEMMA WritesStayIs ==
    ASSUME UniqueSlugs, WritesStay, post' = post
    PROVE  UniqueSlugs'
<1>1. \A f \in Editors : Writing(f)' => (WritesSlug(f)' <=> WritesSlug(f))
  BY DEF WritesStay, WritesSlug
<1> QED
  BY <1>1 DEF UniqueSlugs, DistinctSlugs, SoundWrites, DistinctWrites, WritesStay

LEMMA CreateKeepsSlugs ==
    ASSUME Typed, UniqueSlugs, NEW e \in Editors, NEW p \in Posts, NEW a \in Paths, NEW shown \in BOOLEAN,
           Create(e, p, a, shown)
    PROVE  UniqueSlugs'
<1>1. WritesStay
  BY DEF WritesStay, Writing, Create, Typed, TypeOK
<1>2. \A f \in Editors : Writing(f)' => (WritesSlug(f)' <=> WritesSlug(f))
  BY <1>1 DEF WritesStay, WritesSlug
<1>3. /\ post'[p] # None /\ post'[p].slug = a
      /\ \A q \in Posts \ {p} : post'[q] = post[q]
  <2>1. [slug |-> a, shown |-> shown] \in Post
    BY DEF Post
  <2> QED
    BY <2>1, RedirectConstants DEF Create, Typed, TypeOK
<1>4. \A f \in Editors : Writing(f) => edit[f].id # p
  BY DEF Create, FreshPost, Writing
<1>5. /\ \A q \in Posts \ {p} : post[q] # None => post[q].slug # a
      /\ \A f \in Editors : Writing(f) /\ WritesSlug(f) => edit[f].now.slug # a
  BY <1>4 DEF Create, SlugFree, ExistingPosts, WritesSlug
<1>6. DistinctSlugs'
  BY <1>3, <1>5 DEF DistinctSlugs, UniqueSlugs
<1>7. ASSUME NEW f \in Editors, Writing(f)'
      PROVE  /\ "row" \in edit'[f].diff => post'[edit'[f].id] = None
             /\ WritesSlug(f)' => \A q \in Posts : post'[q] # None /\ q # edit'[f].id => post'[q].slug # edit'[f].now.slug
  <2>1. Writing(f) /\ edit'[f] = edit[f] /\ (WritesSlug(f)' <=> WritesSlug(f)) /\ edit[f].id \in Posts
    BY <1>1, <1>2, <1>7, EditIs DEF WritesStay, Typed, Writing
  <2> QED
    BY <1>3, <1>4, <1>5, <2>1 DEF UniqueSlugs, SoundWrites
<1>8. SoundWrites'
  BY <1>7 DEF SoundWrites
<1>9. DistinctWrites'
  BY <1>1, <1>2 DEF DistinctWrites, UniqueSlugs, WritesStay
<1> QED
  BY <1>6, <1>8, <1>9 DEF UniqueSlugs

LEMMA RemoveKeepsSlugs ==
    ASSUME Typed, UniqueSlugs, NEW p \in Posts, Remove(p)
    PROVE  UniqueSlugs'
<1>1. edit' = edit /\ \A q \in Posts : post'[q] # None => post'[q] = post[q]
  BY DEF Remove, Typed, TypeOK
<1>2. \A f \in Editors : (Writing(f)' <=> Writing(f)) /\ (WritesSlug(f)' <=> WritesSlug(f))
  BY <1>1 DEF Writing, WritesSlug
<1>3. \A f \in Editors : Writing(f) => edit[f].id \in Posts
  BY EditIs DEF Typed, Writing
<1> QED
  BY <1>1, <1>2, <1>3 DEF UniqueSlugs, DistinctSlugs, SoundWrites, DistinctWrites

LEMMA WriteKeepsSlugs ==
    ASSUME Typed, UniqueSlugs, NEW e \in Editors, SaveWrite(e)
    PROVE  UniqueSlugs'
<1>1. /\ edit[e].stage = "compared"
      /\ edit'[e].stage = "written" /\ edit'[e].diff = edit[e].diff
      /\ edit'[e].id = edit[e].id /\ edit'[e].now = edit[e].now
      /\ \A f \in Editors \ {e} : edit'[f] = edit[f]
      /\ edit[e].id \in Posts
  BY EditWrites, EditIs DEF Typed
<1>2. post' = post
  BY DEF SaveWrite
<1>3. \A f \in Editors : WritesSlug(f)' <=> WritesSlug(f)
  BY <1>1 DEF WritesSlug
<1>4. /\ \A f \in Editors \ {e} : Writing(f)' <=> Writing(f)
      /\ Writing(e)' => edit[e].diff # {}
  BY <1>1 DEF Writing
<1>5. ASSUME edit[e].diff # {}
      PROVE  /\ "row" \in edit[e].diff => post[edit[e].id] = None
             /\ WritesSlug(e) => \A q \in Posts : post[q] # None /\ q # edit[e].id => post[q].slug # edit[e].now.slug
             /\ \A f \in Editors : Writing(f) =>
                   /\ edit[f].id # edit[e].id
                   /\ WritesSlug(e) /\ WritesSlug(f) => edit[f].now.slug # edit[e].now.slug
  <2>1. \A f \in Editors : Writing(f) => edit[f].id # edit[e].id
    BY <1>5 DEF SaveWrite, LockedPosts
  <2>2. WritesSlug(e) => SlugFree(edit[e].now.slug, edit[e].id)
    BY DEF SaveWrite, WritesSlug
  <2> QED
    BY <2>1, <2>2 DEF SaveWrite, SlugFree, ExistingPosts, WritesSlug
<1>6. DistinctSlugs'
  BY <1>2 DEF DistinctSlugs, UniqueSlugs
<1>7. SoundWrites'
  BY <1>1, <1>2, <1>3, <1>4, <1>5 DEF UniqueSlugs, SoundWrites
<1>8. DistinctWrites'
  BY <1>1, <1>3, <1>4, <1>5 DEF UniqueSlugs, DistinctWrites
<1> QED
  BY <1>6, <1>7, <1>8 DEF UniqueSlugs

\* A commit leaves the posts as they were, or gives one its new slug.
LEMMA CommitPosts ==
    ASSUME Typed, UniqueSlugs, NEW e \in Editors, SaveCommit(e)
    PROVE  /\ \A q \in Posts \ {edit[e].id} : post'[q] = post[q]
           /\ post'[edit[e].id] = Saved(post[edit[e].id], edit[e].now, edit[e].diff)
           /\ post'[edit[e].id] # None =>
                 \/ post[edit[e].id] # None /\ post'[edit[e].id].slug = post[edit[e].id].slug
                 \/ Writing(e) /\ WritesSlug(e) /\ post'[edit[e].id].slug = edit[e].now.slug
           /\ edit[e].diff = {} => post' = post
           /\ Writing(e) <=> edit[e].diff # {}
<1>1. /\ edit[e].stage = "written" /\ edit[e].id \in Posts /\ edit[e].now \in Post
      /\ edit[e].diff \in SUBSET {"slug", "shown", "row"} /\ post[edit[e].id] \in Post \cup {None}
  BY CommitRules DEF Typed, TypeOK
<1>2. /\ \A q \in Posts \ {edit[e].id} : post'[q] = post[q]
      /\ post'[edit[e].id] = Saved(post[edit[e].id], edit[e].now, edit[e].diff)
  BY <1>1 DEF SaveCommit, Typed, TypeOK
<1>3. ASSUME edit[e].diff = {}
      PROVE  post' = post
  <2>1. Saved(post[edit[e].id], edit[e].now, edit[e].diff) = post[edit[e].id]
    BY <1>1, <1>3, SavedIs
  <2>2. post' = [post EXCEPT ![edit[e].id] = post[edit[e].id]]
    BY <2>1 DEF SaveCommit
  <2> QED
    BY <2>2 DEF Typed, TypeOK
<1>4. /\ WritesSlug(e) <=> "slug" \in edit[e].diff \/ "row" \in edit[e].diff
      /\ Writing(e) <=> edit[e].diff # {}
  BY <1>1 DEF WritesSlug, Writing
<1>5. ASSUME post'[edit[e].id] # None
      PROVE  \/ post[edit[e].id] # None /\ post'[edit[e].id].slug = post[edit[e].id].slug
             \/ Writing(e) /\ WritesSlug(e) /\ post'[edit[e].id].slug = edit[e].now.slug
  <2> DEFINE old == post[edit[e].id]
             now == edit[e].now
             diff == edit[e].diff
  <2>1. /\ old \in Post \cup {None} /\ now \in Post /\ diff \in SUBSET {"slug", "shown", "row"}
        /\ Saved(old, now, diff) # None
    BY <1>1, <1>2, <1>5
  <2>2. "slug" \in diff \/ "row" \in diff => Writing(e) /\ WritesSlug(e)
    BY <1>4 DEF WritesSlug
  <2>3. post'[edit[e].id] = Saved(old, now, diff)
    BY <1>2
  <2>4. \/ old # None /\ Saved(old, now, diff).slug = old.slug
        \/ ("slug" \in diff \/ "row" \in diff) /\ Saved(old, now, diff).slug = now.slug
    <3> HIDE DEF old, now, diff
    <3> QED
      BY <2>1, SavedSlug
  <2> QED
    BY <2>2, <2>3, <2>4
<1> QED
  BY <1>2, <1>3, <1>4, <1>5

LEMMA CommitKeepsSlugs ==
    ASSUME Typed, UniqueSlugs, NEW e \in Editors, SaveCommit(e)
    PROVE  UniqueSlugs'
<1>1. edit[e].id \in Posts
  BY CommitRules
<1>2. /\ ~Writing(e)'
      /\ \A f \in Editors \ {e} : /\ edit'[f] = edit[f]
                                  /\ Writing(f)' <=> Writing(f)
                                  /\ WritesSlug(f)' <=> WritesSlug(f)
  BY DEF SaveCommit, Typed, TypeOK, Writing, WritesSlug, Idle
<1>3. CASE edit[e].diff = {}
  <2>1. WritesStay /\ post' = post
    BY <1>2, <1>3, CommitPosts DEF WritesStay
  <2> QED
    BY <2>1, WritesStayIs
<1>4. CASE edit[e].diff # {}
  <2> DEFINE p == edit[e].id
  <2>1. /\ Writing(e) /\ \A q \in Posts \ {p} : post'[q] = post[q]
        /\ post'[p] # None => \/ post[p] # None /\ post'[p].slug = post[p].slug
                              \/ WritesSlug(e) /\ post'[p].slug = edit[e].now.slug
    BY <1>4, CommitPosts
  <2>2. DistinctSlugs'
    BY <1>1, <2>1 DEF UniqueSlugs, DistinctSlugs, SoundWrites
  <2>3. ASSUME NEW f \in Editors \ {e}, Writing(f)
        PROVE  /\ "row" \in edit[f].diff => post'[edit[f].id] = None
               /\ WritesSlug(f) => \A q \in Posts : post'[q] # None /\ q # edit[f].id => post'[q].slug # edit[f].now.slug
    <3>1. edit[f].id # p /\ edit[f].id \in Posts
      BY <2>1, <2>3, EditIs DEF UniqueSlugs, DistinctWrites, Typed, Writing
    <3> QED
      BY <1>1, <2>1, <2>3, <3>1 DEF UniqueSlugs, SoundWrites, DistinctWrites
  <2>4. SoundWrites'
    BY <1>2, <2>3 DEF SoundWrites
  <2>5. DistinctWrites'
    BY <1>2 DEF UniqueSlugs, DistinctWrites
  <2> QED
    BY <2>2, <2>4, <2>5 DEF UniqueSlugs
<1> QED
  BY <1>3, <1>4

LEMMA SlugsStep ==
    ASSUME Typed, UniqueSlugs, [Next]_vars
    PROVE  UniqueSlugs'
<1>1. ASSUME NEW e \in Editors, ClearRedirectsInto(e) \/ EditFails(e)
      PROVE  UniqueSlugs'
  <2>1. WritesStay /\ post' = post
    BY <1>1 DEF ClearRedirectsInto, EditFails, WritesStay, Writing, Idle, Typed, TypeOK
  <2> QED
    BY <2>1, WritesStayIs
<1>2. ASSUME NEW e \in Editors, NEW p \in Posts, NEW now \in Post, UpdateRead(e, p, now)
      PROVE  UniqueSlugs'
  <2>1. WritesStay /\ post' = post
    BY <1>2 DEF UpdateRead, WritesStay, Writing, Typed, TypeOK
  <2> QED
    BY <2>1, WritesStayIs
<1>3. ASSUME NEW e \in Editors, SaveCompare(e)
      PROVE  UniqueSlugs'
  <2>1. edit'[e].stage = "compared" /\ \A f \in Editors \ {e} : edit'[f] = edit[f]
    BY <1>3, EditCompares DEF Typed
  <2>2. WritesStay /\ post' = post
    BY <1>3, <2>1 DEF SaveCompare, WritesStay, Writing
  <2> QED
    BY <2>2, WritesStayIs
<1>4. CASE UNCHANGED <<post, edit>>
  BY <1>4, WritesStayIs DEF WritesStay, Writing
<1> QED
  BY <1>1, <1>2, <1>3, <1>4, CreateKeepsSlugs, RemoveKeepsSlugs, WriteKeepsSlugs, CommitKeepsSlugs
  DEF Next, vars, RuleCreate, RuleUpdate, Ask, RuleInsert, AssertNoChain, RuleLoad, RuleCompare, RuleWrite,
      RuleFails, RuleRemove

-----------------------------------------------------------------------------
(* Old addresses                                                           *)

\* Whose address it was has another one, and a redirect leads there.
Promised(a) == post[former[a]] # None /\ post[former[a]].slug # a /\ Leads(a)

Promises == \A a \in Paths : former[a] # None /\ former[a] \notin astray => Promised(a)

\* A promise lasts while the post has its slug and the redirect is left alone.
LEMMA PromiseLasts ==
    ASSUME Typed, NEW a \in Paths, Promised(a), former'[a] = former[a],
           post'[former[a]] # None, post'[former[a]].slug = post[former[a]].slug,
           \A i \in RuleIds : rule[i] # None /\ rule[i].from = a /\ rule[i].to = post[former[a]].slug => rule'[i] = rule[i]
    PROVE  Promised(a)'
<1>1. PICK i \in RuleIds : rule[i] # None /\ rule[i] = [from |-> a, to |-> post[former[a]].slug]
  BY DEF Promised, Leads, ExistingRules
<1>2. rule'[i] = rule[i]
  BY <1>1
<1>3. rule'[i] # None /\ rule'[i] = [from |-> a, to |-> post'[former'[a]].slug]
  BY <1>1, <1>2
<1>4. Leads(a)'
  BY <1>3 DEF Leads, ExistingRules
<1> QED
  BY <1>4 DEF Promised

\* A step that forgets some promises and leaves the posts and redirects of the others.
LEMMA PromisesLast ==
    ASSUME Typed, Promises, astray \subseteq astray',
           \A a \in Paths : former'[a] # None =>
              /\ former'[a] = former[a]
              /\ former[a] \notin astray' => post'[former[a]] = post[former[a]]
              /\ former[a] \notin astray' =>
                    \A i \in RuleIds : rule[i] # None /\ rule[i].from = a /\ rule[i].to # a => rule'[i] = rule[i]
    PROVE  Promises'
<1>1. ASSUME NEW a \in Paths, former'[a] # None, former'[a] \notin astray'
      PROVE  Promised(a)'
  <2>1. former'[a] = former[a] /\ former[a] # None /\ former[a] \notin astray
    BY <1>1
  <2>2. Promised(a) /\ post[former[a]].slug # a /\ post[former[a]] # None
    BY <2>1 DEF Promises, Promised
  <2> QED
    BY <1>1, <2>1, <2>2, PromiseLasts
<1> QED
  BY <1>1 DEF Promises

LEMMA CreateKeepsPromises ==
    ASSUME Typed, Promises, NEW e \in Editors, NEW p \in Posts, NEW a \in Paths, NEW shown \in BOOLEAN,
           Create(e, p, a, shown)
    PROVE  Promises'
<1>1. ASSUME NEW b \in Paths, former'[b] # None, former'[b] \notin astray'
      PROVE  Promised(b)'
  <2>1. former'[b] = former[b] /\ former[b] # p
    BY <1>1, ForgottenIs DEF Create, Typed
  <2>2. former[b] # None /\ former[b] \notin astray
    BY <1>1, <2>1 DEF Create
  <2>3. Promised(b) /\ post[former[b]] # None
    BY <2>2 DEF Promises, Promised
  <2>4. post'[former[b]] = post[former[b]] /\ rule' = rule
    BY <2>1 DEF Create, Typed, TypeOK
  <2> QED
    BY <2>1, <2>3, <2>4, PromiseLasts
<1> QED
  BY <1>1 DEF Promises

LEMMA OvertakenKeepsPromises ==
    ASSUME Typed, UniqueSlugs, Promises, NEW e \in Editors, SaveCommit(e), Overtaken(e)
    PROVE  Promises'
<1> DEFINE x == edit[e]
           was == edit[e].was.slug
           now == edit[e].now.slug
<1>1. /\ x.id \in Posts /\ was \in Paths /\ now \in Paths
      /\ \A q \in Posts \ {x.id} : post'[q] = post[q]
      /\ was = now => rule' = rule
      /\ LeavesRedirect(x) => \E i \in RuleIds : FreshRule(i) /\ rule' = Renamed(i, was, now)
      /\ was # now /\ ~LeavesRedirect(x) => rule' = Cleared(rule, now)
  BY CommitRules, CommitPosts, PostIs
<1>2. astray \subseteq astray'
  BY DEF SaveCommit
<1>3. ASSUME NEW a \in Paths, former'[a] # None, former[a] \notin astray
      PROVE  /\ former'[a] = former[a]
             /\ post'[former[a]] = post[former[a]]
             /\ \A i \in RuleIds : rule[i] # None /\ rule[i].from = a /\ rule[i].to = post[former[a]].slug => rule'[i] = rule[i]
             /\ Promised(a)
  <2>1. /\ former'[a] = former[a] /\ former[a] # None
        /\ former[a] \notin {x.id} \cup {q \in ExistingPosts : post[q].slug = was}
        /\ a # was /\ a # now
    BY <1>3, ForgottenIs DEF SaveCommit, Typed
  <2>2. former[a] \in Posts
    BY <2>1 DEF Typed, TypeOK
  <2>3. Promised(a) /\ post[former[a]] # None /\ post[former[a]].slug # a
    BY <1>3, <2>1 DEF Promises, Promised
  <2>4. post'[former[a]] = post[former[a]] /\ post[former[a]].slug # was
    BY <1>1, <2>1, <2>2, <2>3 DEF ExistingPosts
  <2>5. ASSUME NEW i \in RuleIds, rule[i] # None, rule[i].from = a, rule[i].to = post[former[a]].slug
        PROVE  rule'[i] = rule[i]
    <3>1. rule \in Rules /\ rule[i] \in Rule
      BY <2>5 DEF Typed, TypeOK, Rules
    <3>2. CASE was = now
      BY <1>1, <3>2
    <3>3. CASE LeavesRedirect(x)
      <4>1. PICK n \in RuleIds : FreshRule(n) /\ rule' = Renamed(n, was, now)
        BY <1>1, <3>3
      <4>2. was # now /\ i # n /\ rule[n] = None
        BY <2>5, <3>3, <4>1 DEF LeavesRedirect, FreshRule
      <4>3. rule[i].from \notin {was, now} /\ rule[i].from # rule[i].to /\ rule[i].to # was
        BY <2>1, <2>3, <2>4, <2>5
      <4>4. Renamed(n, was, now)[i] = rule[i]
        <5>1. rule[n] = None /\ was \in Paths /\ now \in Paths /\ was # now /\ rule[i] # None
              /\ rule[i].from # was /\ rule[i].from # now /\ rule[i].from # rule[i].to /\ rule[i].to # was
          BY <1>1, <2>5, <4>2, <4>3
        <5> HIDE DEF was, now
        <5> QED
          BY <5>1, RenamedLeaves DEF Typed
      <4> QED
        BY <4>1, <4>4
    <3>4. CASE was # now /\ ~LeavesRedirect(x)
      BY <1>1, <2>1, <2>3, <2>5, <3>1, <3>4, ClearedIs
    <3> QED
      BY <3>2, <3>3, <3>4
  <2> QED
    BY <2>1, <2>3, <2>4, <2>5
<1>4. ASSUME NEW a \in Paths, former'[a] # None, former'[a] \notin astray'
      PROVE  Promised(a)'
  <2>1. former[a] \notin astray \/ former[a] # former'[a]
    BY <1>2, <1>4
  <2>2. former[a] = former'[a]
    BY <1>4, ForgottenIs DEF SaveCommit, Typed
  <2>3. /\ former'[a] = former[a] /\ Promised(a) /\ post'[former[a]] = post[former[a]]
        /\ \A i \in RuleIds : rule[i] # None /\ rule[i].from = a /\ rule[i].to = post[former[a]].slug => rule'[i] = rule[i]
    BY <1>3, <1>4, <2>1, <2>2
  <2> QED
    BY <2>3, PromiseLasts DEF Promised
<1> QED
  BY <1>4 DEF Promises

\* A commit that takes its post from the slug it read to the new one.
LEMMA InTimeIs ==
    ASSUME Typed, UniqueSlugs, NEW e \in Editors, SaveCommit(e), ~Overtaken(e)
    PROVE  /\ post[edit[e].id] # None /\ post[edit[e].id].slug = edit[e].was.slug
           /\ post'[edit[e].id] # None /\ post'[edit[e].id].slug = edit[e].now.slug
           /\ \A q \in Posts \ {edit[e].id} : post[q] # None => post[q].slug # edit[e].was.slug
<1>1. edit[e].id \in Posts /\ edit[e].now \in Post
  BY CommitRules
<1>2. /\ post[edit[e].id] # None /\ post[edit[e].id].slug = edit[e].was.slug
      /\ Saved(post[edit[e].id], edit[e].now, edit[e].diff).slug = edit[e].now.slug
  BY DEF Overtaken
<1>3. post'[edit[e].id] = Saved(post[edit[e].id], edit[e].now, edit[e].diff)
  BY CommitPosts
<1> DEFINE old == post[edit[e].id]
           now == edit[e].now
           diff == edit[e].diff
<1>4. old \in Post /\ now \in Post
  BY <1>1, <1>2 DEF Typed, TypeOK
<1>5. Saved(old, now, diff) # None
  <2> HIDE DEF old, now, diff
  <2>1. CASE "row" \in diff
    BY <1>4, <2>1, PostIs DEF Saved
  <2>2. CASE "row" \notin diff
    BY <1>4, <2>2, SavedIs, PostIs
  <2> QED
    BY <2>1, <2>2
<1>6. \A q \in Posts \ {edit[e].id} : post[q] # None => post[q].slug # edit[e].was.slug
  BY <1>1, <1>2 DEF UniqueSlugs, DistinctSlugs
<1> QED
  BY <1>2, <1>3, <1>5, <1>6

LEMMA InTimeKeepsPromises ==
    ASSUME Typed, UniqueSlugs, Promises, NEW e \in Editors, SaveCommit(e), ~Overtaken(e)
    PROVE  Promises'
<1> DEFINE p == edit[e].id
           was == edit[e].was.slug
           now == edit[e].now.slug
<1>1. /\ p \in Posts /\ was \in Paths /\ now \in Paths
      /\ \A q \in Posts \ {p} : post'[q] = post[q]
      /\ was = now => rule' = rule
      /\ LeavesRedirect(edit[e]) => \E i \in RuleIds : FreshRule(i) /\ rule' = Renamed(i, was, now)
      /\ was # now /\ ~LeavesRedirect(edit[e]) => rule' = Cleared(rule, now)
  BY CommitRules, CommitPosts, PostIs
<1>2. /\ post[p] # None /\ post[p].slug = was /\ post'[p] # None /\ post'[p].slug = now
      /\ \A q \in Posts \ {p} : post[q] # None => post[q].slug # was
  BY InTimeIs
<1>3. /\ astray \subseteq astray'
      /\ was # now /\ ~LeavesRedirect(edit[e]) => p \in astray'
  BY DEF SaveCommit, LeavesRedirect
<1>4. former' = [Forgotten({}, {now}) EXCEPT ![was] = IF LeavesRedirect(edit[e]) THEN p ELSE @]
  BY DEF SaveCommit
<1>5. /\ \A a \in Paths \ {was} : former'[a] # None => former'[a] = former[a] /\ a # now
      /\ LeavesRedirect(edit[e]) => former'[was] = p
      /\ ~LeavesRedirect(edit[e]) /\ former'[was] # None => former'[was] = former[was] /\ was # now
  <2>1. /\ Forgotten({}, {now}) \in [Paths -> Posts \cup {None}]
        /\ \A a \in Paths : Forgotten({}, {now})[a] # None => Forgotten({}, {now})[a] = former[a] /\ a \notin {now}
    BY ForgottenIs DEF Typed
  <2> DEFINE f == Forgotten({}, {now})
  <2> HIDE DEF f
  <2>2. f \in [Paths -> Posts \cup {None}] /\ \A a \in Paths : f[a] # None => f[a] = former[a] /\ a # now
    BY <2>1 DEF f
  <2>3. former' = [f EXCEPT ![was] = IF LeavesRedirect(edit[e]) THEN p ELSE f[was]]
    BY <1>4 DEF f
  <2> HIDE DEF p, was, now
  <2> QED
    BY <1>1, <2>2, <2>3
<1>6. ASSUME NEW a \in Paths, former'[a] # None, former'[a] \notin astray'
      PROVE  Promised(a)'
  <2>1. CASE a = was /\ LeavesRedirect(edit[e])
    <3>1. PICK n \in RuleIds : FreshRule(n) /\ rule' = Renamed(n, was, now)
      BY <1>1, <2>1
    <3>2. was # now /\ rule[n] = None
      BY <2>1, <3>1 DEF LeavesRedirect, FreshRule
    <3>3. Renamed(n, was, now)[n] = [from |-> was, to |-> now]
      <4> HIDE DEF was, now
      <4> QED
        BY <1>1, <3>2, RenamedIs DEF Typed
    <3>4. rule'[n] = [from |-> was, to |-> now] /\ [from |-> was, to |-> now] # None
      BY <1>1, <3>1, <3>3, RuleIs DEF Rule
    <3>5. former'[a] = p
      BY <1>5, <2>1
    <3>6. Leads(a)'
      BY <1>2, <2>1, <3>4, <3>5 DEF Leads, ExistingRules
    <3> QED
      BY <1>2, <2>1, <3>2, <3>5, <3>6 DEF Promised
  <2>2. CASE ~(a = was /\ LeavesRedirect(edit[e]))
    <3>1. former'[a] = former[a] /\ former[a] # None /\ former[a] \notin astray /\ former[a] \in Posts
      BY <1>3, <1>5, <1>6, <2>2 DEF Typed, TypeOK
    <3>2. /\ Promised(a) /\ post[former[a]] # None /\ post[former[a]].slug # a
      BY <3>1 DEF Promises, Promised
    <3>3. was # now => a # now
      BY <1>5, <1>6, <2>2
    <3>4. LeavesRedirect(edit[e]) => a # was
      BY <2>2
    <3>5. PICK i \in RuleIds : rule[i] # None /\ rule[i] = [from |-> a, to |-> post[former[a]].slug]
      BY <3>2 DEF Promised, Leads, ExistingRules
    <3>6. rule[i].from = a /\ rule[i].to = post[former[a]].slug /\ rule[i].from # rule[i].to
      BY <3>2, <3>5
    <3>7. CASE was = now
      <4>1. post'[former[a]] # None /\ post'[former[a]].slug = post[former[a]].slug /\ rule' = rule
        BY <1>1, <1>2, <3>1, <3>2, <3>7
      <4> QED
        BY <3>1, <3>2, <4>1, PromiseLasts
    <3>8. CASE was # now /\ ~LeavesRedirect(edit[e])
      <4>1. former[a] # p
        BY <1>3, <1>6, <3>1, <3>8
      <4>2. post'[former[a]] = post[former[a]]
        BY <1>1, <3>1, <4>1
      <4>3. \A j \in RuleIds : rule[j] # None /\ rule[j].from = a /\ rule[j].to = post[former[a]].slug => rule'[j] = rule[j]
        <5>1. rule \in Rules
          BY DEF Typed, TypeOK, Rules
        <5>2. \A j \in RuleIds : rule[j] # None /\ rule[j].from # now /\ rule[j].from # rule[j].to => Cleared(rule, now)[j] = rule[j]
          BY <5>1, ClearedIs
        <5> QED
          BY <1>1, <3>2, <3>3, <3>8, <5>2
      <4> QED
        BY <3>1, <3>2, <4>2, <4>3, PromiseLasts
    <3>9. CASE LeavesRedirect(edit[e])
      <4>1. PICK n \in RuleIds : FreshRule(n) /\ rule' = Renamed(n, was, now)
        BY <1>1, <3>9
      <4>2. was # now /\ rule[n] = None /\ a # was /\ a # now
        BY <3>3, <3>4, <3>9, <4>1 DEF LeavesRedirect, FreshRule
      <4>3. /\ rule[i].to # was => rule'[i] = rule[i]
            /\ rule[i].to = was => rule'[i] = [from |-> a, to |-> now]
        <5> HIDE DEF was, now
        <5> QED
          BY <1>1, <3>5, <3>6, <4>1, <4>2, RenamedLeaves DEF Typed
      <4>4. former[a] = p => rule'[i] = [from |-> a, to |-> now]
        BY <1>2, <3>6, <4>3
      <4>5. former[a] # p => rule'[i] = rule[i] /\ post'[former[a]] = post[former[a]]
        BY <1>1, <1>2, <3>1, <3>2, <3>6, <4>3
      <4>6. rule'[i] = [from |-> a, to |-> post'[former'[a]].slug]
        BY <1>2, <3>1, <3>5, <4>4, <4>5
      <4>7. rule'[i] # None
        <5>1. post'[former'[a]].slug \in Paths
          BY <1>1, <1>2, <3>1, <3>2, <4>5, PostIs DEF Typed, TypeOK
        <5> QED
          BY <4>6, <5>1, RuleIs DEF Rule
      <4>8. Leads(a)'
        BY <4>6, <4>7 DEF Leads, ExistingRules
      <4> QED
        BY <1>2, <3>1, <3>2, <4>2, <4>5, <4>8 DEF Promised
    <3> QED
      BY <3>7, <3>8, <3>9
  <2> QED
    BY <2>1, <2>2
<1> QED
  BY <1>6 DEF Promises

LEMMA PromisesStep ==
    ASSUME Typed, UniqueSlugs, Promises, [Next]_vars
    PROVE  Promises'
<1>0. rule \in Rules
  BY DEF Typed, TypeOK, Rules
<1>1. ASSUME UNCHANGED <<post, rule, former, astray>>
      PROVE  Promises'
  BY <1>1 DEF Promises, Promised, Leads, ExistingRules
<1>2. ASSUME NEW e \in Editors, ClearRedirectsInto(e)
      PROVE  Promises'
  <2>1. edit[e].path \in Paths
    BY <1>2, EditIs DEF ClearRedirectsInto, Typed
  <2>2. \A a \in Paths : former'[a] # None => former'[a] = former[a] /\ a # edit[e].path
    BY <1>2, ForgottenIs DEF ClearRedirectsInto, Typed
  <2>3. \A j \in RuleIds : rule[j] # None /\ rule[j].from # edit[e].path /\ rule[j].from # rule[j].to => rule'[j] = rule[j]
    BY <1>0, <1>2, ClearedIs DEF ClearRedirectsInto
  <2>4. post' = post /\ astray' = astray
    BY <1>2 DEF ClearRedirectsInto
  <2> QED
    BY <2>2, <2>3, <2>4, PromisesLast
<1>3. ASSUME NEW p \in Posts, Remove(p)
      PROVE  Promises'
  <2>1. \A a \in Paths : former'[a] # None => former'[a] = former[a] /\ former[a] # p
    BY <1>3, ForgottenIs DEF Remove, Typed
  <2>2. rule' = rule /\ astray' = astray /\ \A q \in Posts \ {p} : post'[q] = post[q]
    BY <1>3 DEF Remove, Typed, TypeOK
  <2>3. \A a \in Paths : former'[a] # None => former[a] \in Posts
    BY <2>1 DEF Typed, TypeOK
  <2> QED
    BY <2>1, <2>2, <2>3, PromisesLast
<1>4. ASSUME NEW e \in RuleEditors, NEW i \in RuleIds, RuleInsert(e, i)
      PROVE  Promises'
  <2>1. \A a \in Paths : former'[a] # None => former'[a] = former[a]
    BY <1>4, ForgottenIs DEF RuleInsert, Typed
  <2>2. \A j \in RuleIds : rule[j] # None => rule'[j] = rule[j]
    BY <1>4 DEF RuleInsert, FreshRule, Typed, TypeOK
  <2>3. post' = post /\ astray' = astray
    BY <1>4 DEF RuleInsert
  <2> QED
    BY <2>1, <2>2, <2>3, PromisesLast
<1>5. ASSUME NEW e \in RuleEditors, RuleWrite(e)
      PROVE  Promises'
  <2> DEFINE x == ruling[e]
  <2>1. x.id \in RuleIds /\ x.now \in Rule /\ post' = post /\ astray' = astray
    BY <1>5, RulingIs DEF RuleWrite, Typed, Idle
  <2>2. CASE x.diff = {}
    <3>1. rule[x.id] \in Rule \cup {None}
      BY <2>1 DEF Typed, TypeOK
    <3>2. Written(e) = rule[x.id]
      BY <2>1, <2>2, <3>1, SavedRuleIs DEF Written
    <3>3. rule' = rule
      BY <1>5, <3>2 DEF RuleWrite, Typed, TypeOK
    <3> QED
      BY <1>1, <1>5, <2>1, <2>2, <3>3 DEF RuleWrite
  <2>3. CASE x.diff # {}
    <3>1. \A a \in Paths : former'[a] # None =>
             former'[a] = former[a] /\ a \notin {rule[i].from : i \in {x.id} \cap ExistingRules} \cup {x.now.from}
      BY <1>5, <2>3, ForgottenIs DEF RuleWrite, Typed
    <3>2. \A a \in Paths : former'[a] # None => rule[x.id] = None \/ rule[x.id].from # a
      BY <2>1, <3>1 DEF ExistingRules
    <3>3. \A j \in RuleIds : j # x.id => rule'[j] = rule[j]
      BY <1>5 DEF RuleWrite, Typed, TypeOK
    <3> QED
      BY <2>1, <3>1, <3>2, <3>3, PromisesLast
  <2> QED
    BY <2>2, <2>3
<1>6. ASSUME NEW i \in RuleIds, RuleRemove(i)
      PROVE  Promises'
  <2>1. \A a \in Paths : former'[a] # None => former'[a] = former[a] /\ a # rule[i].from
    BY <1>6, ForgottenIs DEF RuleRemove, Typed
  <2>2. \A j \in RuleIds : j # i => rule'[j] = rule[j]
    BY <1>6 DEF RuleRemove, Typed, TypeOK
  <2>3. post' = post /\ astray' = astray
    BY <1>6 DEF RuleRemove
  <2> QED
    BY <2>1, <2>2, <2>3, PromisesLast
<1>7. ASSUME NEW e \in Editors, SaveCommit(e)
      PROVE  Promises'
  BY <1>7, OvertakenKeepsPromises, InTimeKeepsPromises
<1> QED
  BY <1>1, <1>2, <1>3, <1>4, <1>5, <1>6, <1>7, CreateKeepsPromises
  DEF Next, vars, history, UpdateRead, SaveCompare, SaveWrite, EditFails, RuleCreate, RuleUpdate, Ask,
      AssertNoChain, RuleLoad, RuleCompare, RuleFails

-----------------------------------------------------------------------------
(* Requests on redirects and what they have seen                           *)

\* A request that has seen the redirects as they are saves what it checked.
Vetted(e) ==
    ruling[e] # Idle =>
        /\ ruling[e].id = None => ruling[e].now.from # ruling[e].now.to
        /\ e \notin stale =>
              /\ ruling[e].now.from # ruling[e].now.to
              /\ ruling[e].id # None => rule[ruling[e].id] # None
              /\ ruling[e].id # None /\ ruling[e].stage \in {"asked", "vetted"}
                    => ruling[e].now = Assigned(rule[ruling[e].id], ruling[e].body)
              /\ ruling[e].id # None /\ ruling[e].stage = "compared"
                    => ruling[e].diff = Differs(rule[ruling[e].id], ruling[e].now)
              /\ ruling[e].stage # "asked" => ~Chains(ruling[e].id, ruling[e].now)

AllVetted == \A e \in RuleEditors : Vetted(e)

\* A request that a step leaves alone.
LEMMA VettedStays ==
    ASSUME NEW e \in RuleEditors, Vetted(e), ruling'[e] = ruling[e],
           ruling[e] # Idle => e \in stale' \/ (rule' = rule /\ e \notin stale)
    PROVE  Vetted(e)'
<1>1. CASE ruling[e] = Idle \/ e \in stale'
  BY <1>1 DEF Vetted
<1>2. CASE ruling[e] # Idle /\ e \notin stale'
  <2>1. rule' = rule /\ e \notin stale
    BY <1>2
  <2>2. Chains(ruling[e].id, ruling[e].now)' <=> Chains(ruling[e].id, ruling[e].now)
    BY <2>1 DEF Chains, ExistingRules
  <2> QED
    BY <1>2, <2>1, <2>2 DEF Vetted
<1> QED
  BY <1>1, <1>2

\* A step that may change redirects and ends the request that made it.
LEMMA VettedOutdated ==
    ASSUME AllVetted, NEW e \in RuleEditors, ruling'[e] = Idle,
           \A f \in RuleEditors \ {e} : ruling'[f] = ruling[f],
           stale' = Outdated(rule') \ {e}
    PROVE  AllVetted'
<1>1. ASSUME NEW f \in RuleEditors \ {e}
      PROVE  Vetted(f)'
  <2>1. ruling[f] # Idle => f \in stale' \/ (rule' = rule /\ f \notin stale)
    BY DEF Outdated
  <2> QED
    BY <2>1, VettedStays DEF AllVetted
<1>2. Vetted(e)'
  BY DEF Vetted
<1> QED
  BY <1>1, <1>2 DEF AllVetted

\* A step of one request that changes no redirect.
LEMMA VettedMoves ==
    ASSUME AllVetted, NEW e \in RuleEditors, Vetted(e)', rule' = rule,
           \A f \in RuleEditors \ {e} : ruling'[f] = ruling[f] /\ (f \in stale' <=> f \in stale)
    PROVE  AllVetted'
<1>1. ASSUME NEW f \in RuleEditors \ {e}
      PROVE  Vetted(f)'
  BY VettedStays DEF AllVetted
<1> QED
  BY <1>1 DEF AllVetted

LEMMA VettedStep ==
    ASSUME Typed, AllVetted, [Next]_vars
    PROVE  AllVetted'
<1>1. ASSUME UNCHANGED <<rule, ruling, stale>>
      PROVE  AllVetted'
  BY <1>1, VettedStays DEF AllVetted
<1>2. ASSUME UNCHANGED ruling, stale' = Outdated(rule')
      PROVE  AllVetted'
  <2>1. ASSUME NEW f \in RuleEditors
        PROVE  Vetted(f)'
    <3>1. ruling[f] # Idle => f \in stale' \/ (rule' = rule /\ f \notin stale)
      BY <1>2 DEF Outdated
    <3> QED
      BY <1>2, <3>1, VettedStays DEF AllVetted
  <2> QED
    BY <2>1 DEF AllVetted
<1>3. ASSUME NEW e \in RuleEditors, ruling' = [ruling EXCEPT ![e] = Idle], stale' = Outdated(rule') \ {e}
      PROVE  AllVetted'
  <2>1. ruling'[e] = Idle /\ \A f \in RuleEditors \ {e} : ruling'[f] = ruling[f]
    BY <1>3 DEF Typed, TypeOK
  <2> QED
    BY <1>3, <2>1, VettedOutdated
<1>4. ASSUME NEW e \in RuleEditors, RuleFails(e)
      PROVE  AllVetted'
  <2>1. ruling'[e] = Idle /\ \A f \in RuleEditors \ {e} : ruling'[f] = ruling[f] /\ (f \in stale' <=> f \in stale)
    BY <1>4 DEF RuleFails, Typed, TypeOK
  <2>2. Vetted(e)' /\ rule' = rule
    BY <1>4, <2>1 DEF RuleFails, Vetted
  <2> QED
    BY <2>1, <2>2, VettedMoves
<1>5. ASSUME NEW e \in RuleEditors, NEW now \in Rule, RuleCreate(e, now)
      PROVE  AllVetted'
  <2>1. /\ ruling'[e].stage = "asked" /\ ruling'[e].id = None /\ ruling'[e].now = now
        /\ \A f \in RuleEditors \ {e} : ruling'[f] = ruling[f]
    BY <1>5, RulingAsks DEF RuleCreate, NoBody, Bodies, Typed
  <2>2. now.from # now.to /\ rule' = rule /\ stale' = stale
    BY <1>5 DEF RuleCreate, Ask, history
  <2>3. Vetted(e)'
    BY <2>1, <2>2 DEF Vetted
  <2> QED
    BY <2>1, <2>2, <2>3, VettedMoves
<1>6. ASSUME NEW e \in RuleEditors, NEW i \in RuleIds, NEW body \in Bodies, RuleUpdate(e, i, body)
      PROVE  AllVetted'
  <2>1. rule[i] \in Rule /\ rule[i] # None
    BY <1>6 DEF RuleUpdate, Typed, TypeOK
  <2>2. Assigned(rule[i], body) \in Rule /\ Ask(e, i, body, Assigned(rule[i], body))
    BY <1>6, <2>1, AssignedIs DEF RuleUpdate
  <2>3. /\ ruling'[e].stage = "asked" /\ ruling'[e].id = i /\ ruling'[e].now = Assigned(rule[i], body)
        /\ ruling'[e].body = body
        /\ \A f \in RuleEditors \ {e} : ruling'[f] = ruling[f]
    BY <2>2, RulingAsks DEF Typed
  <2>4. /\ Assigned(rule[i], body).from # Assigned(rule[i], body).to
        /\ rule' = rule /\ stale' = stale
    BY <2>2 DEF Ask, history
  <2>5. Vetted(e)'
    BY <2>1, <2>3, <2>4, RedirectConstants DEF Vetted, Assigned
  <2> QED
    BY <2>3, <2>4, <2>5, VettedMoves
<1>7. ASSUME NEW e \in RuleEditors, AssertNoChain(e)
      PROVE  AllVetted'
  <2>1. /\ ruling[e] # Idle /\ ruling'[e].stage = "vetted" /\ ruling'[e].id = ruling[e].id
        /\ ruling'[e].now = ruling[e].now /\ ruling'[e].body = ruling[e].body
        /\ \A f \in RuleEditors \ {e} : ruling'[f] = ruling[f]
    BY <1>7, RulingVetted DEF Typed
  <2>2. /\ ruling[e].stage = "asked" /\ ~Chains(ruling[e].id, ruling[e].now) /\ rule' = rule
        /\ stale' = IF ruling[e].id = None THEN stale \ {e} ELSE stale
    BY <1>7 DEF AssertNoChain
  <2>3. ~Chains(ruling[e].id, ruling[e].now)'
    BY <2>1, <2>2 DEF Chains, ExistingRules
  <2>4. Vetted(e)
    BY DEF AllVetted
  <2>5. Vetted(e)'
    BY <2>1, <2>2, <2>3, <2>4 DEF Vetted
  <2> QED
    BY <2>1, <2>2, <2>5, VettedMoves
<1>8. ASSUME NEW e \in RuleEditors, RuleLoad(e)
      PROVE  AllVetted'
  <2>1. /\ ruling[e] # Idle /\ ruling'[e].stage = "loaded" /\ ruling'[e].id = ruling[e].id /\ ruling[e].id # None
        /\ ruling'[e].now = Assigned(rule[ruling[e].id], ruling[e].body)
        /\ \A f \in RuleEditors \ {e} : ruling'[f] = ruling[f]
    BY <1>8, RulingLoads DEF Typed
  <2>2. ruling[e].stage = "vetted" /\ rule' = rule /\ stale' = stale
    BY <1>8 DEF RuleLoad, history
  <2>3. Vetted(e)
    BY DEF AllVetted
  <2>4. e \notin stale => ruling'[e].now = ruling[e].now
    BY <2>1, <2>2, <2>3 DEF Vetted
  <2>5. e \notin stale => ~Chains(ruling[e].id, ruling[e].now)'
    BY <2>1, <2>2, <2>3 DEF Vetted, Chains, ExistingRules
  <2>6. Vetted(e)'
    BY <2>1, <2>2, <2>3, <2>4, <2>5 DEF Vetted
  <2> QED
    BY <2>1, <2>2, <2>6, VettedMoves
<1>9. ASSUME NEW e \in RuleEditors, RuleCompare(e)
      PROVE  AllVetted'
  <2>1. /\ ruling[e] # Idle /\ ruling'[e].stage = "compared" /\ ruling'[e].id = ruling[e].id
        /\ ruling'[e].now = ruling[e].now
        /\ rule[ruling[e].id] # None => ruling'[e].diff = Differs(rule[ruling[e].id], ruling[e].now)
        /\ \A f \in RuleEditors \ {e} : ruling'[f] = ruling[f]
    BY <1>9, RulingCompares DEF Typed
  <2>2. ruling[e].stage = "loaded" /\ rule' = rule /\ stale' = stale
    BY <1>9 DEF RuleCompare, history
  <2>3. Vetted(e)
    BY DEF AllVetted
  <2>4. e \notin stale => ~Chains(ruling[e].id, ruling[e].now)'
    BY <2>1, <2>2, <2>3 DEF Vetted, Chains, ExistingRules
  <2>5. Differs(rule[ruling[e].id], ruling[e].now)' = Differs(rule[ruling[e].id], ruling[e].now)
    BY <2>1, <2>2 DEF Differs
  <2>6. Vetted(e)'
    BY <2>1, <2>2, <2>3, <2>4, <2>5 DEF Vetted
  <2> QED
    BY <2>1, <2>2, <2>6, VettedMoves
<1> QED
  BY <1>1, <1>2, <1>3, <1>4, <1>5, <1>6, <1>7, <1>8, <1>9
  DEF Next, vars, history, Bodies, Create, Remove, ClearRedirectsInto, UpdateRead, SaveCompare, SaveWrite, SaveCommit,
      EditFails, RuleInsert, RuleWrite, RuleRemove

-----------------------------------------------------------------------------
(* The invariant                                                           *)

IInv == Typed /\ UniqueSlugs /\ Promises /\ AllVetted

LEMMA InitIs ==
    Init => IInv
<1> SUFFICES ASSUME Init PROVE IInv
  OBVIOUS
<1>1. Typed
  BY RedirectConstants DEF Init, Typed, TypeOK, Idle
<1>2. UniqueSlugs
  BY DEF Init, UniqueSlugs, DistinctSlugs, SoundWrites, DistinctWrites, Writing, Idle
<1>3. Promises
  BY DEF Init, Promises
<1>4. AllVetted
  BY DEF Init, AllVetted, Vetted
<1> QED
  BY <1>1, <1>2, <1>3, <1>4 DEF IInv

LEMMA Inductive ==
    Spec => []IInv
<1>1. IInv /\ [Next]_vars => IInv'
  BY TypesStep, SlugsStep, PromisesStep, VettedStep DEF IInv
<1> QED
  BY <1>1, InitIs, PTL DEF Spec

\* Types, of the requests in flight too.
THEOREM RedirectsTypeCorrect == Spec => []TypeOK
<1>1. IInv => TypeOK
  BY DEF IInv, Typed
<1> QED
  BY <1>1, Inductive, PTL

\* The address a published post gave up leads to its present one.
THEOREM OldAddressesAreLed == Spec => []OldAddressesLead
<1>1. IInv => OldAddressesLead
  BY DEF IInv, Promises, Promised, OldAddressesLead
<1> QED
  BY <1>1, Inductive, PTL

-----------------------------------------------------------------------------
(* No chain                                                                *)

LEMMA FewerRules ==
    ASSUME NEW rules, NEW fewer, OneHop(rules),
           \A i \in RuleIds : fewer[i] # None => fewer[i] = rules[i]
    PROVE  OneHop(fewer)
  BY DEF OneHop

LEMMA RenameMakesNoChain ==
    ASSUME Typed, OneHop(rule), NEW new \in RuleIds, rule[new] = None, NEW from \in Paths, NEW to \in Paths, from # to
    PROVE  OneHop(Renamed(new, from, to))
<1> DEFINE made == Renamed(new, from, to)
<1>1. made[new] = [from |-> from, to |-> to]
  BY RenamedIs DEF Typed
<1>2. ASSUME NEW i \in RuleIds \ {new}, made[i] # None
      PROVE  /\ rule[i] # None /\ rule[i].from # from /\ rule[i].from # to
             /\ made[i].from = rule[i].from
             /\ rule[i].to = from => made[i].to = to
             /\ rule[i].to # from => made[i].to = rule[i].to
  BY <1>2, RenamedBack DEF Typed
<1> HIDE DEF made
<1>3. ASSUME NEW i \in RuleIds, NEW j \in RuleIds, made[i] # None, made[j] # None
      PROVE  made[i].to # made[j].from
  <2>1. CASE i = new /\ j = new
    BY <1>1, <2>1
  <2>2. CASE i = new /\ j # new
    BY <1>1, <1>2, <1>3, <2>2
  <2>3. CASE i # new /\ j = new
    BY <1>1, <1>2, <1>3, <2>3
  <2>4. CASE i # new /\ j # new
    BY <1>2, <1>3, <2>4 DEF OneHop
  <2> QED
    BY <2>1, <2>2, <2>3, <2>4
<1> QED
  BY <1>3 DEF OneHop, made

\* One redirect, of which assertNoChain said it makes no chain, is put in its place.
LEMMA UnchainedIs ==
    ASSUME Typed, OneHop(rule), NEW i \in RuleIds, NEW new \in Rule, NEW id,
           new.from # new.to, ~Chains(id, new), id = i \/ id = None,
           rule' = [rule EXCEPT ![i] = new]
    PROVE  OneHop(rule')
<1>1. \A j \in RuleIds \ {i} : rule[j] # None => /\ rule[j].from # new.from /\ rule[j].from # new.to
                                                 /\ rule[j].to # new.from
  <2>1. \A j \in ExistingRules \ {id} : rule[j].from \notin {new.from, new.to} /\ rule[j].to # new.from
    BY DEF Chains
  <2>2. \A j \in RuleIds \ {i} : rule[j] # None => j \in ExistingRules \/ j = id
    BY DEF ExistingRules
  <2>3. \A j \in RuleIds \ {i} : j # id
    BY RedirectConstants
  <2> QED
    BY <2>1, <2>2, <2>3 DEF ExistingRules
<1> QED
  BY <1>1 DEF OneHop, Typed, TypeOK

\* No rename and no removal makes a chain; a redirect written by hand does only if
\* the redirects changed since its handler first looked.
THEOREM ChainsAreStale == Spec => OnlyStaleChecksChain
<1> DEFINE Kept == OneHop(rule) => OneHop(rule') \/ \E e \in stale : RuleEnds(e)
<1>1. ASSUME IInv, [Next]_vars
      PROVE  Kept
  <2> SUFFICES ASSUME OneHop(rule) PROVE OneHop(rule') \/ \E e \in stale : RuleEnds(e)
    OBVIOUS
  <2>0. Typed /\ AllVetted /\ rule \in Rules
    BY <1>1 DEF IInv, Typed, TypeOK, Rules
  <2>1. ASSUME UNCHANGED rule
        PROVE  Kept
    BY <2>1
  <2>2. ASSUME NEW e \in Editors, ClearRedirectsInto(e)
        PROVE  Kept
    <3>1. \A i \in RuleIds : rule'[i] # None => rule'[i] = rule[i]
      BY <2>0, <2>2, ClearedIs DEF ClearRedirectsInto
    <3> QED
      BY <3>1, FewerRules
  <2>3. ASSUME NEW e \in Editors, SaveCommit(e)
        PROVE  Kept
    <3> DEFINE was == edit[e].was.slug
               now == edit[e].now.slug
    <3>1. /\ was \in Paths /\ now \in Paths
          /\ was = now => rule' = rule
          /\ LeavesRedirect(edit[e]) => \E i \in RuleIds : FreshRule(i) /\ rule' = Renamed(i, was, now)
          /\ was # now /\ ~LeavesRedirect(edit[e]) => rule' = Cleared(rule, now)
      BY <2>0, <2>3, CommitRules, PostIs
    <3>2. CASE LeavesRedirect(edit[e])
      <4>1. PICK n \in RuleIds : FreshRule(n) /\ rule' = Renamed(n, was, now)
        BY <3>1, <3>2
      <4>2. was # now /\ rule[n] = None
        BY <3>2, <4>1 DEF LeavesRedirect, FreshRule
      <4> HIDE DEF was, now
      <4> QED
        BY <2>0, <3>1, <4>1, <4>2, RenameMakesNoChain
    <3>3. CASE was # now /\ ~LeavesRedirect(edit[e])
      <4>1. \A i \in RuleIds : Cleared(rule, now)[i] # None => Cleared(rule, now)[i] = rule[i]
        BY <2>0, ClearedIs
      <4> QED
        BY <3>1, <3>3, <4>1, FewerRules
    <3> QED
      BY <3>1, <3>2, <3>3
  <2>4. ASSUME NEW e \in RuleEditors, NEW i \in RuleIds, RuleInsert(e, i)
        PROVE  Kept
    <3>1. ruling[e].stage = "vetted" /\ ruling[e].id = None /\ ruling'[e] = Idle /\ ruling[e] # Idle
      BY <2>0, <2>4 DEF RuleInsert, Typed, TypeOK, Idle
    <3>2. CASE e \in stale
      BY <3>1, <3>2 DEF RuleEnds
    <3>3. CASE e \notin stale
      <4>1. ruling[e].now.from # ruling[e].now.to /\ ~Chains(ruling[e].id, ruling[e].now)
        BY <2>0, <3>1, <3>3 DEF AllVetted, Vetted
      <4>2. ruling[e].now \in Rule /\ rule' = [rule EXCEPT ![i] = ruling[e].now]
        BY <2>0, <2>4, <3>1, RulingIs DEF RuleInsert, Typed
      <4> QED
        BY <2>0, <3>1, <4>1, <4>2, UnchainedIs
    <3> QED
      BY <3>2, <3>3
  <2>5. ASSUME NEW e \in RuleEditors, RuleWrite(e)
        PROVE  Kept
    <3>1. ruling[e].stage = "compared" /\ ruling'[e] = Idle /\ ruling[e] # Idle
      BY <2>0, <2>5 DEF RuleWrite, Typed, TypeOK, Idle
    <3>2. CASE e \in stale
      BY <3>1, <3>2 DEF RuleEnds
    <3>3. CASE e \notin stale
      <4>1. ruling[e].now \in Rule /\ ruling[e].id \in RuleIds /\ ruling[e].id # None
        BY <2>0, <3>1, RulingIs DEF Typed
      <4>2. /\ ruling[e].now.from # ruling[e].now.to /\ ~Chains(ruling[e].id, ruling[e].now)
            /\ rule[ruling[e].id] # None /\ ruling[e].diff = Differs(rule[ruling[e].id], ruling[e].now)
        BY <2>0, <3>1, <3>3, <4>1 DEF AllVetted, Vetted
      <4>3. rule[ruling[e].id] \in Rule \cup {None}
        BY <2>0, <4>1 DEF Rules
      <4>4. Written(e) = ruling[e].now
        BY <4>1, <4>2, <4>3, SavedRuleIs DEF Written
      <4>5. rule' = [rule EXCEPT ![ruling[e].id] = ruling[e].now]
        BY <2>5, <4>4 DEF RuleWrite
      <4> QED
        BY <2>0, <4>1, <4>2, <4>5, UnchainedIs
    <3> QED
      BY <3>2, <3>3
  <2>6. ASSUME NEW i \in RuleIds, RuleRemove(i)
        PROVE  Kept
    <3>1. \A j \in RuleIds : rule'[j] # None => rule'[j] = rule[j]
      BY <2>0, <2>6 DEF RuleRemove, Rules
    <3> QED
      BY <3>1, FewerRules
  <2>7. Kept
    BY <1>1, <2>1, <2>2, <2>3, <2>4, <2>5, <2>6
    DEF Next, vars, history, Create, Remove, UpdateRead, SaveCompare, SaveWrite, EditFails, RuleCreate, RuleUpdate,
        Ask, AssertNoChain, RuleLoad, RuleCompare, RuleFails
  <2> QED
    BY <2>7
<1>2. IInv /\ [Next]_vars => [Kept]_vars
  BY <1>1
<1> QED
  BY <1>2, Inductive, PTL DEF Spec, OnlyStaleChecksChain

-----------------------------------------------------------------------------
(* Paths that are taken                                                    *)

\* A post comes to be hidden behind a redirect only by one made by hand, by the save
\* of an entity that another request overtook, and in a create before its second
\* statement.
THEOREM LivePathsAreFree == Spec => LivePathsStayFree
<1> DEFINE Kept == \A p \in Posts : LedAway(p)' =>
                      \/ LedAway(p) /\ post'[p].slug = post[p].slug
                      \/ \E e \in RuleEditors : RuleEnds(e) /\ rule' # rule
                      \/ \E e \in Editors : \/ edit[e] = Idle /\ edit'[e].stage = "created"
                                            \/ edit[e].stage = "written" /\ edit'[e] = Idle /\ Overtaken(e)
<1>1. ASSUME IInv, [Next]_vars
      PROVE  Kept
  <2>0. Typed /\ UniqueSlugs /\ rule \in Rules
    BY <1>1 DEF IInv, Typed, TypeOK, Rules
  <2>1. ASSUME \A p \in Posts : post'[p] = post[p] \/ post'[p] = None,
               \A i \in RuleIds : rule'[i] = rule[i] \/ rule'[i] = None
        PROVE  Kept
    BY <2>1 DEF LedAway, ExistingRules
  <2>2. ASSUME NEW e \in Editors, NEW p \in Posts, NEW a \in Paths, NEW shown \in BOOLEAN, Create(e, p, a, shown)
        PROVE  Kept
    <3>1. edit[e] = Idle /\ edit'[e].stage = "created"
      BY <2>0, <2>2 DEF Create, Typed, TypeOK
    <3> QED
      BY <3>1
  <2>3. ASSUME NEW e \in Editors, ClearRedirectsInto(e)
        PROVE  Kept
    <3>1. \A i \in RuleIds : rule'[i] # None => rule'[i] = rule[i]
      BY <2>0, <2>3, ClearedIs DEF ClearRedirectsInto
    <3>2. post' = post
      BY <2>3 DEF ClearRedirectsInto
    <3> QED
      BY <2>1, <3>1, <3>2
  <2>4. ASSUME NEW q \in Posts, Remove(q)
        PROVE  Kept
    <3>1. rule' = rule /\ \A p \in Posts : post'[p] = post[p] \/ post'[p] = None
      BY <2>0, <2>4 DEF Remove, Typed, TypeOK
    <3> QED
      BY <2>1, <3>1
  <2>5. ASSUME NEW e \in Editors, SaveCommit(e)
        PROVE  Kept
    <3> DEFINE was == edit[e].was.slug
               now == edit[e].now.slug
               x == edit[e]
    <3>1. /\ x.id \in Posts /\ was \in Paths /\ now \in Paths
          /\ \A q \in Posts \ {x.id} : post'[q] = post[q]
          /\ was = now => rule' = rule
          /\ LeavesRedirect(x) => \E i \in RuleIds : FreshRule(i) /\ rule' = Renamed(i, was, now)
          /\ was # now /\ ~LeavesRedirect(x) => rule' = Cleared(rule, now)
          /\ x.stage = "written"
      BY <2>0, <2>5, CommitRules, CommitPosts, PostIs
    <3>2. CASE Overtaken(e)
      <4>1. edit'[e] = Idle
        BY <2>0, <2>5 DEF SaveCommit, Typed, TypeOK
      <4> QED
        BY <3>1, <3>2, <4>1
    <3>3. CASE ~Overtaken(e)
      <4>1. /\ post[x.id] # None /\ post[x.id].slug = was /\ post'[x.id].slug = now
            /\ \A q \in Posts \ {x.id} : post[q] # None => post[q].slug # was
        BY <2>0, <2>5, <3>3, InTimeIs
      <4>2. ASSUME was # now
            PROVE  \A i \in RuleIds : rule'[i] # None =>
                      /\ rule'[i].from # now
                      /\ rule'[i].from = was \/ (rule[i] # None /\ rule[i].from = rule'[i].from)
        <5>1. CASE LeavesRedirect(x)
          <6>1. PICK n \in RuleIds : FreshRule(n) /\ rule' = Renamed(n, was, now)
            BY <3>1, <5>1
          <6>2. rule[n] = None
            BY <6>1 DEF FreshRule
          <6> HIDE DEF was, now
          <6>3. rule'[n] = [from |-> was, to |-> now]
            BY <2>0, <3>1, <4>2, <6>1, <6>2, RenamedIs DEF Typed
          <6>4. ASSUME NEW i \in RuleIds \ {n}, rule'[i] # None
                PROVE  rule[i] # None /\ rule[i].from # now /\ rule'[i].from = rule[i].from
            BY <2>0, <3>1, <4>2, <6>1, <6>2, <6>4, RenamedBack DEF Typed
          <6> QED
            BY <4>2, <6>3, <6>4
        <5>2. CASE ~LeavesRedirect(x)
          <6>1. \A i \in RuleIds : Cleared(rule, now)[i] # None => Cleared(rule, now)[i] = rule[i] /\ rule[i].from # now
            BY <2>0, ClearedIs
          <6> QED
            BY <3>1, <4>2, <5>2, <6>1
        <5> QED
          BY <5>1, <5>2
      <4>3. ASSUME NEW p \in Posts, LedAway(p)'
            PROVE  LedAway(p) /\ post'[p].slug = post[p].slug
        <5>1. PICK i \in RuleIds : rule'[i] # None /\ rule'[i].from = post'[p].slug
          BY <4>3 DEF LedAway, ExistingRules
        <5>2. post'[p] # None
          BY <4>3 DEF LedAway
        <5>3. CASE was = now
          <6>1. post[p] # None /\ post'[p].slug = post[p].slug /\ rule' = rule
            BY <3>1, <4>1, <5>2, <5>3
          <6> QED
            BY <5>1, <6>1 DEF LedAway, ExistingRules
        <5>4. CASE was # now
          <6>1. p # x.id
            BY <4>1, <4>2, <5>1, <5>4
          <6>2. post'[p] = post[p] /\ post[p].slug # was
            BY <3>1, <4>1, <5>2, <6>1
          <6>3. rule[i] # None /\ rule[i].from = post[p].slug
            BY <4>2, <5>1, <5>4, <6>2
          <6> QED
            BY <5>2, <6>2, <6>3 DEF LedAway, ExistingRules
        <5> QED
          BY <5>3, <5>4
      <4> QED
        BY <4>3
    <3> QED
      BY <3>2, <3>3
  <2>6. ASSUME NEW e \in RuleEditors, RuleEnds(e), post' = post
        PROVE  Kept
    BY <2>1, <2>6
  <2>7. ASSUME NEW e \in RuleEditors, NEW i \in RuleIds, RuleInsert(e, i)
        PROVE  Kept
    BY <2>0, <2>6, <2>7 DEF RuleInsert, RuleEnds, Typed, TypeOK
  <2>8. ASSUME NEW e \in RuleEditors, RuleWrite(e)
        PROVE  Kept
    BY <2>0, <2>6, <2>8 DEF RuleWrite, RuleEnds, Typed, TypeOK
  <2>9. ASSUME NEW i \in RuleIds, RuleRemove(i)
        PROVE  Kept
    BY <2>0, <2>1, <2>9 DEF RuleRemove, Rules
  <2>10. ASSUME UNCHANGED <<post, rule>>
         PROVE  Kept
    BY <2>1, <2>10
  <2> QED
    BY <1>1, <2>2, <2>3, <2>4, <2>5, <2>7, <2>8, <2>9, <2>10
    DEF Next, vars, history, UpdateRead, SaveCompare, SaveWrite, EditFails, RuleCreate, RuleUpdate,
        Ask, AssertNoChain, RuleLoad, RuleCompare, RuleFails
<1>2. IInv /\ [Next]_vars => [Kept]_vars
  BY <1>1
<1> QED
  BY <1>2, Inductive, PTL DEF Spec, LivePathsStayFree

(***************************************************************************)
(* PART 2.  Licences: at most one licence is primary, and the settings     *)
(* show the primary published one until the settings screen overwrites it. *)
(***************************************************************************)

\* A licence write that is open holds the lock of the settings row.
OneWriter == \A e \in Writers : tx[e] = NoTx \/ lock = e

\* What an open write found and cleared is still what the table holds.
FoundIsCurrent ==
    \A e \in Writers : tx[e].stage = "cleared" =>
        /\ tx[e].found = row[tx[e].id]
        /\ (tx[e].kind = "create") = (row[tx[e].id] = Null)
        /\ tx[e].cleared = IF Clears(tx[e].kind, row[tx[e].id], tx[e].body)
                           THEN Primaries ELSE {}

LicInv == LCTypeOK /\ OneWriter /\ FoundIsCurrent /\ AtMostOnePrimary /\ SettingsFollowWrites

-----------------------------------------------------------------------------
(* The operators                                                           *)

LEMMA PatchedType ==
    ASSUME NEW found \in Row \cup {Null}, NEW body \in Body
    PROVE  Patched(found, body) \in Row
<1>1. Base(found) \in Row
  BY DEF Base, Row
<1>2. body.number \in Numbers \cup {Null, Unsaid}
  BY DEF Body
<1>3. Flag(Base(found).isPrimary, body.isPrimary) \in BOOLEAN
  BY <1>1 DEF Flag, Row
<1>4. Flag(Base(found).isPublished, body.isPublished) \in BOOLEAN
  BY <1>1 DEF Flag, Row
<1>5. (IF body.number = Unsaid THEN Base(found).number ELSE body.number) \in Numbers \cup {Null}
  BY <1>1, <1>2 DEF Row
<1> QED
  BY <1>3, <1>4, <1>5 DEF Patched, Row

\* A write that leaves its licence primary clears the others or found it so.
LEMMA ClearsOrKeeps ==
    ASSUME NEW kind \in {"create", "update"}, NEW found \in Row \cup {Null}, NEW body \in Body,
           (kind = "create") = (found = Null),
           Patched(found, body).isPrimary
    PROVE  Clears(kind, found, body) \/ (found # Null /\ found.isPrimary)
<1>1. Flag(Base(found).isPrimary, body.isPrimary)
  BY DEF Patched
<1>2. Base(found).isPrimary \/ body.isPrimary = "yes"
  BY <1>1 DEF Flag
<1>3. CASE Base(found).isPrimary
  <2>1. found # Null
    BY <1>3 DEF Base
  <2> QED
    BY <1>3, <2>1 DEF Base
<1> QED
  BY <1>2, <1>3 DEF Clears

\* Of rows with at most one primary, the settings take the one that is shown.
LEMMA SyncedShows ==
    ASSUME NEW rows,
           \A k, l \in LicenceIds :
              (rows[k] # Null /\ rows[k].isPrimary) /\ (rows[l] # Null /\ rows[l].isPrimary) => k = l
    PROVE  LET shown == {l \in LicenceIds : rows[l] # Null /\ rows[l].isPrimary
                                                           /\ rows[l].isPublished}
           IN IF shown = {} THEN Synced(rows) = Null
                            ELSE \E l \in shown : Synced(rows) = rows[l].number
<1> DEFINE shown == {l \in LicenceIds : rows[l] # Null /\ rows[l].isPrimary /\ rows[l].isPublished}
<1>1. CASE shown = {}
  BY <1>1 DEF Synced
<1>2. CASE shown # {}
  <2>1. PICK l \in shown : TRUE
    BY <1>2
  <2>2. \A k \in shown : l <= k
    BY <2>1, LicenceConstants
  <2>3. (CHOOSE m \in shown : \A k \in shown : m <= k) \in shown
    BY <2>1, <2>2
  <2> QED
    BY <1>2, <2>3 DEF Synced
<1> QED
  BY <1>1, <1>2

-----------------------------------------------------------------------------
(* Every step preserves the invariant                                      *)

LEMMA LicInitInv == LCInit => LicInv
<1> SUFFICES ASSUME LCInit PROVE LicInv
  OBVIOUS
<1>1. LCTypeOK
  BY DEF LCInit, LCTypeOK
<1>2. OneWriter
  BY DEF LCInit, OneWriter
<1>3. FoundIsCurrent
  BY DEF LCInit, FoundIsCurrent, NoTx
<1>4. Primaries = {}
  BY DEF LCInit, Primaries
<1>5. AtMostOnePrimary /\ SettingsFollowWrites
  BY <1>4 DEF LCInit, AtMostOnePrimary, SettingsFollowWrites, InStep, Published
<1> QED
  BY <1>1, <1>2, <1>3, <1>5 DEF LicInv

LEMMA LicLockInv ==
    ASSUME LicInv, NEW e \in Writers, NEW kind \in Kinds, NEW id \in LicenceIds, NEW body \in Body,
           TxLock(e, kind, id, body)
    PROVE  LicInv'
<1> DEFINE t == [stage |-> "locked", kind |-> kind, id |-> id, body |-> body,
                 cleared |-> {}, found |-> Null]
<1>1. tx' = [tx EXCEPT ![e] = t] /\ lock' = e /\ lock = Null
  BY DEF TxLock
<1>2. t \in OpenTx
  BY DEF OpenTx
<1>3. LCTypeOK'
  <2>1. tx' \in [Writers -> OpenTx \cup {NoTx}]
    BY <1>1, <1>2 DEF LicInv, LCTypeOK
  <2> QED
    BY <2>1 DEF LicInv, LCTypeOK, TxLock
<1>4. OneWriter'
  BY <1>1, LicenceConstants DEF LicInv, LCTypeOK, OneWriter
<1>5. FoundIsCurrent'
  <2> SUFFICES ASSUME NEW f \in Writers, tx'[f].stage = "cleared"
               PROVE  FALSE
    BY DEF FoundIsCurrent
  <2>1. f # e
    BY <1>1 DEF LicInv, LCTypeOK
  <2>2. tx[f] = NoTx
    BY <1>1, LicenceConstants DEF LicInv, OneWriter
  <2> QED
    BY <1>1, <2>1, <2>2 DEF NoTx, LicInv, LCTypeOK
<1>6. AtMostOnePrimary' /\ SettingsFollowWrites'
  BY DEF LicInv, AtMostOnePrimary, SettingsFollowWrites, InStep, Published, Primaries, TxLock
<1> QED
  BY <1>3, <1>4, <1>5, <1>6 DEF LicInv

LEMMA LicClearInv ==
    ASSUME LicInv, NEW e \in Writers, TxClear(e)
    PROVE  LicInv'
<1> DEFINE t == tx[e]
           c == IF Clears(t.kind, row[t.id], t.body) THEN Primaries ELSE {}
<1>1. tx' = [tx EXCEPT ![e].stage = "cleared", ![e].found = row[t.id], ![e].cleared = c]
  BY DEF TxClear
<1>2. t \in OpenTx
  BY DEF LicInv, LCTypeOK, TxClear, NoTx
<1>3. /\ tx'[e].stage = "cleared" /\ tx'[e].found = row[t.id] /\ tx'[e].cleared = c
      /\ tx'[e].kind = t.kind /\ tx'[e].id = t.id /\ tx'[e].body = t.body
      /\ tx'[e] \in OpenTx
  BY <1>1, <1>2 DEF LicInv, LCTypeOK, OpenTx, Primaries
<1>4. \A f \in Writers \ {e} : tx'[f] = tx[f]
  BY <1>1 DEF LicInv, LCTypeOK
<1>5. LCTypeOK'
  <2>1. tx' \in [Writers -> OpenTx \cup {NoTx}]
    BY <1>1, <1>3 DEF LicInv, LCTypeOK
  <2> QED
    BY <2>1 DEF LicInv, LCTypeOK, TxClear
<1>6. OneWriter'
  <2>1. tx[e] # NoTx
    BY DEF TxClear, NoTx
  <2>2. lock' = lock /\ lock = e
    BY <2>1 DEF LicInv, OneWriter, TxClear
  <2> QED
    BY <1>4, <2>2 DEF LicInv, OneWriter
<1>7. FoundIsCurrent'
  <2>1. row' = row /\ Primaries' = Primaries /\ (t.kind = "create") = (row[t.id] = Null)
    BY DEF TxClear, Primaries
  <2>2. \A f \in Writers \ {e} : tx'[f].stage = "cleared" =>
          /\ tx'[f].found = row[tx'[f].id]
          /\ (tx'[f].kind = "create") = (row[tx'[f].id] = Null)
          /\ tx'[f].cleared = IF Clears(tx'[f].kind, row[tx'[f].id], tx'[f].body)
                              THEN Primaries ELSE {}
    BY <1>4 DEF LicInv, FoundIsCurrent
  <2>3. /\ tx'[e].found = row[tx'[e].id]
        /\ (tx'[e].kind = "create") = (row[tx'[e].id] = Null)
        /\ tx'[e].cleared = IF Clears(tx'[e].kind, row[tx'[e].id], tx'[e].body)
                            THEN Primaries ELSE {}
    BY <1>3, <2>1
  <2> QED
    BY <2>1, <2>2, <2>3 DEF FoundIsCurrent
<1>8. AtMostOnePrimary' /\ SettingsFollowWrites'
  BY DEF LicInv, AtMostOnePrimary, SettingsFollowWrites, InStep, Published, Primaries, TxClear
<1> QED
  BY <1>5, <1>6, <1>7, <1>8 DEF LicInv

LEMMA LicCommitInv ==
    ASSUME LicInv, NEW e \in Writers, TxCommit(e)
    PROVE  LicInv'
<1> DEFINE t == tx[e]
           saved == IF t.kind = "remove" THEN Null
                    ELSE IF t.kind = "primary" THEN [t.found EXCEPT !.isPrimary = TRUE]
                    ELSE Patched(t.found, t.body)
<1>1. /\ row' = [l \in LicenceIds |->
                   IF l = t.id THEN saved
                   ELSE IF l \in t.cleared THEN [row[l] EXCEPT !.isPrimary = FALSE] ELSE row[l]]
      /\ licenceNo' = Synced(row')
      /\ tx' = [tx EXCEPT ![e] = NoTx]
      /\ lock' = Null /\ overwritten' = FALSE /\ screen' = screen
  BY DEF TxCommit
<1>2. t \in OpenTx /\ t.stage = "cleared"
  BY DEF LicInv, LCTypeOK, TxCommit, NoTx
<1>3. t.kind \in Kinds /\ t.id \in LicenceIds /\ t.body \in Body
  BY <1>2 DEF OpenTx
<1>4. /\ t.found = row[t.id] /\ (t.kind = "create") = (t.found = Null)
      /\ t.cleared = IF Clears(t.kind, t.found, t.body) THEN Primaries ELSE {}
      /\ t.found \in Row \cup {Null}
  BY <1>2, <1>3 DEF LicInv, LCTypeOK, FoundIsCurrent
<1>5. \A l \in t.cleared : row[l] \in Row
  BY <1>4 DEF LicInv, LCTypeOK, Primaries
<1>6. saved \in Row \cup {Null}
  <2>1. CASE t.kind = "primary"
    BY <1>4, <2>1 DEF Row
  <2>2. CASE t.kind \in {"create", "update"}
    BY <1>3, <1>4, <2>2, PatchedType
  <2> QED
    BY <1>3, <2>1, <2>2 DEF Kinds
<1>7. \A l \in t.cleared : [row[l] EXCEPT !.isPrimary = FALSE] \in Row
  BY <1>5 DEF Row
<1>8. row' \in [LicenceIds -> Row \cup {Null}]
  BY <1>1, <1>6, <1>7 DEF LicInv, LCTypeOK
<1>9. AtMostOnePrimary'
  <2>1. Primaries' \subseteq Primaries \cup {t.id}
    BY <1>1, <1>4, <1>5 DEF Primaries, Row
  <2>2. CASE Clears(t.kind, t.found, t.body)
    <3>1. Primaries' \subseteq {t.id}
      BY <1>1, <1>4, <1>5, <2>1, <2>2 DEF Primaries, Row
    <3> QED
      BY <3>1 DEF AtMostOnePrimary
  <2>3. CASE ~Clears(t.kind, t.found, t.body)
    <3>1. t.id \in Primaries' => t.id \in Primaries
      <4> SUFFICES ASSUME t.id \in Primaries' PROVE t.id \in Primaries
        OBVIOUS
      <4>1. saved # Null /\ saved.isPrimary
        BY <1>1, <1>3 DEF Primaries
      <4>2. t.kind \in {"create", "update"}
        BY <1>3, <2>3, <4>1 DEF Kinds, Clears
      <4>3. Patched(t.found, t.body).isPrimary
        BY <4>1, <4>2
      <4>4. t.found # Null /\ t.found.isPrimary
        BY <1>3, <1>4, <2>3, <4>2, <4>3, ClearsOrKeeps
      <4> QED
        BY <1>3, <1>4, <4>4 DEF Primaries
    <3>2. Primaries' \subseteq Primaries
      BY <2>1, <3>1
    <3> QED
      BY <3>2 DEF LicInv, AtMostOnePrimary
  <2> QED
    BY <2>2, <2>3
<1>10. LCTypeOK'
  <2>1. licenceNo' \in Numbers \cup {Null}
    <3> DEFINE shown == {l \in LicenceIds : row'[l] # Null /\ row'[l].isPrimary
                                                           /\ row'[l].isPublished}
    <3>1. IF shown = {} THEN Synced(row') = Null
                        ELSE \E l \in shown : Synced(row') = row'[l].number
      BY <1>9, SyncedShows DEF AtMostOnePrimary, Primaries
    <3>2. \A l \in shown : row'[l].number \in Numbers \cup {Null}
      BY <1>8 DEF Row
    <3> QED
      BY <1>1, <3>1, <3>2
  <2>2. tx' \in [Writers -> OpenTx \cup {NoTx}]
    BY <1>1 DEF LicInv, LCTypeOK
  <2> QED
    BY <1>1, <1>8, <2>1, <2>2 DEF LicInv, LCTypeOK
<1>11. \A f \in Writers : tx'[f] = NoTx
  BY <1>1, <1>2, LicenceConstants DEF LicInv, LCTypeOK, OneWriter, OpenTx, NoTx, TxCommit
<1>12. OneWriter' /\ FoundIsCurrent'
  BY <1>11 DEF OneWriter, FoundIsCurrent, NoTx
<1>13. SettingsFollowWrites'
  <2>1. InStep'
    BY <1>1, <1>9, SyncedShows DEF InStep, Published, AtMostOnePrimary, Primaries
  <2> QED
    BY <2>1 DEF SettingsFollowWrites
<1> QED
  BY <1>9, <1>10, <1>12, <1>13 DEF LicInv

LEMMA LicRollbackInv ==
    ASSUME LicInv, NEW e \in Writers, TxRollback(e)
    PROVE  LicInv'
<1>1. tx' = [tx EXCEPT ![e] = NoTx] /\ lock' = Null
      /\ UNCHANGED <<row, licenceNo, screen, overwritten>>
  BY DEF TxRollback
<1>2. LCTypeOK'
  <2>1. tx' \in [Writers -> OpenTx \cup {NoTx}]
    BY <1>1 DEF LicInv, LCTypeOK
  <2> QED
    BY <1>1, <2>1 DEF LicInv, LCTypeOK
<1>3. \A f \in Writers : tx'[f] = NoTx
  BY <1>1 DEF LicInv, LCTypeOK, OneWriter, TxRollback
<1>4. OneWriter' /\ FoundIsCurrent'
  BY <1>3 DEF OneWriter, FoundIsCurrent, NoTx
<1>5. AtMostOnePrimary' /\ SettingsFollowWrites'
  BY <1>1 DEF LicInv, AtMostOnePrimary, SettingsFollowWrites, InStep, Published, Primaries
<1> QED
  BY <1>2, <1>4, <1>5 DEF LicInv

\* The settings screen leaves the licences and their transactions alone.
LEMMA LicScreenInv ==
    ASSUME LicInv, NEW s \in Settings, ScreenRead(s) \/ ScreenCompare(s) \/ ScreenWrite(s)
    PROVE  LicInv'
<1>1. UNCHANGED <<row, lock, tx>>
  BY DEF ScreenRead, ScreenCompare, ScreenWrite
<1>2. OneWriter' /\ FoundIsCurrent' /\ AtMostOnePrimary'
  BY <1>1 DEF LicInv, OneWriter, FoundIsCurrent, AtMostOnePrimary, Primaries
<1>3. CASE ScreenRead(s)
  <2>1. [stage |-> "read", licenceNo |-> licenceNo] \in OpenScreen
    BY DEF LicInv, LCTypeOK, OpenScreen
  <2>2. LCTypeOK'
    BY <1>3, <2>1 DEF LicInv, LCTypeOK, ScreenRead
  <2> QED
    BY <1>2, <1>3, <2>2
       DEF LicInv, SettingsFollowWrites, InStep, Published, Primaries, ScreenRead
<1>4. CASE ScreenCompare(s)
  <2>1. screen[s] \in OpenScreen
    BY <1>4 DEF LicInv, LCTypeOK, ScreenCompare, NoScreen
  <2>2. screen' \in [Settings -> OpenScreen \cup {NoScreen}]
    BY <1>4, <2>1 DEF LicInv, LCTypeOK, ScreenCompare, OpenScreen
  <2> QED
    BY <1>2, <1>4, <2>2
       DEF LicInv, LCTypeOK, SettingsFollowWrites, InStep, Published, Primaries, ScreenCompare
<1>5. CASE ScreenWrite(s)
  <2>1. screen[s] \in OpenScreen
    BY <1>5 DEF LicInv, LCTypeOK, ScreenWrite, NoScreen
  <2>2. licenceNo' \in Numbers \cup {Null} /\ overwritten' \in BOOLEAN
    BY <1>5, <2>1 DEF LicInv, LCTypeOK, ScreenWrite, OpenScreen
  <2>3. screen' \in [Settings -> OpenScreen \cup {NoScreen}]
    BY <1>5 DEF LicInv, LCTypeOK, ScreenWrite
  <2>4. LCTypeOK'
    BY <1>5, <2>2, <2>3 DEF LicInv, LCTypeOK, ScreenWrite
  <2>5. SettingsFollowWrites'
    BY <1>5 DEF LicInv, SettingsFollowWrites, InStep, Published, Primaries, ScreenWrite
  <2> QED
    BY <1>2, <2>4, <2>5 DEF LicInv
<1> QED
  BY <1>3, <1>4, <1>5

LEMMA LicStutterInv == ASSUME LicInv, UNCHANGED lcvars PROVE LicInv'
  BY DEF LicInv, lcvars, LCTypeOK, OneWriter, FoundIsCurrent, AtMostOnePrimary, SettingsFollowWrites,
         InStep, Published, Primaries

LEMMA LicNextInv == LicInv /\ [LCNext]_lcvars => LicInv'
<1> SUFFICES ASSUME LicInv, [LCNext]_lcvars PROVE LicInv'
  OBVIOUS
<1>1. ASSUME NEW e \in Writers, NEW kind \in Kinds, NEW id \in LicenceIds, NEW body \in Body,
             TxLock(e, kind, id, body)
      PROVE  LicInv'
  BY <1>1, LicLockInv
<1>2. ASSUME NEW e \in Writers, TxClear(e) PROVE LicInv'
  BY <1>2, LicClearInv
<1>3. ASSUME NEW e \in Writers, TxCommit(e) PROVE LicInv'
  BY <1>3, LicCommitInv
<1>4. ASSUME NEW e \in Writers, TxRollback(e) PROVE LicInv'
  BY <1>4, LicRollbackInv
<1>5. ASSUME NEW s \in Settings, ScreenRead(s) \/ ScreenCompare(s) \/ ScreenWrite(s) PROVE LicInv'
  BY <1>5, LicScreenInv
<1>6. CASE UNCHANGED lcvars
  BY <1>6, LicStutterInv
<1> QED
  BY <1>1, <1>2, <1>3, <1>4, <1>5, <1>6 DEF LCNext

-----------------------------------------------------------------------------
(* Theorems                                                                *)

\* The rows, the transactions and the settings screen keep their shape
\* (admin-licences.controller.ts, site-settings.controller.ts).
THEOREM LicencesTypeCorrect == LCSpec => []LCTypeOK
<1>1. LicInv => LCTypeOK
  BY DEF LicInv
<1> QED
  BY <1>1, LicInitInv, LicNextInv, PTL DEF LCSpec

\* At most one licence is primary however many requests make one primary at
\* the same time (makePrimary, create and update, serialised by lockSettings).
THEOREM OnlyOnePrimary == LCSpec => []AtMostOnePrimary
<1>1. LicInv => AtMostOnePrimary
  BY DEF LicInv
<1> QED
  BY <1>1, LicInitInv, LicNextInv, PTL DEF LCSpec

\* After a licence write the settings show the primary published licence, until
\* the settings screen writes the column itself (syncSiteSettings).
THEOREM WritesAreFollowed == LCSpec => []SettingsFollowWrites
<1>1. LicInv => SettingsFollowWrites
  BY DEF LicInv
<1> QED
  BY <1>1, LicInitInv, LicNextInv, PTL DEF LCSpec

(***************************************************************************)
(* PART 3.  Media: rows have their files, files have their rows, and what  *)
(* an owner shows is complete, whatever fails between two steps.           *)
(***************************************************************************)


\* Request r is an upload.
Uploads(r) == req[r] # NoRequest /\ req[r].op = "upload"

\* No id is known before it is handed out.
RowsAreUsed ==
    /\ \A a \in Assets : Asset(a) => a \in used
    /\ \A o \in Owners : owner[o] # Nothing => owner[o] \in used
IdIsUsed(r) == req[r] # NoRequest /\ req[r].on # Nothing => req[r].on \in used

\* Nobody else has the id of an upload, and what it has written is there.
UploadIsNew(r) ==
    Uploads(r) =>
        /\ ~Asset(req[r].on) /\ req[r].on \notin revived
        /\ \A o \in Owners : owner[o] # req[r].on
        /\ \A s \in Reqs : s # r /\ req[s] # NoRequest => req[s].on # req[r].on
        /\ {req[r].on} \X req[r].written \subseteq files
UploadInOrder(r) ==
    Uploads(r) =>
        /\ req[r].stage = "original" => req[r].written = {}
        /\ req[r].stage = "variant" => req[r].written = {"original"} /\ req[r].content \in Images
        /\ req[r].stage = "insert" => req[r].written = PartsOf(req[r].content)

\* What removes a row knows its files, and the row does not return but by an alt text.
RemoveKnowsParts(r) ==
    At(r, "remove", "row") =>
        /\ "original" \in req[r].parts
        /\ Asset(req[r].on) /\ asset[req[r].on].variants => "variant" \in req[r].parts
RemovedIsGone(r) ==
    req[r] # NoRequest /\ req[r].op = "remove" /\ req[r].stage \in Parts =>
        ~Asset(req[r].on) \/ req[r].on \in revived

\* An asset on its way to an owner was fit to be shown and still is.
WriteIsReady(r) ==
    req[r] # NoRequest /\ req[r].op \in {"attach", "edit"} /\ req[r].on # Nothing /\ Asset(req[r].on) =>
        AltTextReady(req[r].on)

RequestFits(r) ==
    IdIsUsed(r) /\ UploadIsNew(r) /\ UploadInOrder(r) /\ RemoveKnowsParts(r) /\ RemovedIsGone(r) /\ WriteIsReady(r)

ScriptHasAsset == script.stage \in {"rows", "original", "variant"} => script.on \in Assets

MDInv ==
    /\ MDTypeOK /\ ScriptHasAsset /\ RowsAreUsed
    /\ \A r \in Reqs : RequestFits(r)
    /\ RowsHaveFiles /\ NoStrayFiles /\ ShownIsComplete

-----------------------------------------------------------------------------
(* Requests                                                                *)

UploadRequest ==
    [op : {"upload"}, stage : {"original", "variant", "insert", "clean"}, on : Assets, content : Contents,
     written : SUBSET Parts]
AltRequest == [op : {"alt"}, stage : {"load", "write"}, on : Assets, content : Contents]
OwnerRequest == [op : {"attach", "edit"}, stage : {"write"}, on : Assets \cup {Nothing}, to : Owners]
RemoveRequest ==
    [op : {"remove"}, stage : {"usages", "variants", "row", "original", "variant"}, on : Assets,
     parts : SUBSET Parts]

LEMMA FourKinds == Request = UploadRequest \cup AltRequest \cup OwnerRequest \cup RemoveRequest
  BY DEF Request, UploadRequest, AltRequest, OwnerRequest, RemoveRequest

LEMMA NotIdle ==
    ASSUME NEW q \in Request
    PROVE  q # NoRequest /\ q.stage # "idle"
<1>1. q.stage # "idle"
  BY FourKinds DEF UploadRequest, AltRequest, OwnerRequest, RemoveRequest
<1>2. NoRequest.stage = "idle"
  BY DEF NoRequest
<1> QED
  BY <1>1, <1>2

LEMMA OnAsset ==
    ASSUME NEW q \in Request
    PROVE  q.on \in Assets \cup {Nothing} /\ q.op \in {"upload", "alt", "attach", "edit", "remove"}
  BY FourKinds DEF UploadRequest, AltRequest, OwnerRequest, RemoveRequest

\* The record of a request is known by its op.
LEMMA ByOp ==
    ASSUME NEW q \in Request
    PROVE  /\ q.op = "upload" <=> q \in UploadRequest
           /\ q.op = "alt" <=> q \in AltRequest
           /\ q.op \in {"attach", "edit"} <=> q \in OwnerRequest
           /\ q.op = "remove" <=> q \in RemoveRequest
  BY FourKinds DEF UploadRequest, AltRequest, OwnerRequest, RemoveRequest

\* A stage tells which operation it is a stage of.
LEMMA AtKind ==
    ASSUME MDTypeOK, NEW r \in Reqs, NEW op, NEW stage, At(r, op, stage), stage # "idle"
    PROVE  req[r] \in Request /\ req[r] # NoRequest
  BY NotIdle DEF MDTypeOK, At, NoRequest

-----------------------------------------------------------------------------
(* What a step does to the request it is a step of                         *)

LEMMA EndIs ==
    ASSUME MDTypeOK, NEW r \in Reqs, End(r)
    PROVE  /\ req' \in [Reqs -> Request \cup {NoRequest}]
           /\ req'[r] = NoRequest /\ \A s \in Reqs : s # r => req'[s] = req[s]
  BY DEF MDTypeOK, End

LEMMA StartIs ==
    ASSUME MDTypeOK, NEW r \in Reqs, NEW q \in Request, Start(r, q)
    PROVE  /\ req' \in [Reqs -> Request \cup {NoRequest}] /\ req[r] = NoRequest
           /\ req'[r] = q /\ \A s \in Reqs : s # r => req'[s] = req[s]
           /\ handled' \in 0..MaxHandled
  BY MediaConstants DEF MDTypeOK, Start

LEMMA UploadGoes ==
    ASSUME MDTypeOK, NEW r \in Reqs, req[r] \in UploadRequest,
           NEW t \in {"original", "variant", "insert", "clean"}, Goto(r, t)
    PROVE  /\ req' \in [Reqs -> Request \cup {NoRequest}]
           /\ \A s \in Reqs : s # r => req'[s] = req[s]
           /\ req'[r] \in UploadRequest /\ req'[r].stage = t /\ req'[r].on = req[r].on
           /\ req'[r].content = req[r].content /\ req'[r].written = req[r].written
<1> DEFINE q == [req[r] EXCEPT !.stage = t]
<1>1. req \in [Reqs -> Request \cup {NoRequest}]
  BY DEF MDTypeOK
<1>2. req' = [req EXCEPT ![r] = q]
  BY DEF Goto
<1>3. q \in Request
  BY FourKinds DEF UploadRequest
<1>4. req'[r] = q /\ \A s \in Reqs : s # r => req'[s] = req[s]
  BY <1>1, <1>2
<1>5. req' \in [Reqs -> Request \cup {NoRequest}]
  BY <1>1, <1>2, <1>3
<1>6. /\ q \in UploadRequest /\ q.stage = t /\ q.on = req[r].on
      /\ q.content = req[r].content /\ q.written = req[r].written
  BY DEF UploadRequest
<1> HIDE DEF q
<1> QED
  BY <1>4, <1>5, <1>6

LEMMA UploadPuts ==
    ASSUME MDTypeOK, NEW r \in Reqs, req[r] \in UploadRequest, NEW w \in SUBSET Parts,
           NEW t \in {"original", "variant", "insert", "clean"},
           req' = [req EXCEPT ![r].written = w, ![r].stage = t]
    PROVE  /\ req' \in [Reqs -> Request \cup {NoRequest}]
           /\ \A s \in Reqs : s # r => req'[s] = req[s]
           /\ req'[r] \in UploadRequest /\ req'[r].stage = t /\ req'[r].on = req[r].on
           /\ req'[r].content = req[r].content /\ req'[r].written = w
<1> DEFINE q == [req[r] EXCEPT !.written = w, !.stage = t]
<1>1. req \in [Reqs -> Request \cup {NoRequest}]
  BY DEF MDTypeOK
<1>2. req' = [req EXCEPT ![r] = q]
  BY DEF Goto
<1>3. q \in Request
  BY FourKinds DEF UploadRequest
<1>4. req'[r] = q /\ \A s \in Reqs : s # r => req'[s] = req[s]
  BY <1>1, <1>2
<1>5. req' \in [Reqs -> Request \cup {NoRequest}]
  BY <1>1, <1>2, <1>3
<1>6. /\ q \in UploadRequest /\ q.stage = t /\ q.on = req[r].on
      /\ q.content = req[r].content /\ q.written = w
  BY DEF UploadRequest
<1> HIDE DEF q
<1> QED
  BY <1>4, <1>5, <1>6

LEMMA RemoveGoes ==
    ASSUME MDTypeOK, NEW r \in Reqs, req[r] \in RemoveRequest,
           NEW t \in {"usages", "variants", "row", "original", "variant"}, Goto(r, t)
    PROVE  /\ req' \in [Reqs -> Request \cup {NoRequest}]
           /\ \A s \in Reqs : s # r => req'[s] = req[s]
           /\ req'[r] \in RemoveRequest /\ req'[r].stage = t /\ req'[r].on = req[r].on
           /\ req'[r].parts = req[r].parts
<1> DEFINE q == [req[r] EXCEPT !.stage = t]
<1>1. req \in [Reqs -> Request \cup {NoRequest}]
  BY DEF MDTypeOK
<1>2. req' = [req EXCEPT ![r] = q]
  BY DEF Goto
<1>3. q \in Request
  BY FourKinds DEF RemoveRequest
<1>4. req'[r] = q /\ \A s \in Reqs : s # r => req'[s] = req[s]
  BY <1>1, <1>2
<1>5. req' \in [Reqs -> Request \cup {NoRequest}]
  BY <1>1, <1>2, <1>3
<1>6. q \in RemoveRequest /\ q.stage = t /\ q.on = req[r].on /\ q.parts = req[r].parts
  BY DEF RemoveRequest
<1> HIDE DEF q
<1> QED
  BY <1>4, <1>5, <1>6

LEMMA RemovePlans ==
    ASSUME MDTypeOK, NEW r \in Reqs, req[r] \in RemoveRequest, NEW p \in SUBSET Parts,
           req' = [req EXCEPT ![r].stage = "row", ![r].parts = p]
    PROVE  /\ req' \in [Reqs -> Request \cup {NoRequest}]
           /\ \A s \in Reqs : s # r => req'[s] = req[s]
           /\ req'[r] \in RemoveRequest /\ req'[r].stage = "row" /\ req'[r].on = req[r].on
           /\ req'[r].parts = p
<1> DEFINE q == [req[r] EXCEPT !.stage = "row", !.parts = p]
<1>1. req \in [Reqs -> Request \cup {NoRequest}]
  BY DEF MDTypeOK
<1>2. req' = [req EXCEPT ![r] = q]
  OBVIOUS
<1>3. q \in Request
  BY FourKinds DEF RemoveRequest
<1>4. req'[r] = q /\ \A s \in Reqs : s # r => req'[s] = req[s]
  BY <1>1, <1>2
<1>5. req' \in [Reqs -> Request \cup {NoRequest}]
  BY <1>1, <1>2, <1>3
<1>6. q \in RemoveRequest /\ q.stage = "row" /\ q.on = req[r].on /\ q.parts = p
  BY DEF RemoveRequest
<1> HIDE DEF q
<1> QED
  BY <1>4, <1>5, <1>6

LEMMA AltGoes ==
    ASSUME MDTypeOK, NEW r \in Reqs, req[r] \in AltRequest, Goto(r, "write")
    PROVE  /\ req' \in [Reqs -> Request \cup {NoRequest}]
           /\ \A s \in Reqs : s # r => req'[s] = req[s]
           /\ req'[r] \in AltRequest /\ req'[r].on = req[r].on
<1> DEFINE q == [req[r] EXCEPT !.stage = "write"]
<1>1. req \in [Reqs -> Request \cup {NoRequest}]
  BY DEF MDTypeOK
<1>2. req' = [req EXCEPT ![r] = q]
  BY DEF Goto
<1>3. q \in Request
  BY FourKinds DEF AltRequest
<1>4. req'[r] = q /\ \A s \in Reqs : s # r => req'[s] = req[s]
  BY <1>1, <1>2
<1>5. req' \in [Reqs -> Request \cup {NoRequest}]
  BY <1>1, <1>2, <1>3
<1>6. q \in AltRequest /\ q.on = req[r].on
  BY DEF AltRequest
<1> HIDE DEF q
<1> QED
  BY <1>4, <1>5, <1>6

\* What a request has in hand is its own affair.
LEMMA UploadHolds ==
    ASSUME NEW r \in Reqs, req[r] \in UploadRequest
    PROVE  InHand(r) = {req[r].on} \X req[r].written
  BY NotIdle, FourKinds DEF InHand, UploadRequest

LEMMA OthersHold ==
    ASSUME NEW s \in Reqs, req'[s] = req[s]
    PROVE  InHand(s)' = InHand(s)
  BY DEF InHand

\* The other requests do not mind one that keeps its asset, or takes one that no
\* upload has, as long as the rows are as they were.
LEMMA OthersFit ==
    ASSUME NEW r \in Reqs, \A s \in Reqs : s # r => RequestFits(s) /\ req'[s] = req[s],
           UNCHANGED <<asset, owner, revived>>, used \subseteq used',
           \A s \in Reqs : s # r /\ Uploads(s) => {req[s].on} \X req[s].written \subseteq files',
           \/ req'[r] = NoRequest
           \/ req[r] # NoRequest /\ req'[r].on = req[r].on
           \/ \A s \in Reqs : s # r /\ Uploads(s) => req'[r].on # req[s].on
    PROVE  \A s \in Reqs : s # r => RequestFits(s)'
<1> SUFFICES ASSUME NEW s \in Reqs, s # r
             PROVE  RequestFits(s)'
  OBVIOUS
<1>1. RequestFits(s) /\ req'[s] = req[s]
  OBVIOUS
<1>2. IdIsUsed(s)' /\ UploadInOrder(s)'
  BY <1>1 DEF RequestFits, IdIsUsed, UploadInOrder, Uploads
<1>3. UploadIsNew(s)'
  BY <1>1 DEF RequestFits, UploadIsNew, Uploads, Asset
<1>4. RemoveKnowsParts(s)' /\ RemovedIsGone(s)' /\ WriteIsReady(s)'
  BY <1>1 DEF RequestFits, RemoveKnowsParts, RemovedIsGone, WriteIsReady, At, Asset, AltTextReady
<1> QED
  BY <1>2, <1>3, <1>4 DEF RequestFits

-----------------------------------------------------------------------------
(* upload                                                                  *)

LEMMA UploadPutKeeps ==
    ASSUME MDInv, NEW r \in Reqs, UploadPut(r)
    PROVE  MDInv'
<1> USE DEF MDInv
<1> DEFINE a == req[r].on
           part == req[r].stage
           done == req[r].written \cup {part}
           next == IF done = PartsOf(req[r].content) THEN "insert" ELSE "variant"
<1>1. /\ req[r] \in UploadRequest /\ Uploads(r) /\ part \in Parts
      /\ a \in Assets /\ done \in SUBSET Parts /\ next \in {"original", "variant", "insert", "clean"}
  BY ByOp DEF UploadPut, MDTypeOK, UploadRequest, Uploads, Parts
<1>2. /\ UNCHANGED <<asset, owner, handled, used, script, revived>>
      /\ files \subseteq files' /\ strays \subseteq strays'
      /\ files' \subseteq files \cup {<<a, part>>} /\ strays' \subseteq strays \cup {<<a, part>>}
  BY DEF UploadPut
<1>3. /\ req' \in [Reqs -> Request \cup {NoRequest}]
      /\ \A s \in Reqs : s # r => req'[s] = req[s]
      /\ req'[r] \in UploadRequest /\ req'[r].on = a /\ req'[r].content = req[r].content
      /\ \/ req'[r].stage = "clean" /\ req'[r].written = req[r].written
            /\ files' \subseteq files \cup strays'
         \/ req'[r].stage = next /\ req'[r].written = done /\ <<a, part>> \in files'
  <2>1. CASE Goto(r, "clean") /\ files' \subseteq files \cup strays'
    BY <1>1, <2>1, UploadGoes DEF UploadPut
  <2>2. CASE req' = [req EXCEPT ![r].written = done, ![r].stage = next] /\ <<a, part>> \in files'
    BY <1>1, <2>2, UploadPuts
  <2> QED
    BY <2>1, <2>2 DEF UploadPut
<1>4. MDTypeOK'
  BY <1>1, <1>2, <1>3 DEF MDTypeOK, Asset
<1>5. ScriptHasAsset'
  BY <1>2 DEF ScriptHasAsset
<1>6. RowsAreUsed'
  BY <1>2 DEF RowsAreUsed, Asset
<1>7. \A s \in Reqs : s # r => RequestFits(s)'
  <2>1. \A s \in Reqs : s # r /\ Uploads(s) => {req[s].on} \X req[s].written \subseteq files'
    BY <1>2 DEF RequestFits, UploadIsNew
  <2> QED
    BY <1>1, <1>2, <1>3, <2>1, OthersFit DEF Uploads
<1>8. UploadInOrder(r)'
  <2>1. req'[r].stage = next /\ req'[r].written = done =>
           /\ req'[r].stage = "variant" => done = {"original"} /\ req'[r].content \in Images
           /\ req'[r].stage = "insert" => done = PartsOf(req'[r].content)
           /\ req'[r].stage # "original"
    BY <1>1, <1>3 DEF RequestFits, UploadInOrder, PartsOf, Parts
  <2> QED
    BY <1>3, <2>1 DEF UploadInOrder, Uploads
<1>9. RequestFits(r)'
  <2>1. IdIsUsed(r)' /\ UploadIsNew(r)'
    BY <1>1, <1>2, <1>3 DEF RequestFits, IdIsUsed, UploadIsNew, Asset, Uploads
  <2>2. RemoveKnowsParts(r)' /\ RemovedIsGone(r)' /\ WriteIsReady(r)'
    BY <1>3 DEF RemoveKnowsParts, RemovedIsGone, WriteIsReady, At, UploadRequest
  <2> QED
    BY <1>8, <2>1, <2>2 DEF RequestFits
<1>10. RowsHaveFiles'
  BY <1>1, <1>2 DEF RowsHaveFiles, Asset
<1>11. NoStrayFiles'
  <2>1. InHand(r) = {a} \X req[r].written /\ InHand(r)' = {a} \X req'[r].written
    BY <1>1, <1>3, UploadHolds, FourKinds, NotIdle DEF InHand, UploadRequest
  <2>2. \A s \in Reqs : s # r => InHand(s)' = InHand(s)
    BY <1>3, OthersHold
  <2>3. \A f \in files : Owned(f)' = Owned(f)
    BY <1>2 DEF Owned, Asset
  <2>4. InHand(r) \subseteq InHand(r)' /\ \A f \in files' : f \in files \/ f \in strays' \/ f \in InHand(r)'
    BY <1>2, <1>3, <2>1
  <2> QED
    BY <1>2, <2>2, <2>3, <2>4 DEF NoStrayFiles
<1>12. ShownIsComplete'
  BY <1>1, <1>2 DEF ShownIsComplete, Asset, AltTextReady
<1> QED
  BY <1>4, <1>5, <1>6, <1>7, <1>9, <1>10, <1>11, <1>12

\* A step of one request that touches neither rows nor files.
LEMMA StandStill ==
    ASSUME MDInv, NEW r \in Reqs, \A s \in Reqs : s # r => req'[s] = req[s],
           UNCHANGED <<asset, files, owner, script, mdhistory>>, used \subseteq used',
           MDTypeOK', RequestFits(r)', InHand(r) \subseteq InHand(r)',
           \/ req'[r] = NoRequest
           \/ req[r] # NoRequest /\ req'[r].on = req[r].on
           \/ \A s \in Reqs : s # r /\ Uploads(s) => req'[r].on # req[s].on
    PROVE  MDInv'
<1>1. \A s \in Reqs : s # r => RequestFits(s)'
  <2>1. \A s \in Reqs : Uploads(s) => {req[s].on} \X req[s].written \subseteq files'
    BY DEF MDInv, RequestFits, UploadIsNew, mdhistory
  <2>2. UNCHANGED <<asset, owner, revived>>
    BY DEF mdhistory
  <2>3. \A s \in Reqs : s # r => RequestFits(s)
    BY DEF MDInv
  <2> QED
    BY <2>1, <2>2, <2>3, OthersFit
<1>2. ScriptHasAsset' /\ RowsAreUsed'
  BY DEF MDInv, ScriptHasAsset, RowsAreUsed, Asset
<1>3. RowsHaveFiles' /\ ShownIsComplete'
  BY DEF MDInv, RowsHaveFiles, ShownIsComplete, Asset, AltTextReady, mdhistory
<1>4. NoStrayFiles'
  <2>1. \A s \in Reqs : InHand(s) \subseteq InHand(s)'
    BY OthersHold
  <2>2. \A f \in files : Owned(f)' = Owned(f)
    BY DEF Owned, Asset
  <2> QED
    BY <2>1, <2>2 DEF MDInv, NoStrayFiles, mdhistory
<1> QED
  BY <1>1, <1>2, <1>3, <1>4 DEF MDInv

\* No request: nothing to fit.
LEMMA IdleFits ==
    ASSUME NEW r \in Reqs, req'[r] = NoRequest
    PROVE  RequestFits(r)' /\ InHand(r)' = {}
<1>1. ~At(r, "remove", "row")'
  BY DEF At, NoRequest
<1> QED
  BY <1>1 DEF RequestFits, IdIsUsed, UploadIsNew, UploadInOrder, RemoveKnowsParts, RemovedIsGone, WriteIsReady,
     InHand, Uploads

LEMMA UploadFindKeeps ==
    ASSUME MDInv, NEW r \in Reqs, NEW a \in Assets, NEW c \in Contents, UploadFind(r, a, c)
    PROVE  MDInv'
<1> DEFINE q == [op |-> "upload", stage |-> "original", on |-> a, content |-> c, written |-> {}]
<1>1. q \in UploadRequest /\ q \in Request
  BY FourKinds DEF UploadRequest
<1>2. /\ req' \in [Reqs -> Request \cup {NoRequest}] /\ req[r] = NoRequest
      /\ req'[r] = q /\ \A s \in Reqs : s # r => req'[s] = req[s]
      /\ handled' \in 0..MaxHandled
  BY <1>1, StartIs DEF UploadFind, MDInv
<1>3. /\ UNCHANGED <<asset, files, owner, script, mdhistory>> /\ used' = used \cup {a} /\ a \notin used
  BY DEF UploadFind
<1>4. \A s \in Reqs : s # r /\ req[s] # NoRequest => req[s].on # a
  BY <1>3, MediaConstants DEF MDInv, RequestFits, IdIsUsed
<1>5. ~Asset(a) /\ a \notin revived /\ \A o \in Owners : owner[o] # a
  BY <1>3, MediaConstants DEF MDInv, MDTypeOK, RowsAreUsed
<1>6. MDTypeOK'
  BY <1>2, <1>3 DEF MDInv, MDTypeOK, Asset, mdhistory
<1>7. RequestFits(r)'
  <2>1. Uploads(r)' /\ q # NoRequest
    BY <1>1, <1>2, NotIdle DEF Uploads
  <2>2. IdIsUsed(r)' /\ UploadInOrder(r)'
    BY <1>2, <1>3, <2>1 DEF IdIsUsed, UploadInOrder
  <2>3. UploadIsNew(r)'
    BY <1>2, <1>3, <1>4, <1>5 DEF UploadIsNew, Asset, mdhistory
  <2>4. RemoveKnowsParts(r)' /\ RemovedIsGone(r)' /\ WriteIsReady(r)'
    BY <1>2 DEF RemoveKnowsParts, RemovedIsGone, WriteIsReady, At
  <2> QED
    BY <2>2, <2>3, <2>4 DEF RequestFits
<1>8. \A s \in Reqs : s # r /\ Uploads(s) => req'[r].on # req[s].on
  BY <1>2, <1>4 DEF Uploads
<1>9. InHand(r) = {}
  BY <1>2 DEF InHand
<1> QED
  BY <1>2, <1>3, <1>6, <1>7, <1>8, <1>9, StandStill

LEMMA UploadInsertKeeps ==
    ASSUME MDInv, NEW r \in Reqs, UploadInsert(r)
    PROVE  MDInv'
<1> DEFINE a == req[r].on
           c == req[r].content
           new == [content |-> c, alt |-> FALSE, variants |-> c \in Images]
<1>1. req[r] \in UploadRequest /\ req[r] # NoRequest /\ Uploads(r) /\ a \in Assets /\ c \in Contents
  BY AtKind, ByOp DEF UploadInsert, MDInv, At, UploadRequest, Uploads
<1>2. UNCHANGED <<files, owner, handled, used, script, mdhistory>>
  BY DEF UploadInsert
<1>3. CASE Goto(r, "clean") /\ UNCHANGED asset
  <2>1. /\ req' \in [Reqs -> Request \cup {NoRequest}]
        /\ \A s \in Reqs : s # r => req'[s] = req[s]
        /\ req'[r] \in UploadRequest /\ req'[r].stage = "clean" /\ req'[r].on = a
        /\ req'[r].content = c /\ req'[r].written = req[r].written
    BY <1>1, <1>3, UploadGoes DEF MDInv
  <2>2. MDTypeOK'
    BY <1>2, <1>3, <2>1 DEF MDInv, MDTypeOK, Asset, mdhistory
  <2>3. IdIsUsed(r)' /\ UploadInOrder(r)'
    BY <1>1, <1>2, <2>1 DEF MDInv, RequestFits, IdIsUsed, UploadInOrder
  <2>4. UploadIsNew(r)'
    BY <1>1, <1>2, <1>3, <2>1 DEF MDInv, RequestFits, UploadIsNew, Asset, Uploads, mdhistory
  <2>5. RemoveKnowsParts(r)' /\ RemovedIsGone(r)' /\ WriteIsReady(r)'
    BY <2>1 DEF RemoveKnowsParts, RemovedIsGone, WriteIsReady, At, UploadRequest
  <2>6. InHand(r) = {a} \X req[r].written /\ InHand(r)' = {a} \X req'[r].written
    BY <1>1, <2>1, UploadHolds, FourKinds, NotIdle DEF InHand, UploadRequest
  <2> QED
    BY <1>1, <1>2, <1>3, <2>1, <2>2, <2>3, <2>4, <2>5, <2>6, StandStill DEF RequestFits
<1>4. CASE ~Holds(c) /\ asset' = [asset EXCEPT ![a] = new] /\ End(r)
  <2>1. /\ req' \in [Reqs -> Request \cup {NoRequest}] /\ req'[r] = NoRequest
        /\ \A s \in Reqs : s # r => req'[s] = req[s]
    BY <1>4, EndIs DEF MDInv
  <2>2. /\ asset' \in [Assets -> AssetRow] /\ asset'[a] = new /\ \A b \in Assets : b # a => asset'[b] = asset[b]
        /\ new # NoRow /\ new.content = c /\ new.alt = FALSE /\ new.variants = (c \in Images)
    BY <1>1, <1>4, MediaConstants DEF MDInv, MDTypeOK, AssetRow, NoRow
  <2>3. /\ ~Asset(a) /\ a \notin revived /\ a \in used
        /\ \A o \in Owners : owner[o] # a
        /\ \A s \in Reqs : s # r /\ req[s] # NoRequest => req[s].on # a
        /\ {a} \X PartsOf(c) \subseteq files /\ req[r].written = PartsOf(c)
    <3>1. a # Nothing /\ req[r].stage = "insert"
      BY <1>1, MediaConstants DEF UploadInsert, At
    <3> QED
      BY <1>1, <3>1 DEF MDInv, RequestFits, IdIsUsed, UploadIsNew, UploadInOrder
  <2>4. MDTypeOK'
    BY <1>1, <1>2, <1>4, <2>1, <2>2 DEF MDInv, MDTypeOK, Asset, Holds, mdhistory
  <2>5. ScriptHasAsset' /\ RowsAreUsed'
    BY <1>2, <2>2, <2>3 DEF MDInv, ScriptHasAsset, RowsAreUsed, Asset
  <2>6. ASSUME NEW s \in Reqs
        PROVE  RequestFits(s)'
    <3>1. CASE s = r
      BY <2>1, <3>1, IdleFits
    <3>2. CASE s # r
      <4>1. RequestFits(s) /\ req'[s] = req[s] /\ (req[s] # NoRequest => req[s].on # a)
        BY <2>1, <2>3, <3>2 DEF MDInv
      <4>2. IdIsUsed(s)' /\ UploadInOrder(s)'
        BY <1>2, <4>1 DEF RequestFits, IdIsUsed, UploadInOrder, Uploads
      <4>3. req[s] # NoRequest => asset'[req[s].on] = asset[req[s].on]
        BY <1>1, <1>4, <4>1 DEF MDInv, MDTypeOK
      <4>4. UploadIsNew(s)'
        <5>1. \A t \in Reqs : t # s /\ req'[t] # NoRequest => t # r /\ req'[t] = req[t]
          BY <2>1
        <5> QED
          BY <1>2, <4>1, <4>3, <5>1 DEF RequestFits, UploadIsNew, Uploads, Asset, mdhistory
      <4>5. RemoveKnowsParts(s)' /\ RemovedIsGone(s)' /\ WriteIsReady(s)'
        BY <1>2, <2>2, <4>1, <4>3, NotIdle DEF RequestFits, RemoveKnowsParts, RemovedIsGone, WriteIsReady, At, Asset,
           AltTextReady, mdhistory, NoRequest
      <4> QED
        BY <4>2, <4>4, <4>5 DEF RequestFits
    <3> QED
      BY <3>1, <3>2
  <2>7. RowsHaveFiles'
    BY <1>2, <2>2, <2>3 DEF MDInv, RowsHaveFiles, Asset, PartsOf, mdhistory
  <2>8. NoStrayFiles'
    <3>1. \A f \in files : Owned(f) => Owned(f)'
      BY <1>1, <2>2, <2>3 DEF MDInv, MDTypeOK, Owned, Asset
    <3>2. \A f \in {a} \X PartsOf(c) : Owned(f)'
      BY <1>1, <2>2 DEF Owned, Asset, PartsOf, Parts
    <3>3. InHand(r) = {a} \X PartsOf(c)
      BY <1>1, <2>3, UploadHolds
    <3>4. \A s \in Reqs : s # r => InHand(s)' = InHand(s)
      BY <2>1, OthersHold
    <3> QED
      BY <1>2, <3>1, <3>2, <3>3, <3>4 DEF MDInv, NoStrayFiles, mdhistory
  <2>9. ShownIsComplete'
    BY <1>2, <2>2, <2>3 DEF MDInv, MDTypeOK, ShownIsComplete, Asset, AltTextReady, mdhistory
  <2> QED
    BY <2>4, <2>5, <2>6, <2>7, <2>8, <2>9 DEF MDInv
<1> QED
  BY <1>3, <1>4 DEF UploadInsert

-----------------------------------------------------------------------------
(* Deleting files: uploads that failed, assets removed                     *)

LEMMA DeleteIs ==
    ASSUME MDTypeOK, NEW a \in Assets, NEW parts \in SUBSET Parts, Delete(a, parts)
    PROVE  /\ files' \subseteq files /\ strays \subseteq strays' /\ strays' \subseteq Assets \X Parts
           /\ \A f \in files : f[1] # a => f \in files'
           /\ \A f \in files' : f \in {a} \X parts => f \in strays'
<1>1. PICK lost \in SUBSET parts :
         /\ files' = files \ ({a} \X (parts \ lost))
         /\ strays' = strays \cup ({a} \X lost)
  BY DEF Delete
<1> QED
  BY <1>1 DEF MDTypeOK

\* What has asset a to lose is in hand, or may lose it.
LEMMA DeleteKeeps ==
    ASSUME MDInv, NEW r \in Reqs, NEW parts \in SUBSET Parts, req[r] # NoRequest, req[r].on \in Assets,
           Delete(req[r].on, parts), UNCHANGED <<asset, owner, handled, used, script, revived>>,
           req' \in [Reqs -> Request \cup {NoRequest}], \A s \in Reqs : s # r => req'[s] = req[s],
           req'[r] = NoRequest \/ req'[r].on = req[r].on,
           ~Asset(req[r].on) \/ req[r].on \in revived,
           RequestFits(r)', InHand(r) \subseteq ({req[r].on} \X parts) \cup InHand(r)'
    PROVE  MDInv'
<1> DEFINE a == req[r].on
<1>1. /\ files' \subseteq files /\ strays \subseteq strays' /\ strays' \subseteq Assets \X Parts
      /\ \A f \in files : f[1] # a => f \in files'
      /\ \A f \in files' : f \in {a} \X parts => f \in strays'
  BY DeleteIs DEF MDInv
<1>2. MDTypeOK'
  BY <1>1 DEF MDInv, MDTypeOK, Asset
<1>3. ScriptHasAsset' /\ RowsAreUsed'
  BY DEF MDInv, ScriptHasAsset, RowsAreUsed, Asset
<1>4. \A s \in Reqs : s # r => RequestFits(s)'
  <2>1. \A s \in Reqs : s # r /\ Uploads(s) => {req[s].on} \X req[s].written \subseteq files'
    BY <1>1 DEF MDInv, RequestFits, UploadIsNew
  <2>2. \A s \in Reqs : s # r => RequestFits(s)
    BY DEF MDInv
  <2> QED
    BY <2>1, <2>2, OthersFit
<1>5. RowsHaveFiles'
  <2> SUFFICES ASSUME NEW b \in Assets \ revived, Asset(b)
               PROVE  {b} \X (IF asset[b].variants THEN Parts ELSE {"original"}) \subseteq files'
    BY DEF RowsHaveFiles, Asset
  <2>1. b # a /\ {b} \X (IF asset[b].variants THEN Parts ELSE {"original"}) \subseteq files
    BY DEF MDInv, RowsHaveFiles
  <2> QED
    BY <1>1, <2>1
<1>6. NoStrayFiles'
  <2>1. \A s \in Reqs : s # r => InHand(s)' = InHand(s)
    BY OthersHold
  <2>2. \A f \in files : Owned(f)' = Owned(f)
    BY DEF Owned, Asset
  <2> QED
    BY <1>1, <2>1, <2>2 DEF MDInv, NoStrayFiles
<1>7. ShownIsComplete'
  <2> SUFFICES ASSUME NEW o \in Owners, owner[o] # Nothing
               PROVE  /\ Asset(owner[o]) /\ AltTextReady(owner[o])
                      /\ owner[o] \in revived \/ <<owner[o], "original">> \in files'
    BY DEF ShownIsComplete, Asset, AltTextReady
  <2>1. /\ Asset(owner[o]) /\ AltTextReady(owner[o])
        /\ owner[o] \in revived \/ <<owner[o], "original">> \in files
    BY DEF MDInv, ShownIsComplete
  <2>2. owner[o] \in revived \/ owner[o] # a
    BY <2>1
  <2> QED
    BY <1>1, <2>1, <2>2
<1> QED
  BY <1>2, <1>3, <1>4, <1>5, <1>6, <1>7 DEF MDInv

LEMMA UploadCleanKeeps ==
    ASSUME MDInv, NEW r \in Reqs, UploadClean(r)
    PROVE  MDInv'
<1>1. /\ req[r] \in UploadRequest /\ req[r] # NoRequest /\ Uploads(r) /\ req[r].on \in Assets
      /\ req[r].written \in SUBSET Parts
  BY AtKind, ByOp DEF UploadClean, MDInv, At, UploadRequest, Uploads
<1>2. /\ req' \in [Reqs -> Request \cup {NoRequest}] /\ req'[r] = NoRequest
      /\ \A s \in Reqs : s # r => req'[s] = req[s]
  BY EndIs DEF UploadClean, MDInv
<1>3. InHand(r) = {req[r].on} \X req[r].written
  BY <1>1, UploadHolds
<1>4. ~Asset(req[r].on)
  BY <1>1 DEF MDInv, RequestFits, UploadIsNew
<1>5. Delete(req[r].on, req[r].written) /\ UNCHANGED <<asset, owner, handled, used, script, revived>>
  BY DEF UploadClean
<1> QED
  BY <1>1, <1>2, <1>3, <1>4, <1>5, DeleteKeeps, IdleFits

LEMMA RemoveFileKeeps ==
    ASSUME MDInv, NEW r \in Reqs, RemoveFile(r)
    PROVE  MDInv'
<1> DEFINE a == req[r].on
           part == req[r].stage
<1>1. /\ req[r] \in RemoveRequest /\ req[r] # NoRequest /\ req[r].op = "remove" /\ part \in Parts
      /\ a \in Assets /\ req[r].parts \in SUBSET Parts /\ {part} \in SUBSET Parts
  BY ByOp DEF RemoveFile, MDInv, MDTypeOK, RemoveRequest
<1>2. Delete(a, {part}) /\ UNCHANGED <<asset, owner, handled, used, script, revived>>
  BY DEF RemoveFile
<1>3. ~Asset(a) \/ a \in revived
  BY <1>1 DEF MDInv, RequestFits, RemovedIsGone
<1>4. InHand(r) = {a} \X (IF part = "variant" THEN {"variant"} ELSE req[r].parts)
  BY <1>1 DEF InHand, Parts
<1>5. CASE part = "original" /\ "variant" \in req[r].parts /\ Goto(r, "variant")
  <2>1. /\ req' \in [Reqs -> Request \cup {NoRequest}]
        /\ \A s \in Reqs : s # r => req'[s] = req[s]
        /\ req'[r] \in RemoveRequest /\ req'[r].stage = "variant" /\ req'[r].on = a /\ req'[r].op = "remove"
    BY <1>1, <1>5, RemoveGoes DEF MDInv, RemoveRequest
  <2>2. req'[r] # NoRequest
    BY <2>1, FourKinds, NotIdle
  <2>3. InHand(r)' = {a} \X {"variant"}
    BY <2>1, <2>2 DEF InHand
  <2>4. InHand(r) \subseteq ({a} \X {part}) \cup InHand(r)'
    BY <1>1, <1>4, <1>5, <2>3 DEF Parts
  <2>5. RequestFits(r)'
    <3>1. IdIsUsed(r)' /\ RemovedIsGone(r)'
      BY <1>1, <1>2, <1>3, <2>1 DEF MDInv, RequestFits, IdIsUsed, RemovedIsGone, Asset
    <3>2. UploadIsNew(r)' /\ UploadInOrder(r)' /\ RemoveKnowsParts(r)' /\ WriteIsReady(r)'
      BY <2>1 DEF UploadIsNew, UploadInOrder, RemoveKnowsParts, WriteIsReady, Uploads, At
    <3> QED
      BY <3>1, <3>2 DEF RequestFits
  <2> QED
    BY <1>1, <1>2, <1>3, <2>1, <2>4, <2>5, DeleteKeeps
<1>6. CASE ~(part = "original" /\ "variant" \in req[r].parts) /\ End(r)
  <2>1. /\ req' \in [Reqs -> Request \cup {NoRequest}] /\ req'[r] = NoRequest
        /\ \A s \in Reqs : s # r => req'[s] = req[s]
    BY <1>6, EndIs DEF MDInv
  <2>2. InHand(r) \subseteq {a} \X {part}
    BY <1>1, <1>4, <1>6 DEF Parts
  <2> QED
    BY <1>1, <1>2, <1>3, <2>1, <2>2, DeleteKeeps, IdleFits
<1> QED
  BY <1>5, <1>6 DEF RemoveFile

-----------------------------------------------------------------------------
(* remove                                                                  *)

LEMMA RemoveFindKeeps ==
    ASSUME MDInv, NEW r \in Reqs, NEW a \in Assets, RemoveFind(r, a)
    PROVE  MDInv'
<1> DEFINE q == [op |-> "remove", stage |-> "usages", on |-> a, parts |-> {"original"}]
<1>1. q \in RemoveRequest /\ q \in Request
  BY FourKinds DEF RemoveRequest, Parts
<1>2. /\ req' \in [Reqs -> Request \cup {NoRequest}] /\ req[r] = NoRequest
      /\ req'[r] = q /\ \A s \in Reqs : s # r => req'[s] = req[s]
      /\ handled' \in 0..MaxHandled
  BY <1>1, StartIs DEF RemoveFind, MDInv
<1>3. UNCHANGED <<asset, files, owner, used, script, mdhistory>> /\ Asset(a) /\ a \in used
  BY DEF RemoveFind, MDInv, RowsAreUsed
<1>4. MDTypeOK'
  BY <1>2, <1>3 DEF MDInv, MDTypeOK, Asset, mdhistory
<1>5. RequestFits(r)'
  BY <1>2, <1>3 DEF RequestFits, IdIsUsed, UploadIsNew, UploadInOrder, RemoveKnowsParts, RemovedIsGone, WriteIsReady,
     Uploads, At, Parts
<1>6. \A s \in Reqs : s # r /\ Uploads(s) => req'[r].on # req[s].on
  BY <1>2, <1>3 DEF MDInv, RequestFits, UploadIsNew
<1>7. InHand(r) = {}
  BY <1>2 DEF InHand
<1> QED
  BY <1>2, <1>3, <1>4, <1>5, <1>6, <1>7, StandStill

LEMMA RemoveUsagesKeeps ==
    ASSUME MDInv, NEW r \in Reqs, RemoveUsages(r)
    PROVE  MDInv'
<1>1. req[r] \in RemoveRequest /\ req[r] # NoRequest /\ req[r].stage = "usages" /\ req[r].op = "remove"
  BY AtKind, ByOp DEF RemoveUsages, MDInv, At
<1>2. UNCHANGED <<asset, files, owner, handled, used, script, mdhistory>>
  BY DEF RemoveUsages
<1>3. InHand(r) = {}
  BY <1>1 DEF InHand
<1>4. CASE End(r)
  <2>1. /\ req' \in [Reqs -> Request \cup {NoRequest}] /\ req'[r] = NoRequest
        /\ \A s \in Reqs : s # r => req'[s] = req[s]
    BY <1>4, EndIs DEF MDInv
  <2>2. MDTypeOK'
    BY <1>2, <2>1 DEF MDInv, MDTypeOK, Asset, mdhistory
  <2> QED
    BY <1>2, <1>3, <2>1, <2>2, IdleFits, StandStill
<1>5. CASE Goto(r, "variants")
  <2>1. /\ req' \in [Reqs -> Request \cup {NoRequest}]
        /\ \A s \in Reqs : s # r => req'[s] = req[s]
        /\ req'[r] \in RemoveRequest /\ req'[r].stage = "variants" /\ req'[r].on = req[r].on
    BY <1>1, <1>5, RemoveGoes DEF MDInv
  <2>2. MDTypeOK'
    BY <1>2, <2>1 DEF MDInv, MDTypeOK, Asset, mdhistory
  <2>3. RequestFits(r)'
    BY <1>1, <1>2, <2>1 DEF MDInv, RequestFits, IdIsUsed, UploadIsNew, UploadInOrder, RemoveKnowsParts, RemovedIsGone,
       WriteIsReady, Uploads, At, Parts, RemoveRequest
  <2> QED
    BY <1>1, <1>2, <1>3, <2>1, <2>2, <2>3, StandStill
<1> QED
  BY <1>4, <1>5 DEF RemoveUsages

LEMMA RemoveVariantsKeeps ==
    ASSUME MDInv, NEW r \in Reqs, RemoveVariants(r)
    PROVE  MDInv'
<1> DEFINE a == req[r].on
           parts == IF Asset(a) /\ asset[a].variants THEN Parts ELSE {"original"}
<1>1. req[r] \in RemoveRequest /\ req[r] # NoRequest /\ req[r].stage = "variants" /\ req[r].op = "remove"
  BY AtKind, ByOp DEF RemoveVariants, MDInv, At
<1>2. /\ UNCHANGED <<asset, files, owner, handled, used, script, mdhistory>>
      /\ parts \in SUBSET Parts /\ "original" \in parts
  BY DEF RemoveVariants, Parts
<1>3. InHand(r) = {}
  BY <1>1 DEF InHand
<1>4. /\ req' \in [Reqs -> Request \cup {NoRequest}]
      /\ \A s \in Reqs : s # r => req'[s] = req[s]
      /\ req'[r] \in RemoveRequest /\ req'[r].stage = "row" /\ req'[r].on = a /\ req'[r].parts = parts
  BY <1>1, <1>2, RemovePlans DEF RemoveVariants, MDInv
<1>5. MDTypeOK'
  BY <1>2, <1>4 DEF MDInv, MDTypeOK, Asset, mdhistory
<1>6. RequestFits(r)'
  <2>1. RemoveKnowsParts(r)'
    BY <1>2, <1>4 DEF RemoveKnowsParts, Asset, Parts
  <2>2. IdIsUsed(r)'
    BY <1>1, <1>2, <1>4 DEF MDInv, RequestFits, IdIsUsed
  <2>3. UploadIsNew(r)' /\ UploadInOrder(r)' /\ RemovedIsGone(r)' /\ WriteIsReady(r)'
    BY <1>4 DEF UploadIsNew, UploadInOrder, RemovedIsGone, WriteIsReady, Uploads, Parts, RemoveRequest
  <2> QED
    BY <2>1, <2>2, <2>3 DEF RequestFits
<1> QED
  BY <1>1, <1>2, <1>3, <1>4, <1>5, <1>6, StandStill

LEMMA RemoveRowKeeps ==
    ASSUME MDInv, NEW r \in Reqs, RemoveRow(r)
    PROVE  MDInv'
<1> DEFINE a == req[r].on
<1>1. /\ req[r] \in RemoveRequest /\ req[r] # NoRequest /\ req[r].stage = "row" /\ req[r].op = "remove"
      /\ a \in Assets /\ req[r].parts \in SUBSET Parts
  BY AtKind, ByOp DEF RemoveRow, MDInv, At, RemoveRequest
<1>2. UNCHANGED <<files, owner, handled, used, script, mdhistory>>
  BY DEF RemoveRow
<1>3. InHand(r) = {}
  BY <1>1 DEF InHand
<1>4. CASE End(r) /\ UNCHANGED asset
  <2>1. /\ req' \in [Reqs -> Request \cup {NoRequest}] /\ req'[r] = NoRequest
        /\ \A s \in Reqs : s # r => req'[s] = req[s]
    BY <1>4, EndIs DEF MDInv
  <2>2. MDTypeOK'
    BY <1>2, <1>4, <2>1 DEF MDInv, MDTypeOK, Asset, mdhistory
  <2> QED
    BY <1>2, <1>3, <1>4, <2>1, <2>2, IdleFits, StandStill
<1>5. CASE ~Restricts(a) /\ Goto(r, "original") /\ asset' = [asset EXCEPT ![a] = NoRow]
  <2>1. /\ req' \in [Reqs -> Request \cup {NoRequest}]
        /\ \A s \in Reqs : s # r => req'[s] = req[s]
        /\ req'[r] \in RemoveRequest /\ req'[r].stage = "original" /\ req'[r].on = a /\ req'[r].op = "remove"
        /\ req'[r].parts = req[r].parts
    BY <1>1, <1>5, RemoveGoes DEF MDInv, RemoveRequest
  <2>2. /\ asset' \in [Assets -> AssetRow] /\ asset'[a] = NoRow
        /\ \A b \in Assets : b # a => asset'[b] = asset[b]
    BY <1>1, <1>5 DEF MDInv, MDTypeOK, AssetRow
  <2>3. \A b \in Assets : Asset(b)' => Asset(b) /\ asset'[b] = asset[b]
    BY <2>2 DEF Asset
  <2>4. MDTypeOK'
    <3>1. \A b, c \in Assets : Asset(b)' /\ asset'[b].content = asset'[c].content => b = c
      <4> SUFFICES ASSUME NEW b \in Assets, NEW c \in Assets, Asset(b)', asset'[b].content = asset'[c].content
                   PROVE  b = c
        OBVIOUS
      <4>1. Asset(b) /\ asset'[b] = asset[b] /\ asset[b].content \in Contents
        BY <2>3 DEF MDInv, MDTypeOK, AssetRow, Asset
      <4>2. c # a
        BY <1>5, <1>1, <4>1, MediaConstants DEF NoRow, MDInv, MDTypeOK
      <4> QED
        BY <2>2, <4>1, <4>2 DEF MDInv, MDTypeOK
    <3> QED
      BY <1>2, <2>1, <2>2, <3>1 DEF MDInv, MDTypeOK, mdhistory
  <2>5. ScriptHasAsset' /\ RowsAreUsed'
    BY <1>2, <2>3 DEF MDInv, ScriptHasAsset, RowsAreUsed
  <2>6. RequestFits(r)'
    <3>1. IdIsUsed(r)' /\ RemovedIsGone(r)'
      BY <1>1, <1>2, <2>1, <2>2 DEF MDInv, RequestFits, IdIsUsed, RemovedIsGone, Asset
    <3>2. UploadIsNew(r)' /\ UploadInOrder(r)' /\ RemoveKnowsParts(r)' /\ WriteIsReady(r)'
      BY <2>1 DEF UploadIsNew, UploadInOrder, RemoveKnowsParts, WriteIsReady, Uploads, At
    <3> QED
      BY <3>1, <3>2 DEF RequestFits
  <2>7. ASSUME NEW s \in Reqs, s # r
        PROVE  RequestFits(s)'
    <3>1. RequestFits(s) /\ req'[s] = req[s] /\ (req[s] # NoRequest => req[s] \in Request)
      BY <2>1, <2>7 DEF MDInv, MDTypeOK
    <3>2. req[s] # NoRequest /\ Asset(req[s].on)' => Asset(req[s].on) /\ asset'[req[s].on] = asset[req[s].on]
      BY <1>5, <3>1 DEF Asset, MDInv, MDTypeOK
    <3>3. IdIsUsed(s)' /\ UploadInOrder(s)'
      BY <1>2, <3>1 DEF RequestFits, IdIsUsed, UploadInOrder, Uploads
    <3>4. UploadIsNew(s)'
      <4>1. \A t \in Reqs : t # s /\ req'[t] # NoRequest => req[t] # NoRequest /\ req'[t].on = req[t].on
        BY <1>1, <2>1
      <4> QED
        BY <1>2, <3>1, <3>2, <4>1 DEF RequestFits, UploadIsNew, Uploads, mdhistory
    <3>5. RemoveKnowsParts(s)' /\ RemovedIsGone(s)' /\ WriteIsReady(s)'
      BY <1>2, <3>1, <3>2, NotIdle DEF RequestFits, RemoveKnowsParts, RemovedIsGone, WriteIsReady, At,
         AltTextReady, mdhistory, NoRequest
    <3> QED
      BY <3>3, <3>4, <3>5 DEF RequestFits
  <2>8. RowsHaveFiles'
    BY <1>2, <2>3 DEF MDInv, RowsHaveFiles, mdhistory
  <2>9. NoStrayFiles'
    <3>1. InHand(r)' = {a} \X req[r].parts
      <4>1. req'[r] # NoRequest
        BY <2>1, FourKinds, NotIdle
      <4> QED
        BY <2>1, <4>1 DEF InHand
    <3>2. ASSUME NEW f \in files, Owned(f), f[1] = a
          PROVE  f \in InHand(r)'
      <4>1. f = <<a, f[2]>> /\ f[2] \in Parts
        BY <3>2 DEF MDInv, MDTypeOK
      <4>2. "original" \in req[r].parts /\ (Asset(a) /\ asset[a].variants => "variant" \in req[r].parts)
        BY <1>1 DEF MDInv, RequestFits, RemoveKnowsParts, At
      <4>3. f[2] \in req[r].parts
        BY <3>2, <4>1, <4>2 DEF Owned, Parts
      <4> QED
        BY <3>1, <4>1, <4>3
    <3>3. \A f \in files : f[1] # a => Owned(f)' = Owned(f)
      BY <2>2 DEF Owned, Asset, MDInv, MDTypeOK
    <3>4. \A s \in Reqs : InHand(s) \subseteq InHand(s)'
      BY <1>3, <2>1, OthersHold
    <3> QED
      BY <1>2, <3>2, <3>3, <3>4 DEF MDInv, NoStrayFiles, mdhistory
  <2>10. ShownIsComplete'
    <3>1. \A o \in Owners : owner[o] # a
      BY <1>5 DEF Restricts, Used
    <3>2. \A o \in Owners : owner[o] # Nothing => owner[o] \in Assets
      BY DEF MDInv, MDTypeOK
    <3>3. \A o \in Owners : owner[o] # Nothing => asset'[owner[o]] = asset[owner[o]]
      BY <2>2, <3>1, <3>2
    <3> QED
      BY <1>2, <3>3 DEF MDInv, ShownIsComplete, Asset, AltTextReady, mdhistory
  <2> QED
    BY <2>4, <2>5, <2>6, <2>7, <2>8, <2>9, <2>10 DEF MDInv
<1> QED
  BY <1>4, <1>5 DEF RemoveRow

-----------------------------------------------------------------------------
(* setAltText                                                              *)

LEMMA AltFindKeeps ==
    ASSUME MDInv, NEW r \in Reqs, NEW a \in Assets, AltFind(r, a)
    PROVE  MDInv'
<1> DEFINE q == [op |-> "alt", stage |-> "load", on |-> a, content |-> asset[a].content]
<1>1. UNCHANGED <<asset, files, owner, used, script, mdhistory>> /\ Asset(a) /\ a \in used
  BY DEF AltFind, MDInv, RowsAreUsed
<1>2. q \in AltRequest /\ q \in Request
  BY <1>1, FourKinds DEF AltRequest, MDInv, MDTypeOK, AssetRow, Asset
<1>3. /\ req' \in [Reqs -> Request \cup {NoRequest}] /\ req[r] = NoRequest
      /\ req'[r] = q /\ \A s \in Reqs : s # r => req'[s] = req[s]
      /\ handled' \in 0..MaxHandled
  BY <1>2, StartIs DEF AltFind, MDInv
<1>4. MDTypeOK'
  BY <1>1, <1>3 DEF MDInv, MDTypeOK, Asset, mdhistory
<1>5. RequestFits(r)'
  BY <1>1, <1>3 DEF RequestFits, IdIsUsed, UploadIsNew, UploadInOrder, RemoveKnowsParts, RemovedIsGone, WriteIsReady,
     Uploads, At
<1>6. \A s \in Reqs : s # r /\ Uploads(s) => req'[r].on # req[s].on
  BY <1>1, <1>3 DEF MDInv, RequestFits, UploadIsNew
<1>7. InHand(r) = {}
  BY <1>3 DEF InHand
<1> QED
  BY <1>1, <1>3, <1>4, <1>5, <1>6, <1>7, StandStill

LEMMA AltLoadKeeps ==
    ASSUME MDInv, NEW r \in Reqs, AltLoad(r)
    PROVE  MDInv'
<1> DEFINE a == req[r].on
           c == req[r].content
           new == [content |-> c, alt |-> TRUE, variants |-> FALSE]
<1>1. /\ req[r] \in AltRequest /\ req[r] # NoRequest /\ req[r].op = "alt" /\ a \in Assets /\ c \in Contents
      /\ a \in used
  <2>1. req[r] \in AltRequest /\ req[r] # NoRequest /\ req[r].op = "alt" /\ a \in Assets /\ c \in Contents
    BY AtKind, ByOp DEF AltLoad, MDInv, At, AltRequest
  <2> QED
    BY <2>1, MediaConstants DEF MDInv, RequestFits, IdIsUsed
<1>2. UNCHANGED <<files, owner, handled, used, script>>
  BY DEF AltLoad
<1>3. InHand(r) = {}
  BY <1>1 DEF InHand
<1>4. CASE UNCHANGED <<asset, mdhistory>> /\ Goto(r, "write")
  <2>1. /\ req' \in [Reqs -> Request \cup {NoRequest}]
        /\ \A s \in Reqs : s # r => req'[s] = req[s]
        /\ req'[r] \in AltRequest /\ req'[r].on = a
    BY <1>1, <1>4, AltGoes DEF MDInv
  <2>2. MDTypeOK'
    BY <1>2, <1>4, <2>1 DEF MDInv, MDTypeOK, Asset, mdhistory
  <2>3. RequestFits(r)'
    BY <1>1, <1>2, <2>1 DEF RequestFits, IdIsUsed, UploadIsNew, UploadInOrder, RemoveKnowsParts, RemovedIsGone,
       WriteIsReady, Uploads, At, AltRequest
  <2> QED
    BY <1>1, <1>2, <1>3, <1>4, <2>1, <2>2, <2>3, StandStill
<1>5. CASE UNCHANGED <<asset, mdhistory>> /\ End(r)
  <2>1. /\ req' \in [Reqs -> Request \cup {NoRequest}] /\ req'[r] = NoRequest
        /\ \A s \in Reqs : s # r => req'[s] = req[s]
    BY <1>5, EndIs DEF MDInv
  <2>2. MDTypeOK'
    BY <1>2, <1>5, <2>1 DEF MDInv, MDTypeOK, Asset, mdhistory
  <2> QED
    BY <1>2, <1>3, <1>5, <2>1, <2>2, IdleFits, StandStill
<1>6. CASE /\ ~Asset(a) /\ ~Holds(c) /\ End(r)
           /\ asset' = [asset EXCEPT ![a] = new]
           /\ revived' = revived \cup {a} /\ strays' = strays \cup {<<a, "variant">>}
  <2>1. /\ req' \in [Reqs -> Request \cup {NoRequest}] /\ req'[r] = NoRequest
        /\ \A s \in Reqs : s # r => req'[s] = req[s]
    BY <1>6, EndIs DEF MDInv
  <2>2. /\ asset' \in [Assets -> AssetRow] /\ asset'[a] = new /\ \A b \in Assets : b # a => asset'[b] = asset[b]
        /\ new # NoRow /\ new.content = c /\ new.alt = TRUE /\ new.variants = FALSE
    BY <1>1, <1>6, MediaConstants DEF MDInv, MDTypeOK, AssetRow, NoRow
  <2>3. MDTypeOK'
    BY <1>1, <1>2, <1>6, <2>1, <2>2 DEF MDInv, MDTypeOK, Asset, Holds, Parts
  <2>4. ScriptHasAsset' /\ RowsAreUsed'
    BY <1>1, <1>2, <2>2 DEF MDInv, ScriptHasAsset, RowsAreUsed, Asset
  <2>5. ASSUME NEW s \in Reqs, s # r
        PROVE  RequestFits(s)'
    <3>1. RequestFits(s) /\ req'[s] = req[s] /\ (req[s] # NoRequest => req[s] \in Request)
      BY <2>1, <2>5 DEF MDInv, MDTypeOK
    <3>2. req[s] # NoRequest /\ req[s].on # a => asset'[req[s].on] = asset[req[s].on]
      BY <1>1, <1>6 DEF MDInv, MDTypeOK
    <3>3. IdIsUsed(s)' /\ UploadInOrder(s)'
      BY <1>2, <3>1 DEF RequestFits, IdIsUsed, UploadInOrder, Uploads
    <3>4. UploadIsNew(s)'
      <4>1. \A t \in Reqs : t # s /\ req'[t] # NoRequest => t # r /\ req'[t] = req[t]
        BY <2>1
      <4>2. Uploads(s) => req[s].on # a
        BY <1>1, <2>5, <3>1 DEF RequestFits, UploadIsNew
      <4> QED
        BY <1>2, <1>6, <3>1, <3>2, <4>1, <4>2 DEF RequestFits, UploadIsNew, Uploads, Asset
    <3>5. RemoveKnowsParts(s)' /\ RemovedIsGone(s)' /\ WriteIsReady(s)'
      BY <1>6, <2>2, <3>1, <3>2, NotIdle DEF RequestFits, RemoveKnowsParts, RemovedIsGone, WriteIsReady, At, Asset,
         AltTextReady, NoRequest
    <3> QED
      BY <3>3, <3>4, <3>5 DEF RequestFits
  <2>6. RequestFits(r)'
    BY <2>1, IdleFits
  <2>7. RowsHaveFiles'
    BY <1>2, <1>6, <2>2 DEF MDInv, RowsHaveFiles, Asset
  <2>8. NoStrayFiles'
    <3>1. \A f \in files : Owned(f) => Owned(f)'
      BY <1>1, <1>6, <2>2 DEF MDInv, MDTypeOK, Owned, Asset
    <3>2. \A s \in Reqs : InHand(s) \subseteq InHand(s)'
      BY <1>3, <2>1, OthersHold
    <3> QED
      BY <1>2, <1>6, <3>1, <3>2 DEF MDInv, NoStrayFiles
  <2>9. ShownIsComplete'
    <3>1. \A o \in Owners : owner[o] # Nothing => owner[o] # a /\ asset'[owner[o]] = asset[owner[o]]
      BY <1>6, <2>2 DEF MDInv, MDTypeOK, ShownIsComplete
    <3> QED
      BY <1>2, <1>6, <3>1 DEF MDInv, ShownIsComplete, Asset, AltTextReady
  <2> QED
    BY <2>3, <2>4, <2>5, <2>6, <2>7, <2>8, <2>9 DEF MDInv
<1> QED
  BY <1>4, <1>5, <1>6 DEF AltLoad, mdhistory

LEMMA AltWriteKeeps ==
    ASSUME MDInv, NEW r \in Reqs, AltWrite(r)
    PROVE  MDInv'
<1> DEFINE a == req[r].on
<1>1. req[r] \in AltRequest /\ req[r] # NoRequest /\ req[r].op = "alt" /\ a \in Assets
  BY AtKind, ByOp DEF AltWrite, MDInv, At, AltRequest
<1>2. /\ UNCHANGED <<files, owner, handled, used, script, mdhistory>>
      /\ req' \in [Reqs -> Request \cup {NoRequest}] /\ req'[r] = NoRequest
      /\ \A s \in Reqs : s # r => req'[s] = req[s]
  BY EndIs DEF AltWrite, MDInv
<1>3. InHand(r) = {}
  BY <1>1 DEF InHand
\* The row keeps all but its alt text.
<1>4. /\ asset' \in [Assets -> AssetRow]
      /\ \A b \in Assets : /\ Asset(b) <=> asset'[b] # NoRow
                           /\ asset'[b].content = asset[b].content
                           /\ Asset(b) => asset'[b].variants = asset[b].variants /\ (asset[b].alt => asset'[b].alt)
  <2>1. CASE ~Asset(a)
    BY <2>1 DEF AltWrite, MDInv, MDTypeOK, Asset
  <2>2. CASE Asset(a)
    <3> DEFINE new == [asset[a] EXCEPT !.alt = TRUE]
    <3>1. asset' = [asset EXCEPT ![a] = new]
      BY <2>2 DEF AltWrite
    <3>2. asset[a] \in [content : Contents, alt : BOOLEAN, variants : BOOLEAN]
      BY <1>1, <2>2 DEF MDInv, MDTypeOK, AssetRow, Asset
    <3>3. /\ new \in [content : Contents, alt : BOOLEAN, variants : BOOLEAN]
          /\ new.content = asset[a].content /\ new.variants = asset[a].variants /\ new.alt = TRUE
      BY <3>2
    <3> HIDE DEF new
    <3>4. new \in AssetRow /\ new # NoRow
      BY <3>3, MediaConstants DEF AssetRow, NoRow
    <3>5. asset'[a] = new /\ asset' \in [Assets -> AssetRow] /\ \A b \in Assets : b # a => asset'[b] = asset[b]
      BY <1>1, <3>1, <3>4 DEF MDInv, MDTypeOK
    <3> QED
      BY <2>2, <3>3, <3>4, <3>5 DEF Asset
  <2> QED
    BY <2>1, <2>2
<1>5. MDTypeOK'
  BY <1>2, <1>4 DEF MDInv, MDTypeOK, Asset, mdhistory
<1>6. ScriptHasAsset' /\ RowsAreUsed'
  BY <1>2, <1>4 DEF MDInv, ScriptHasAsset, RowsAreUsed, Asset
<1>7. ASSUME NEW s \in Reqs, s # r
      PROVE  RequestFits(s)'
  <2>1. RequestFits(s) /\ req'[s] = req[s] /\ (req[s] # NoRequest => req[s].on \in Assets \cup {Nothing})
    BY <1>2, <1>7, OnAsset DEF MDInv, MDTypeOK
  <2>2. req[s] # NoRequest /\ req[s].op \in {"upload", "remove"} => req[s].on \in Assets
    BY <1>7, FourKinds DEF MDInv, MDTypeOK, UploadRequest, AltRequest, OwnerRequest, RemoveRequest
  <2>3. IdIsUsed(s)' /\ UploadInOrder(s)'
    BY <1>2, <2>1 DEF RequestFits, IdIsUsed, UploadInOrder, Uploads
  <2>4. UploadIsNew(s)'
    <3>1. \A t \in Reqs : t # s /\ req'[t] # NoRequest => t # r /\ req'[t] = req[t]
      BY <1>2
    <3> QED
      BY <1>2, <1>4, <2>1, <2>2, <3>1 DEF RequestFits, UploadIsNew, Uploads, Asset, mdhistory
  <2>5. RemoveKnowsParts(s)' /\ RemovedIsGone(s)'
    BY <1>2, <1>4, <2>1, <2>2, NotIdle DEF RequestFits, RemoveKnowsParts, RemovedIsGone, At, Asset,
       mdhistory, NoRequest
  <2>6. WriteIsReady(s)'
    BY <1>4, <2>1 DEF RequestFits, WriteIsReady, Asset, AltTextReady
  <2> QED
    BY <2>3, <2>4, <2>5, <2>6 DEF RequestFits
<1>8. RequestFits(r)'
  BY <1>2, IdleFits
<1>9. RowsHaveFiles'
  BY <1>2, <1>4 DEF MDInv, RowsHaveFiles, Asset, mdhistory
<1>10. NoStrayFiles'
  <2>1. \A f \in files : f[1] \in Assets /\ (Owned(f) => Owned(f)')
    BY <1>4 DEF MDInv, MDTypeOK, Owned, Asset
  <2>2. \A s \in Reqs : InHand(s) \subseteq InHand(s)'
    BY <1>2, <1>3, OthersHold
  <2> QED
    BY <1>2, <2>1, <2>2 DEF MDInv, NoStrayFiles, mdhistory
<1>11. ShownIsComplete'
  <2>1. \A o \in Owners : owner[o] # Nothing => owner[o] \in Assets
    BY DEF MDInv, MDTypeOK
  <2> QED
    BY <1>2, <1>4, <2>1 DEF MDInv, ShownIsComplete, Asset, AltTextReady, mdhistory
<1> QED
  BY <1>5, <1>6, <1>7, <1>8, <1>9, <1>10, <1>11 DEF MDInv

-----------------------------------------------------------------------------
(* The owners                                                              *)

\* A write to an owner begins with an asset that is fit to be shown, or none.
LEMMA OwnerStarts ==
    ASSUME MDInv, NEW r \in Reqs, NEW q \in OwnerRequest, Start(r, q),
           UNCHANGED <<asset, files, owner, used, script, mdhistory>>,
           q.on # Nothing => q.on \in used /\ (Asset(q.on) => AltTextReady(q.on)),
           \A s \in Reqs : Uploads(s) => q.on # req[s].on
    PROVE  MDInv'
<1>1. q \in Request /\ q # NoRequest /\ q.op \in {"attach", "edit"}
  BY FourKinds, NotIdle DEF OwnerRequest
<1>2. /\ req' \in [Reqs -> Request \cup {NoRequest}] /\ req[r] = NoRequest
      /\ req'[r] = q /\ \A s \in Reqs : s # r => req'[s] = req[s]
      /\ handled' \in 0..MaxHandled
  BY <1>1, StartIs DEF MDInv
<1>3. MDTypeOK'
  BY <1>2 DEF MDInv, MDTypeOK, Asset, mdhistory
<1>4. RequestFits(r)'
  <2>1. IdIsUsed(r)' /\ WriteIsReady(r)'
    BY <1>2 DEF IdIsUsed, WriteIsReady, Asset, AltTextReady
  <2>2. UploadIsNew(r)' /\ UploadInOrder(r)' /\ RemoveKnowsParts(r)' /\ RemovedIsGone(r)'
    BY <1>1, <1>2 DEF UploadIsNew, UploadInOrder, RemoveKnowsParts, RemovedIsGone, Uploads, At
  <2> QED
    BY <2>1, <2>2 DEF RequestFits
<1>5. InHand(r) = {}
  BY <1>2 DEF InHand
<1> QED
  BY <1>2, <1>3, <1>4, <1>5, StandStill

LEMMA AttachKeeps ==
    ASSUME MDInv, NEW r \in Reqs, NEW o \in Owners, NEW a \in Assets, Attach(r, o, a)
    PROVE  MDInv'
<1> DEFINE q == [op |-> "attach", stage |-> "write", on |-> a, to |-> o]
<1>1. q \in OwnerRequest /\ q.on = a
  BY DEF OwnerRequest
<1>2. a \in used /\ AltTextReady(a) /\ \A s \in Reqs : Uploads(s) => a # req[s].on
  BY DEF Attach, Listed, Uploads
<1>3. Start(r, q) /\ UNCHANGED <<asset, files, owner, used, script, mdhistory>>
  BY DEF Attach
<1> HIDE DEF q
<1> QED
  BY <1>1, <1>2, <1>3, OwnerStarts

LEMMA EditKeeps ==
    ASSUME MDInv, NEW r \in Reqs, NEW o \in Owners, Edit(r, o)
    PROVE  MDInv'
<1> DEFINE q == [op |-> "edit", stage |-> "write", on |-> owner[o], to |-> o]
<1>1. q \in OwnerRequest /\ q.on = owner[o]
  BY DEF OwnerRequest, MDInv, MDTypeOK
<1>2. owner[o] # Nothing => owner[o] \in used /\ AltTextReady(owner[o])
  BY DEF MDInv, RowsAreUsed, ShownIsComplete
<1>3. \A s \in Reqs : Uploads(s) => owner[o] # req[s].on
  BY DEF MDInv, RequestFits, UploadIsNew
<1>4. Start(r, q) /\ UNCHANGED <<asset, files, owner, used, script, mdhistory>>
  BY DEF Edit
<1> HIDE DEF q
<1> QED
  BY <1>1, <1>2, <1>3, <1>4, OwnerStarts

\* An owner comes to show nothing, or an asset that is there, with its file and text.
LEMMA OwnerChanges ==
    ASSUME MDInv, NEW o \in Owners, NEW a \in Assets \cup {Nothing}, owner' = [owner EXCEPT ![o] = a],
           UNCHANGED <<asset, files, handled, used, script, mdhistory>>,
           req' \in [Reqs -> Request \cup {NoRequest}],
           \A s \in Reqs : (req'[s] = NoRequest /\ InHand(s) = {}) \/ req'[s] = req[s],
           \A s \in Reqs : req'[s] = req[s] /\ Uploads(s) => req[s].on # a,
           a # Nothing => Asset(a) /\ AltTextReady(a)
    PROVE  MDInv'
<1>1. owner' \in [Owners -> Assets \cup {Nothing}] /\ \A p \in Owners : owner'[p] = a \/ owner'[p] = owner[p]
  BY DEF MDInv, MDTypeOK
<1>2. MDTypeOK'
  BY <1>1 DEF MDInv, MDTypeOK, Asset, mdhistory
<1>3. ScriptHasAsset' /\ RowsAreUsed'
  BY <1>1 DEF MDInv, ScriptHasAsset, RowsAreUsed, Asset
<1>4. ASSUME NEW s \in Reqs
      PROVE  RequestFits(s)'
  <2>1. CASE req'[s] = NoRequest
    BY <2>1, IdleFits
  <2>2. CASE req'[s] = req[s]
    <3>1. RequestFits(s)
      BY DEF MDInv
    <3>2. IdIsUsed(s)' /\ UploadInOrder(s)'
      BY <2>2, <3>1 DEF RequestFits, IdIsUsed, UploadInOrder, Uploads
    <3>3. UploadIsNew(s)'
      BY <1>1, <2>2, <3>1 DEF RequestFits, UploadIsNew, Uploads, Asset, mdhistory
    <3>4. RemoveKnowsParts(s)' /\ RemovedIsGone(s)' /\ WriteIsReady(s)'
      BY <2>2, <3>1 DEF RequestFits, RemoveKnowsParts, RemovedIsGone, WriteIsReady, At, Asset, AltTextReady, mdhistory
    <3> QED
      BY <3>2, <3>3, <3>4 DEF RequestFits
  <2> QED
    BY <2>1, <2>2
<1>5. RowsHaveFiles'
  BY DEF MDInv, RowsHaveFiles, Asset, mdhistory
<1>6. NoStrayFiles'
  <2>1. \A s \in Reqs : InHand(s) \subseteq InHand(s)'
    BY OthersHold
  <2>2. \A f \in files : Owned(f)' = Owned(f)
    BY DEF Owned, Asset
  <2> QED
    BY <2>1, <2>2 DEF MDInv, NoStrayFiles, mdhistory
<1>7. ShownIsComplete'
  <2>1. a # Nothing => a \in revived \/ <<a, "original">> \in files
    BY DEF MDInv, RowsHaveFiles, Parts
  <2> QED
    BY <1>1, <2>1 DEF MDInv, ShownIsComplete, Asset, AltTextReady, mdhistory
<1> QED
  BY <1>2, <1>3, <1>4, <1>5, <1>6, <1>7 DEF MDInv

LEMMA OwnerWriteKeeps ==
    ASSUME MDInv, NEW r \in Reqs, OwnerWrite(r)
    PROVE  MDInv'
<1> DEFINE a == req[r].on
<1>1. /\ req[r] \in OwnerRequest /\ req[r] # NoRequest /\ req[r].op \in {"attach", "edit"}
      /\ a \in Assets \cup {Nothing} /\ req[r].to \in Owners
  <2>1. req[r].stage = "write" /\ req[r].op \in {"attach", "edit"}
    BY DEF OwnerWrite
  <2>2. req[r] \in Request /\ req[r] # NoRequest
    BY <2>1, NotIdle DEF MDInv, MDTypeOK, NoRequest
  <2>3. req[r] \in OwnerRequest
    BY <2>1, <2>2, ByOp
  <2> QED
    BY <2>1, <2>2, <2>3 DEF OwnerRequest
<1>2. /\ UNCHANGED <<asset, files, handled, used, script, mdhistory>>
      /\ req' \in [Reqs -> Request \cup {NoRequest}] /\ req'[r] = NoRequest
      /\ \A s \in Reqs : s # r => req'[s] = req[s]
  BY EndIs DEF OwnerWrite, MDInv
<1>3. InHand(r) = {}
  BY <1>1 DEF InHand
<1>4. CASE owner' = [owner EXCEPT ![req[r].to] = a] /\ (a = Nothing \/ Asset(a))
  <2>1. a # Nothing => Asset(a) /\ AltTextReady(a)
    BY <1>1, <1>4 DEF MDInv, RequestFits, WriteIsReady
  <2>2. \A s \in Reqs : s # r /\ Uploads(s) => req[s].on # a
    BY <1>1 DEF MDInv, RequestFits, UploadIsNew
  <2>3. \A s \in Reqs : req'[s] = req[s] => s # r
    BY <1>1, <1>2
  <2> QED
    BY <1>1, <1>2, <1>3, <1>4, <2>1, <2>2, <2>3, OwnerChanges
<1>5. CASE UNCHANGED owner
  <2>1. MDTypeOK'
    BY <1>2, <1>5 DEF MDInv, MDTypeOK, Asset, mdhistory
  <2> QED
    BY <1>2, <1>3, <1>5, <2>1, IdleFits, StandStill
<1> QED
  BY <1>4, <1>5 DEF OwnerWrite

LEMMA ReleaseKeeps ==
    ASSUME MDInv, NEW o \in Owners, Release(o)
    PROVE  MDInv'
<1>1. \A s \in Reqs : Uploads(s) => req[s].on # Nothing
  BY ByOp, MediaConstants DEF MDInv, MDTypeOK, Uploads, UploadRequest
<1>2. /\ owner' = [owner EXCEPT ![o] = Nothing] /\ UNCHANGED <<asset, files, handled, used, script, mdhistory>>
      /\ UNCHANGED req
  BY DEF Release
<1>3. req' \in [Reqs -> Request \cup {NoRequest}]
  BY <1>2 DEF MDInv, MDTypeOK
<1> QED
  BY <1>1, <1>2, <1>3, OwnerChanges

-----------------------------------------------------------------------------
(* The script, and stops                                                   *)

\* Rows and requests as they were, files only more, each of them known: the script.
LEMMA ScriptKeeps ==
    ASSUME MDInv, UNCHANGED <<asset, owner, req, handled, used, revived>>,
           files \subseteq files', files' \subseteq Assets \X Parts,
           strays \subseteq strays', strays' \subseteq Assets \X Parts,
           \A f \in files' : f \in files \/ Owned(f) \/ f \in strays',
           script' \in [stage : {"idle", "next", "rows", "original", "variant"}, todo : SUBSET Assets,
                         on : Assets \cup {Nothing}, parts : SUBSET Parts],
           ScriptHasAsset'
    PROVE  MDInv'
<1>1. MDTypeOK'
  BY DEF MDInv, MDTypeOK, Asset
<1>2. RowsAreUsed' /\ RowsHaveFiles' /\ ShownIsComplete'
  BY DEF MDInv, RowsAreUsed, RowsHaveFiles, ShownIsComplete, Asset, AltTextReady
<1>3. ASSUME NEW s \in Reqs
      PROVE  RequestFits(s)'
  <2>1. RequestFits(s)
    BY DEF MDInv
  <2>2. IdIsUsed(s)' /\ UploadIsNew(s)' /\ UploadInOrder(s)'
    BY <2>1 DEF RequestFits, IdIsUsed, UploadIsNew, UploadInOrder, Uploads, Asset
  <2>3. RemoveKnowsParts(s)' /\ RemovedIsGone(s)' /\ WriteIsReady(s)'
    BY <2>1 DEF RequestFits, RemoveKnowsParts, RemovedIsGone, WriteIsReady, At, Asset, AltTextReady
  <2> QED
    BY <2>2, <2>3 DEF RequestFits
<1>4. NoStrayFiles'
  <2>1. \A s \in Reqs : InHand(s)' = InHand(s)
    BY OthersHold
  <2>2. \A f \in files' : Owned(f)' = Owned(f)
    BY DEF Owned, Asset
  <2> QED
    BY <2>1, <2>2 DEF MDInv, NoStrayFiles
<1> QED
  BY <1>1, <1>2, <1>3, <1>4 DEF MDInv

LEMMA ScriptType ==
    ASSUME MDInv, NEW rest \in SUBSET Assets
    PROVE  /\ Done(rest) \in [stage : {"idle", "next", "rows", "original", "variant"}, todo : SUBSET Assets,
                               on : Assets \cup {Nothing}, parts : SUBSET Parts]
           /\ Done(rest).stage \in {"idle", "next"}
  BY DEF Done, NoScript

LEMMA ScriptNextKeeps ==
    ASSUME MDInv, ScriptStart \/ (\E a \in Assets : ScriptRead(a)) \/ ScriptRows \/ ScriptStops
    PROVE  MDInv'
<1> DEFINE ScriptSet == [stage : {"idle", "next", "rows", "original", "variant"}, todo : SUBSET Assets,
                          on : Assets \cup {Nothing}, parts : SUBSET Parts]
<1>1. script \in ScriptSet /\ files \subseteq Assets \X Parts /\ strays \subseteq Assets \X Parts
  BY DEF MDInv, MDTypeOK
<1>2. UNCHANGED <<asset, files, owner, req, handled, used, mdhistory>>
  BY DEF ScriptStart, ScriptRead, ScriptRows, ScriptStops
<1>3. script' \in ScriptSet /\ ScriptHasAsset'
  <2>1. CASE ScriptStart
    BY <2>1, ScriptType DEF ScriptStart, ScriptHasAsset
  <2>2. CASE \E a \in Assets : ScriptRead(a)
    <3> PICK a \in Assets : ScriptRead(a)
      BY <2>2
    <3>1. CASE script' = Done(script.todo \ {a})
      BY <1>1, <3>1, ScriptType DEF ScriptHasAsset
    <3>2. CASE script' = [script EXCEPT !.stage = "rows", !.on = a]
      BY <1>1, <3>2 DEF ScriptHasAsset
    <3> QED
      BY <3>1, <3>2 DEF ScriptRead
  <2>3. CASE ScriptRows
    BY <1>1, <2>3 DEF ScriptRows, MDInv, ScriptHasAsset, Parts
  <2>4. CASE ScriptStops
    BY <2>4 DEF ScriptStops, NoScript, ScriptHasAsset
  <2> QED
    BY <2>1, <2>2, <2>3, <2>4
<1> QED
  BY <1>1, <1>2, <1>3, ScriptKeeps DEF mdhistory

LEMMA ScriptPutKeeps ==
    ASSUME MDInv, ScriptPut
    PROVE  MDInv'
<1> DEFINE a == script.on
           part == script.stage
<1>1. /\ a \in Assets /\ part \in Parts /\ script.todo \in SUBSET Assets
      /\ files \subseteq Assets \X Parts /\ strays \subseteq Assets \X Parts
      /\ script \in [stage : {"idle", "next", "rows", "original", "variant"}, todo : SUBSET Assets,
                      on : Assets \cup {Nothing}, parts : SUBSET Parts]
  BY DEF ScriptPut, MDInv, MDTypeOK, ScriptHasAsset, Parts
<1>2. /\ files' = files \cup {<<a, part>>}
      /\ strays' = IF Owned(<<a, part>>) THEN strays ELSE strays \cup {<<a, part>>}
      /\ UNCHANGED <<asset, owner, req, handled, used, revived>>
  BY DEF ScriptPut
<1>3. /\ script' \in [stage : {"idle", "next", "rows", "original", "variant"}, todo : SUBSET Assets,
                      on : Assets \cup {Nothing}, parts : SUBSET Parts]
      /\ ScriptHasAsset'
  <2>1. CASE script' = [script EXCEPT !.stage = "variant"]
    BY <1>1, <2>1 DEF ScriptHasAsset
  <2>2. CASE script' = Done(script.todo \ {a})
    BY <1>1, <2>2, ScriptType DEF ScriptHasAsset
  <2> QED
    BY <2>1, <2>2 DEF ScriptPut
<1>4. /\ files \subseteq files' /\ files' \subseteq Assets \X Parts
      /\ strays \subseteq strays' /\ strays' \subseteq Assets \X Parts
  BY <1>1, <1>2
<1>5. \A f \in files' : f \in files \/ Owned(f) \/ f \in strays'
  BY <1>2
<1> QED
  BY <1>2, <1>3, <1>4, <1>5, ScriptKeeps

LEMMA CrashKeeps ==
    ASSUME MDInv, Crash
    PROVE  MDInv'
<1>1. /\ UNCHANGED <<asset, files, owner, handled, used, script, revived>>
      /\ strays' = strays \cup {f \in files : ~Owned(f)}
      /\ req' \in [Reqs -> Request \cup {NoRequest}] /\ \A r \in Reqs : req'[r] = NoRequest
  BY DEF Crash
<1>2. MDTypeOK'
  BY <1>1 DEF MDInv, MDTypeOK, Asset
<1>3. ScriptHasAsset' /\ RowsAreUsed' /\ RowsHaveFiles' /\ ShownIsComplete'
  BY <1>1 DEF MDInv, ScriptHasAsset, RowsAreUsed, RowsHaveFiles, ShownIsComplete, Asset, AltTextReady
<1>4. \A r \in Reqs : RequestFits(r)'
  BY <1>1, IdleFits
<1>5. NoStrayFiles'
  BY <1>1 DEF NoStrayFiles, Owned, Asset
<1> QED
  BY <1>2, <1>3, <1>4, <1>5 DEF MDInv

-----------------------------------------------------------------------------
(* The theorems                                                            *)

LEMMA MDInitInv == MDInit => MDInv
<1> SUFFICES ASSUME MDInit
             PROVE  MDInv
  OBVIOUS
<1>1. \A a \in Assets : ~Asset(a)
  BY DEF MDInit, Asset
<1>2. MDTypeOK
  BY <1>1, MediaConstants DEF MDInit, MDTypeOK, AssetRow, NoScript
<1>3. \A r \in Reqs : RequestFits(r)
  BY DEF MDInit, RequestFits, IdIsUsed, UploadIsNew, UploadInOrder, RemoveKnowsParts, RemovedIsGone, WriteIsReady,
     Uploads, At, NoRequest
<1>4. ScriptHasAsset /\ RowsAreUsed /\ RowsHaveFiles /\ NoStrayFiles /\ ShownIsComplete
  BY <1>1 DEF MDInit, ScriptHasAsset, RowsAreUsed, RowsHaveFiles, NoStrayFiles, ShownIsComplete, NoScript
<1> QED
  BY <1>2, <1>3, <1>4 DEF MDInv

LEMMA MDStutterInv == MDInv /\ UNCHANGED mdvars => MDInv'
<1> SUFFICES ASSUME MDInv, UNCHANGED mdvars
             PROVE  MDInv'
  OBVIOUS
<1>1. UNCHANGED <<asset, files, owner, req, handled, used, script, revived, strays>>
  BY DEF mdvars, mdhistory
<1> QED
  BY <1>1, ScriptKeeps DEF MDInv, MDTypeOK, ScriptHasAsset

LEMMA MDNextInv == MDInv /\ [MDNext]_mdvars => MDInv'
<1> SUFFICES ASSUME MDInv, [MDNext]_mdvars
             PROVE  MDInv'
  OBVIOUS
<1>1. ASSUME NEW r \in Reqs, NEW a \in Assets,
             \/ \E c \in Contents : UploadFind(r, a, c)
             \/ AltFind(r, a) \/ RemoveFind(r, a)
             \/ \E o \in Owners : Attach(r, o, a)
      PROVE  MDInv'
  BY <1>1, UploadFindKeeps, AltFindKeeps, RemoveFindKeeps, AttachKeeps
<1>2. ASSUME NEW r \in Reqs,
             \/ UploadPut(r) \/ UploadInsert(r) \/ UploadClean(r)
             \/ AltLoad(r) \/ AltWrite(r)
             \/ OwnerWrite(r) \/ \E o \in Owners : Edit(r, o)
             \/ RemoveUsages(r) \/ RemoveVariants(r) \/ RemoveRow(r) \/ RemoveFile(r)
      PROVE  MDInv'
  <2>1. CASE UploadPut(r) \/ UploadInsert(r) \/ UploadClean(r)
    BY <2>1, UploadPutKeeps, UploadInsertKeeps, UploadCleanKeeps
  <2>2. CASE AltLoad(r) \/ AltWrite(r)
    BY <2>2, AltLoadKeeps, AltWriteKeeps
  <2>3. CASE OwnerWrite(r) \/ \E o \in Owners : Edit(r, o)
    BY <2>3, OwnerWriteKeeps, EditKeeps
  <2>4. CASE RemoveUsages(r) \/ RemoveVariants(r) \/ RemoveRow(r) \/ RemoveFile(r)
    BY <2>4, RemoveUsagesKeeps, RemoveVariantsKeeps, RemoveRowKeeps, RemoveFileKeeps
  <2> QED
    BY <1>2, <2>1, <2>2, <2>3, <2>4
<1>3. CASE \E o \in Owners : Release(o)
  BY <1>3, ReleaseKeeps
<1>4. CASE ScriptStart \/ (\E a \in Assets : ScriptRead(a)) \/ ScriptRows \/ ScriptStops
  BY <1>4, ScriptNextKeeps
<1>5. CASE ScriptPut
  BY <1>5, ScriptPutKeeps
<1>6. CASE Crash
  BY <1>6, CrashKeeps
<1>7. CASE UNCHANGED mdvars
  BY <1>7, MDStutterInv
<1> QED
  BY <1>1, <1>2, <1>3, <1>4, <1>5, <1>6, <1>7 DEF MDNext

\* The inductive invariant holds of every behaviour of the library.
THEOREM MediaInvariant == MDSpec => []MDInv
  BY MDInitInv, MDNextInv, PTL DEF MDSpec

\* The library's rows, files and requests keep their shape, and no two rows have the
\* same content (uq_assets_checksum, upload and the save of an alt text).
THEOREM MediaTypeCorrect == MDSpec => []MDTypeOK
<1>1. MDInv => MDTypeOK
  BY DEF MDInv
<1> QED
  BY <1>1, MediaInvariant, PTL

\* A row never points at files that are not there, but for one that the save of an
\* alt text has inserted again (upload, remove and their clean-up).
THEOREM RowsKeepTheirFiles == MDSpec => []RowsHaveFiles
<1>1. MDInv => RowsHaveFiles
  BY DEF MDInv
<1> QED
  BY <1>1, MediaInvariant, PTL

\* Every file has a row, or a request that will delete it, or was lost to a fault
\* (upload's clean-up, remove's order, reprocess-media.mjs).
THEOREM NoFileIsForgotten == MDSpec => []NoStrayFiles
<1>1. MDInv => NoStrayFiles
  BY DEF MDInv
<1> QED
  BY <1>1, MediaInvariant, PTL

\* What an owner shows is there with its file and, of an image, its alt text
\* (assertAltTextReady and the RESTRICT foreign keys).
THEOREM ShownAssetsAreComplete == MDSpec => []ShownIsComplete
<1>1. MDInv => ShownIsComplete
  BY DEF MDInv
<1> QED
  BY <1>1, MediaInvariant, PTL

=============================================================================
