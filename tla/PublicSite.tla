----------------------------- MODULE PublicSite -----------------------------
(***************************************************************************)
(* What the public site serves: the content tables, the public handlers    *)
(* that compute an answer from them, the tags each answer is cached under  *)
(* (@CacheTags, ASSET_PUBLIC_MEMO_TAGS) and the tags each admin write      *)
(* purges (the CRUD kernel's entityType and extraPurgeTags, and the        *)
(* hand-written purges).  ResponseCache has the cache itself, with one     *)
(* abstract value per tag; here the values are the tables, so that a tag   *)
(* missing from a purge, or from a route, shows.                           *)
(*                                                                         *)
(* A row keeps the columns that decide where it is shown; `text` stands    *)
(* for the others.  A list is the set of its items, which carry their      *)
(* place; where the code orders ties by nothing, MySQL's choice is taken   *)
(* to be a function of the rows.  An answer is a set of at most one body:  *)
(* {} when the handler throws.  A handler reads all its tables at once:    *)
(* ResponseCache has the reads that overlap a write.  Left out: paging and *)
(* search (q= is never stored), previews (never stored), GET meta (no      *)
(* table), an asset's size and kind (reprocess-media.mjs changes them and  *)
(* purges nothing), who may write, and the checks that refuse a write      *)
(* beyond those of the database.                                           *)
(***************************************************************************)
EXTENDS Naturals, FiniteSets

CONSTANTS
    Ids,            \* primary keys
    Slugs,
    Texts,          \* what the columns that are only shown may hold
    Ranks,          \* sort_order, published_on (the least: none) and updated_at
    Assets,         \* ids of media_assets
    OtherPaths,     \* addresses that are not a post's
    HOME_PAGE_SLUG,
    NAV_SLUGS,
    ORG_MAX_DEPTH,
    None            \* NULL

VARIABLES
    db,         \* the content: a record of tables
    cached,     \* the answer stored for each key, if any
    inFlight,   \* answers computed by handlers that have not stored them yet
    owed,       \* purges between the commit of a write and their call, as sets of tags
    lost        \* purges that a handler which threw after its commit never calls

vars == <<db, cached, inFlight, owed, lost>>

Kinds == {"vision", "mission", "goal", "care_pillar"}
PARTNER_CATEGORIES == {"government", "university", "association", "supporter"}
ORG_TONES == {"auto", "neutral", "sky", "green", "brand"}
Asset == Assets \cup {None}
LivePath(slug) == <<"/news", slug>>
Paths == OtherPaths \cup {LivePath(s) : s \in Slugs}

-----------------------------------------------------------------------------
(* The tables                                                              *)

PageRow == [id : Ids, slug : Slugs, text : Texts, isPublished : BOOLEAN, updatedAt : Ranks]
SectionRow == [id : Ids, pageId : Ids, text : Texts, image : Asset, isPublished : BOOLEAN,
               sortOrder : Ranks]
NewsCategoryRow == [id : Ids, slug : Slugs, text : Texts, sortOrder : Ranks, updatedAt : Ranks]
PostRow == [id : Ids, slug : Slugs, text : Texts, categoryId : Ids, cover : Asset,
            publishedOn : Ranks, isFeatured : BOOLEAN, isPublished : BOOLEAN, updatedAt : Ranks]
RedirectRow == [from : Paths, to : Paths]
DocCategoryRow == [id : Ids, slug : Slugs, text : Texts, sectionGroup : {"governance", "other"},
                   isPublished : BOOLEAN, sortOrder : Ranks]
DocumentRow == [id : Ids, categoryId : Ids, text : Texts, asset : Asset, isPublished : BOOLEAN,
                sortOrder : Ranks]
BoardMemberRow == [id : Ids, text : Texts, grp : {"board", "executive"},
                   orgPositionId : Ids \cup {None}, photo : Asset, isPublished : BOOLEAN,
                   sortOrder : Ranks]
OrgPositionRow == [id : Ids, text : Texts, parentId : Ids \cup {None}, tone : ORG_TONES,
                   showHolders : BOOLEAN, isPublished : BOOLEAN, sortOrder : Ranks]
AboutItemRow == [id : Ids, kind : Kinds, text : Texts, isPublished : BOOLEAN, sortOrder : Ranks]
StatRow == [id : Ids, text : Texts, isPublished : BOOLEAN, sortOrder : Ranks]
PartnerRow == [id : Ids, text : Texts, category : PARTNER_CATEGORIES, logo : Asset,
               isPublished : BOOLEAN, sortOrder : Ranks]
WorkAreaRow == [id : Ids, text : Texts, isPublished : BOOLEAN, sortOrder : Ranks]
WorkAreaItemRow == [id : Ids, workAreaId : Ids, text : Texts, isPublished : BOOLEAN,
                    sortOrder : Ranks]
TestimonialRow == [id : Ids, text : Texts, status : {"pending", "published", "hidden"},
                   isFeatured : BOOLEAN, sortOrder : Ranks]
ThemeRow == [id : Ids, text : Texts, sortOrder : Ranks]
LicenceRow == [id : Ids, text : Texts, asset : Asset, isPrimary : BOOLEAN,
               isPublished : BOOLEAN, sortOrder : Ranks]
SettingsRow == [text : Texts, contact : Texts, licence : Texts \cup {None}]

\* asset: the alternative texts of media_assets, shown wherever the asset is.
Db == [pages : SUBSET PageRow, page_sections : SUBSET SectionRow,
       news_categories : SUBSET NewsCategoryRow, posts : SUBSET PostRow,
       redirects : SUBSET RedirectRow, doc_categories : SUBSET DocCategoryRow,
       documents : SUBSET DocumentRow, board_members : SUBSET BoardMemberRow,
       org_positions : SUBSET OrgPositionRow, about_items : SUBSET AboutItemRow,
       stats : SUBSET StatRow, partners : SUBSET PartnerRow, work_areas : SUBSET WorkAreaRow,
       work_area_items : SUBSET WorkAreaItemRow, testimonials : SUBSET TestimonialRow,
       testimonial_themes : SUBSET ThemeRow, licences : SUBSET LicenceRow,
       site_settings : SettingsRow, alt : [Assets -> Texts]]

\* A foreign key: every row names a row of the other table, or NULL.
Refers(ids, rows) == ids \subseteq {r.id : r \in rows} \cup {None}

\* The primary, unique and foreign keys: a write that breaks one is refused.
UniqueIds(rows) == \A r, s \in rows : r.id = s.id => r = s
UniqueSlugs(rows) == \A r, s \in rows : r.slug = s.slug => r = s
Consistent(d) ==
    /\ \A t \in DOMAIN d \ {"redirects", "site_settings", "alt"} : UniqueIds(d[t])
    /\ UniqueSlugs(d.pages) /\ UniqueSlugs(d.news_categories)
    /\ UniqueSlugs(d.posts) /\ UniqueSlugs(d.doc_categories)
    /\ \A r, s \in d.redirects : r.from = s.from => r = s
    /\ Refers({s.pageId : s \in d.page_sections}, d.pages)
    /\ Refers({p.categoryId : p \in d.posts}, d.news_categories)
    /\ Refers({x.categoryId : x \in d.documents}, d.doc_categories)
    /\ Refers({m.orgPositionId : m \in d.board_members}, d.org_positions)
    /\ Refers({p.parentId : p \in d.org_positions}, d.org_positions)
    /\ Refers({i.workAreaId : i \in d.work_area_items}, d.work_areas)

-----------------------------------------------------------------------------
(* Public projections: what a row looks like to a visitor                  *)

Published(rows) == {r \in rows : r.isPublished}

toPublicAsset(id, alt) == {[asset |-> a, alt |-> alt[a]] : a \in {id} \ {None}}

toPublicPageSection(s, alt) ==
    [id |-> s.id, text |-> s.text, image |-> toPublicAsset(s.image, alt), sortOrder |-> s.sortOrder]

toPublicNewsCategory(c) ==
    [id |-> c.id, slug |-> c.slug, text |-> c.text, sortOrder |-> c.sortOrder]

toPublicPostSummary(p, categories, alt) ==
    [id |-> p.id, slug |-> p.slug, text |-> p.text, publishedOn |-> p.publishedOn,
     isFeatured |-> p.isFeatured, cover |-> toPublicAsset(p.cover, alt),
     category |-> {toPublicNewsCategory(c) : c \in {x \in categories : x.id = p.categoryId}}]

\* The sort order is not in the body of a category; it stands for the place in the list.
toPublicDocCategory(c) ==
    [id |-> c.id, slug |-> c.slug, text |-> c.text, sectionGroup |-> c.sectionGroup,
     place |-> c.sortOrder]

toPublicDocument(x, alt) ==
    [id |-> x.id, text |-> x.text, asset |-> toPublicAsset(x.asset, alt), sortOrder |-> x.sortOrder]

toPublicPartner(p, alt) ==
    [id |-> p.id, text |-> p.text, category |-> p.category,
     logo |-> toPublicAsset(p.logo, alt), sortOrder |-> p.sortOrder]

toPublicBoardMember(m, alt) ==
    [id |-> m.id, text |-> m.text, grp |-> m.grp, photo |-> toPublicAsset(m.photo, alt),
     sortOrder |-> m.sortOrder]

toPublicWorkAreaItem(i) == [id |-> i.id, text |-> i.text, sortOrder |-> i.sortOrder]

toPublicWorkArea(a, items) ==
    [id |-> a.id, text |-> a.text, sortOrder |-> a.sortOrder,
     items |-> {toPublicWorkAreaItem(i) : i \in {x \in Published(items) : x.workAreaId = a.id}}]

\* Without status and source.
toPublicTestimonial(t) ==
    [id |-> t.id, text |-> t.text, isFeatured |-> t.isFeatured, sortOrder |-> t.sortOrder]

toPublicTestimonialTheme(t) == [id |-> t.id, text |-> t.text, sortOrder |-> t.sortOrder]

toPublicLicence(l, alt) ==
    [id |-> l.id, text |-> l.text, isPrimary |-> l.isPrimary,
     asset |-> toPublicAsset(l.asset, alt), place |-> l.sortOrder]

toPublicAboutItem(i) == [id |-> i.id, text |-> i.text, sortOrder |-> i.sortOrder]

toPublicStat(s) == [id |-> s.id, text |-> s.text, sortOrder |-> s.sortOrder]

-----------------------------------------------------------------------------
(* The handlers                                                            *)

SectionsOf(page, sections, alt) ==
    {toPublicPageSection(s, alt) : s \in {x \in Published(sections) : x.pageId = page.id}}

\* GET pages/:slug
Page(slug, pages, sections, alt) ==
    {[id |-> p.id, slug |-> p.slug, text |-> p.text, sections |-> SectionsOf(p, sections, alt)] :
        p \in {x \in Published(pages) : x.slug = slug}}

Summaries(posts, categories, alt) == {toPublicPostSummary(p, categories, alt) : p \in posts}

\* ORDER BY published_on DESC LIMIT n
Newest(n, posts) ==
    CHOOSE s \in SUBSET posts :
        /\ Cardinality(s) = IF Cardinality(posts) < n THEN Cardinality(posts) ELSE n
        /\ \A p \in s, q \in posts \ s : p.publishedOn >= q.publishedOn

\* GET news: 400 when the category asked for is unknown.
News(slug, posts, categories, alt) ==
    IF slug = None THEN {Summaries(Published(posts), categories, alt)}
    ELSE {Summaries({p \in Published(posts) : p.categoryId = c.id}, categories, alt) :
             c \in {x \in categories : x.slug = slug}}

\* GET news/featured
Featured(posts, categories, alt) ==
    {Summaries(Newest(1, {p \in Published(posts) : p.isFeatured}), categories, alt)}

\* GET news-categories
Categories(categories) == {{toPublicNewsCategory(c) : c \in categories}}

RELATED_LIMIT == 3
Related(post, posts) ==
    Newest(RELATED_LIMIT,
           Newest(RELATED_LIMIT + 1, {p \in Published(posts) : p.categoryId = post.categoryId})
               \ {post})

\* GET news/:slug, without a preview token.
NewsPost(slug, posts, categories, alt) ==
    {[post |-> toPublicPostSummary(p, categories, alt),
      related |-> Summaries(Related(p, posts), categories, alt)] :
        p \in {x \in Published(posts) : x.slug = slug}}

DocumentsOf(category, documents, alt) ==
    [category |-> toPublicDocCategory(category),
     documents |-> {toPublicDocument(x, alt) :
                       x \in {y \in Published(documents) : y.categoryId = category.id}}]

\* GET documents
Documents(categories, documents, alt) ==
    {{DocumentsOf(c, documents, alt) : c \in Published(categories)}}

\* GET documents/sections
DocumentSections(categories, documents) ==
    {{[category |-> toPublicDocCategory(c),
       count |-> Cardinality({x \in Published(documents) : x.categoryId = c.id})] :
          c \in {x \in Published(categories) : x.sectionGroup = "governance"}}}

\* GET documents/sections/:slug
DocumentSection(slug, categories, documents, alt) ==
    {DocumentsOf(c, documents, alt) : c \in {x \in Published(categories) : x.slug = slug}}

\* GET board
Board(members, alt) == {{toPublicBoardMember(m, alt) : m \in Published(members)}}

AUTO_TONES == <<"neutral", "sky", "green", "brand">>
resolveTone(tone, depth) ==
    IF tone # "auto" THEN tone ELSE AUTO_TONES[IF depth < 3 THEN depth + 1 ELSE 4]

\* The published positions at each depth: one under a hidden position is in none.
Reached(positions) ==
    LET at[n \in 0..ORG_MAX_DEPTH] ==
            IF n = 0 THEN {p \in positions : p.parentId = None}
            ELSE {p \in positions : \E q \in at[n - 1] : p.parentId = q.id}
    IN at

OrgBox(p, depth, members) ==
    [id |-> p.id, text |-> p.text, parent |-> p.parentId, place |-> p.sortOrder,
     tone |-> resolveTone(p.tone, depth),
     holders |-> {[id |-> m.id, name |-> m.text, place |-> m.sortOrder] :
                     m \in {x \in Published(members) : p.showHolders /\ x.orgPositionId = p.id}}]

\* GET org-chart (buildOrgForest), each box with its parent.
OrgForest(positions, members) ==
    {UNION {{OrgBox(p, n, members) : p \in Reached(Published(positions))[n]} :
               n \in 0..ORG_MAX_DEPTH \ {ORG_MAX_DEPTH}}}

AboutItemsOf(kind, items) == {toPublicAboutItem(i) : i \in {x \in Published(items) : x.kind = kind}}

\* GET about-items
AboutItems(kinds, items) == {[k \in kinds |-> AboutItemsOf(k, items)]}

WorkAreasShown(areas, items) == {toPublicWorkArea(a, items) : a \in Published(areas)}

\* GET work-areas
WorkAreas(areas, items) == {WorkAreasShown(areas, items)}

Shown(testimonials) == {t \in testimonials : t.status = "published"}

\* GET testimonials
Testimonials(testimonials, themes) ==
    {[featured |-> {toPublicTestimonial(t) : t \in {x \in Shown(testimonials) : x.isFeatured}},
      list |-> {toPublicTestimonial(t) : t \in Shown(testimonials)},
      themes |-> {toPublicTestimonialTheme(t) : t \in themes}]}

PartnersShown(category, partners, alt) ==
    {toPublicPartner(p, alt) :
        p \in {x \in Published(partners) : category = None \/ x.category = category}}

\* GET partners
Partners(category, partners, alt) == {PartnersShown(category, partners, alt)}

\* GET licences
Licences(licences, alt) == {{toPublicLicence(l, alt) : l \in Published(licences)}}

\* GET redirects/resolve
Resolve(path, redirects) == {r.to : r \in {x \in redirects : x.from = path}}

\* GET site
Site(settings, pages) ==
    {[settings |-> settings,
      nav |-> {[slug |-> p.slug, label |-> p.text] :
                  p \in {x \in Published(pages) : x.slug \in NAV_SLUGS}},
      contact |-> settings.contact]}

Entries(rows) == {[slug |-> r.slug, updatedAt |-> r.updatedAt] : r \in rows}

\* GET sitemap-index
Sitemap(pages, posts, categories) ==
    {[pages |-> Entries(Published(pages)), posts |-> Entries(Published(posts)),
      categories |-> Entries(categories)]}

NEWS_LATEST == 3
TESTIMONIALS_LATEST == 2

\* ORDER BY is_featured DESC, sort_order LIMIT n
FeaturedFirst(n, testimonials) ==
    CHOOSE s \in SUBSET testimonials :
        /\ Cardinality(s) = IF Cardinality(testimonials) < n THEN Cardinality(testimonials) ELSE n
        /\ \A t \in s, u \in testimonials \ s :
               \/ t.isFeatured /\ ~u.isFeatured
               \/ t.isFeatured = u.isFeatured /\ t.sortOrder <= u.sortOrder

\* GET home
Home(d) ==
    {[settings |-> d.site_settings,
      sections |-> {SectionsOf(p, d.page_sections, d.alt) :
                       p \in {x \in Published(d.pages) : x.slug = HOME_PAGE_SLUG}},
      goals |-> AboutItemsOf("goal", d.about_items),
      carePillars |-> AboutItemsOf("care_pillar", d.about_items),
      stats |-> {toPublicStat(s) : s \in Published(d.stats)},
      workAreas |-> WorkAreasShown(d.work_areas, d.work_area_items),
      news |-> Summaries(Newest(NEWS_LATEST, Published(d.posts)), d.news_categories, d.alt),
      testimonials |-> {toPublicTestimonial(t) :
                           t \in FeaturedFirst(TESTIMONIALS_LATEST, Shown(d.testimonials))},
      partners |-> PartnersShown(None, d.partners, d.alt)]}

\* Whether GET /files serves the asset to everybody.
IsPubliclyReadable(a, d) ==
    \/ \E s \in Published(d.page_sections), p \in Published(d.pages) :
           s.pageId = p.id /\ s.image = a
    \/ \E m \in Published(d.board_members) : m.photo = a
    \/ \E p \in Published(d.posts) : p.cover = a
    \/ \E p \in Published(d.partners) : p.logo = a
    \/ \E x \in Published(d.documents), c \in Published(d.doc_categories) :
           x.categoryId = c.id /\ x.asset = a
    \/ \E l \in Published(d.licences) : l.asset = a

-----------------------------------------------------------------------------
(* Routes, tags and keys                                                   *)

MemoTags == {"home", "pages", "board_members", "news", "partners", "documents",
             "doc_categories", "licences"}

\* @CacheTags of each route; "file" is the memo of isPubliclyReadable.
RouteTags ==
    [home |-> {"home"}, site |-> {"site_settings", "pages"}, sitemap |-> {"pages", "news"},
     page |-> {"pages"}, news |-> {"news"}, featured |-> {"news"}, categories |-> {"news"},
     post |-> {"news"}, documents |-> {"documents"}, sections |-> {"documents"},
     section |-> {"documents"}, board |-> {"board_members"}, orgChart |-> {"org_chart"},
     about |-> {"about_items"}, workAreas |-> {"work_areas"},
     testimonials |-> {"testimonials"}, partners |-> {"partners"}, licences |-> {"licences"},
     resolve |-> {"redirects"}, file |-> MemoTags]

Plain == {"home", "site", "sitemap", "featured", "categories", "documents", "sections", "board",
          "orgChart", "workAreas", "testimonials", "licences"}

\* The cache keys: the route and what @CacheKeyParams or the path adds to it.
Keys == [route : Plain, arg : {None}]
        \cup [route : {"page", "post", "section"}, arg : Slugs]
        \cup [route : {"news"}, arg : Slugs \cup {None}]
        \cup [route : {"about"}, arg : SUBSET Kinds \ {{}}]
        \cup [route : {"partners"}, arg : PARTNER_CATEGORIES \cup {None}]
        \cup [route : {"resolve"}, arg : Paths]
        \cup [route : {"file"}, arg : Assets]

TagsOf(k) == RouteTags[k.route]

\* What the handler of the key's route answers now.
Answer(k, d) ==
    CASE k.route = "home" -> Home(d)
      [] k.route = "site" -> Site(d.site_settings, d.pages)
      [] k.route = "sitemap" -> Sitemap(d.pages, d.posts, d.news_categories)
      [] k.route = "page" -> Page(k.arg, d.pages, d.page_sections, d.alt)
      [] k.route = "news" -> News(k.arg, d.posts, d.news_categories, d.alt)
      [] k.route = "featured" -> Featured(d.posts, d.news_categories, d.alt)
      [] k.route = "categories" -> Categories(d.news_categories)
      [] k.route = "post" -> NewsPost(k.arg, d.posts, d.news_categories, d.alt)
      [] k.route = "documents" -> Documents(d.doc_categories, d.documents, d.alt)
      [] k.route = "sections" -> DocumentSections(d.doc_categories, d.documents)
      [] k.route = "section" -> DocumentSection(k.arg, d.doc_categories, d.documents, d.alt)
      [] k.route = "board" -> Board(d.board_members, d.alt)
      [] k.route = "orgChart" -> OrgForest(d.org_positions, d.board_members)
      [] k.route = "about" -> AboutItems(k.arg, d.about_items)
      [] k.route = "workAreas" -> WorkAreas(d.work_areas, d.work_area_items)
      [] k.route = "testimonials" -> Testimonials(d.testimonials, d.testimonial_themes)
      [] k.route = "partners" -> Partners(k.arg, d.partners, d.alt)
      [] k.route = "licences" -> Licences(d.licences, d.alt)
      [] k.route = "resolve" -> Resolve(k.arg, d.redirects)
      [] k.route = "file" -> {IsPubliclyReadable(k.arg, d)}

\* Any content may be there when the process starts, with nothing cached.
Init ==
    /\ db \in Db
    /\ Consistent(db)
    /\ cached = [k \in Keys |-> {}]
    /\ inFlight = [k \in Keys |-> {}]
    /\ owed = {}
    /\ lost = {}

-----------------------------------------------------------------------------
(* The cache                                                               *)

\* A request misses, and its handler answers.  A request for a preview whose
\* token is wrong skips the stored answer.
Read(k) ==
    /\ cached[k] = {} \/ k.route = "post"
    /\ inFlight' = [inFlight EXCEPT ![k] = @ \cup Answer(k, db)]
    /\ UNCHANGED <<db, cached, owed, lost>>

\* The answer of a handler none of whose tags was purged since it began is stored.
Store(k) ==
    \E body \in inFlight[k] :
        /\ cached' = [cached EXCEPT ![k] = {body}]
        /\ UNCHANGED <<db, inFlight, owed, lost>>

\* A handler ends without storing, or an entry is evicted or runs out.
Drop(k) ==
    /\ \/ cached' = [cached EXCEPT ![k] = {}] /\ UNCHANGED inFlight
       \/ \E body \in inFlight[k] :
              inFlight' = [inFlight EXCEPT ![k] = @ \ {body}] /\ UNCHANGED cached
    /\ UNCHANGED <<db, owed, lost>>

\* One write's purges are called: entries and handlers in flight are voided.
Purge(tags) ==
    /\ tags \in owed
    /\ owed' = owed \ {tags}
    /\ cached' = [k \in Keys |-> IF TagsOf(k) \cap tags = {} THEN cached[k] ELSE {}]
    /\ inFlight' = [k \in Keys |-> IF TagsOf(k) \cap tags = {} THEN inFlight[k] ELSE {}]
    /\ UNCHANGED <<db, lost>>

\* The admin clears the cache, or the process restarts and forgets its purges.
Emptied ==
    /\ cached' = [k \in Keys |-> {}]
    /\ inFlight' = [k \in Keys |-> {}]
    /\ owed' \in {owed, {}}
    /\ lost' = {}
    /\ UNCHANGED db

-----------------------------------------------------------------------------
(* The writes: one transaction each, then the purges                       *)

\* The table after one row is created, updated, published or removed.
Saved(rows, Row) ==
    {{r \in rows : r.id # s.id} \cup {s} : s \in Row} \cup {rows \ {r} : r \in rows}

\* POST reorder: only places change.
Reordered(rows) == {{[r EXCEPT !.sortOrder = place[r.id]] : r \in rows} : place \in [Ids -> Ranks]}

SavedOrReordered(rows, Row) == Saved(rows, Row) \cup Reordered(rows)

\* A write commits; its handler owes these purges.
Commit(new, purges) ==
    /\ Consistent(new)
    /\ db' = new
    /\ owed' = owed \cup purges
    /\ UNCHANGED <<cached, inFlight, lost>>

\* admin/pages: the sections of a removed page go with it (ON DELETE CASCADE).
SavePages ==
    \E rows \in Saved(db.pages, PageRow) :
        Commit([db EXCEPT !.pages = rows,
                          !.page_sections = {s \in @ : \E p \in rows : p.id = s.pageId}],
               {{"pages", "home"}})

\* admin/page-sections
SaveSections ==
    \E rows \in SavedOrReordered(db.page_sections, SectionRow) :
        Commit([db EXCEPT !.page_sections = rows], {{"page_sections", "pages", "home"}})

\* admin/news-categories; a reorder moves updated_at as well.
SaveNewsCategories ==
    LET tags == {"news_categories", "news", "home"} IN
    \/ \E rows \in Saved(db.news_categories, NewsCategoryRow) :
           Commit([db EXCEPT !.news_categories = rows], {tags})
    \/ \E moved \in Reordered(db.news_categories), now \in Ranks :
           Commit([db EXCEPT !.news_categories = {[r EXCEPT !.updatedAt = now] : r \in moved}],
                  {tags})

PostTags == {"posts", "home", "news"}

\* clearRedirectsInto: no rule leads away from a live address or to itself.
ClearedInto(path, redirects) == {r \in redirects : r.from # path /\ r.from # r.to}

\* Rules that led to the old address lead to the new one, and so does the old address.
Renamed(from, to, redirects) ==
    {r \in {[r EXCEPT !.to = IF @ = from THEN to ELSE @] : r \in redirects} : r.from # from}
        \cup {[from |-> from, to |-> to]}

\* admin/news, POST: the row, then the rules that led away from its address.
CreatePost ==
    \E p \in PostRow :
        /\ \A q \in db.posts : q.id # p.id
        /\ Commit([db EXCEPT !.posts = @ \cup {p},
                             !.redirects = ClearedInto(LivePath(p.slug), @)],
                  {{"redirects"}, PostTags})

\* The same with clearRedirectsInto failing: the row stays, nothing is purged.
CreatePostHalf ==
    \E p \in PostRow :
        /\ \A q \in db.posts : q.id # p.id
        /\ Consistent([db EXCEPT !.posts = @ \cup {p}])
        /\ db' = [db EXCEPT !.posts = @ \cup {p}]
        /\ lost' = lost \cup {PostTags}
        /\ UNCHANGED <<cached, inFlight, owed>>

\* admin/news, PATCH, DELETE and DELETE legacy with the address kept.
SavePosts ==
    \E rows \in {{q \in db.posts : q.id # p.id} \cup {p} : p \in PostRow} \cup SUBSET db.posts :
        /\ \A p \in rows : \E q \in db.posts : q.id = p.id /\ q.slug = p.slug
        /\ Commit([db EXCEPT !.posts = rows], {PostTags})

\* admin/news, PATCH with another slug: saveWithRedirect, then two purges.
RenamePost ==
    \E old \in db.posts, new \in PostRow :
        /\ new.id = old.id
        /\ new.slug # old.slug
        /\ LET from == LivePath(old.slug)
               to == LivePath(new.slug)
               moved == IF old.isPublished THEN Renamed(from, to, db.redirects) ELSE db.redirects
           IN Commit([db EXCEPT !.posts = (@ \ {old}) \cup {new},
                                !.redirects = ClearedInto(to, moved)],
                     {{"redirects"}, PostTags})

\* admin/redirects; Redirects has the check that refuses chains.
SaveRedirects ==
    \/ \E r \in RedirectRow :
           Commit([db EXCEPT !.redirects = db.redirects \cup {r}], {{"redirects"}})
    \/ \E old \in db.redirects, new \in RedirectRow :
           Commit([db EXCEPT !.redirects = (db.redirects \ {old}) \cup {new}], {{"redirects"}})
    \/ \E r \in db.redirects : Commit([db EXCEPT !.redirects = db.redirects \ {r}], {{"redirects"}})

\* admin/doc-categories
SaveDocCategories ==
    \E rows \in SavedOrReordered(db.doc_categories, DocCategoryRow) :
        Commit([db EXCEPT !.doc_categories = rows], {{"doc_categories", "documents", "home"}})

\* admin/documents
SaveDocuments ==
    \E rows \in Saved(db.documents, DocumentRow) :
        Commit([db EXCEPT !.documents = rows], {{"documents", "home"}})

\* admin/board
SaveMembers ==
    \E rows \in SavedOrReordered(db.board_members, BoardMemberRow) :
        Commit([db EXCEPT !.board_members = rows], {{"board_members", "home", "org_chart"}})

\* admin/org-positions; OrgTree has the tree guard.
SavePositions ==
    \E rows \in SavedOrReordered(db.org_positions, OrgPositionRow) :
        Commit([db EXCEPT !.org_positions = rows], {{"org_positions", "org_chart"}})

\* admin/about-items
SaveAboutItems ==
    \E rows \in SavedOrReordered(db.about_items, AboutItemRow) :
        Commit([db EXCEPT !.about_items = rows], {{"about_items", "home"}})

\* admin/stats
SaveStats ==
    \E rows \in SavedOrReordered(db.stats, StatRow) :
        Commit([db EXCEPT !.stats = rows], {{"stats", "home"}})

\* admin/partners
SavePartners ==
    \E rows \in SavedOrReordered(db.partners, PartnerRow) :
        Commit([db EXCEPT !.partners = rows], {{"partners", "home"}})

\* admin/work-areas: the items of a removed area go with it (ON DELETE CASCADE).
SaveWorkAreas ==
    \E rows \in SavedOrReordered(db.work_areas, WorkAreaRow) :
        Commit([db EXCEPT !.work_areas = rows,
                          !.work_area_items = {i \in @ : \E a \in rows : a.id = i.workAreaId}],
               {{"work_areas", "home"}})

\* admin/work-area-items
SaveWorkItems ==
    \E rows \in SavedOrReordered(db.work_area_items, WorkAreaItemRow) :
        Commit([db EXCEPT !.work_area_items = rows], {{"work_area_items", "work_areas", "home"}})

\* admin/testimonials, with PATCH :id/status and :id/feature
SaveTestimonials ==
    \E rows \in SavedOrReordered(db.testimonials, TestimonialRow) :
        Commit([db EXCEPT !.testimonials = rows], {{"testimonials", "home"}})

\* POST admin/messages/:id/convert-to-testimonial
convertToTestimonial ==
    \E t \in TestimonialRow :
        /\ t.status = "pending"
        /\ ~t.isFeatured
        /\ \A u \in db.testimonials : u.id # t.id
        /\ Commit([db EXCEPT !.testimonials = @ \cup {t}], {{"testimonials", "home"}})

\* admin/testimonial-themes
SaveThemes ==
    \E rows \in SavedOrReordered(db.testimonial_themes, ThemeRow) :
        Commit([db EXCEPT !.testimonial_themes = rows],
               {{"testimonial_themes", "testimonials", "home"}})

LicenceTags == {"licences", "site_settings", "home"}

\* What syncSiteSettings copies into the settings.
Primary(licences) == {l \in Published(licences) : l.isPrimary}
Synced(settings, licences) ==
    [settings EXCEPT !.licence = IF Primary(licences) = {} THEN None
                                 ELSE (CHOOSE l \in Primary(licences) : TRUE).text]

\* admin/licences: a row that becomes primary clears the others, and the settings follow.
SaveLicences ==
    \E rows \in Saved(db.licences, LicenceRow)
                    \cup {{[m EXCEPT !.isPrimary = FALSE] : m \in {x \in db.licences : x.id # l.id}}
                             \cup {l} : l \in {x \in LicenceRow : x.isPrimary}} :
        Commit([db EXCEPT !.licences = rows, !.site_settings = Synced(@, rows)], {LicenceTags})

ReorderLicences ==
    \E rows \in Reordered(db.licences) : Commit([db EXCEPT !.licences = rows], {LicenceTags})

\* PUT admin/settings; Licences has how it may write an older licence number back.
SaveSettings ==
    \E settings \in SettingsRow :
        Commit([db EXCEPT !.site_settings = settings], {{"site_settings", "home"}})

\* PATCH admin/media/:id
setAltText ==
    \E a \in Assets, text \in Texts : Commit([db EXCEPT !.alt[a] = text], {MemoTags})

Write == \/ SavePages \/ SaveSections
         \/ SaveNewsCategories \/ CreatePost \/ SavePosts \/ RenamePost \/ SaveRedirects
         \/ SaveDocCategories \/ SaveDocuments \/ SaveMembers \/ SavePositions
         \/ SaveAboutItems \/ SaveStats \/ SavePartners \/ SaveWorkAreas \/ SaveWorkItems
         \/ SaveTestimonials \/ convertToTestimonial \/ SaveThemes
         \/ SaveLicences \/ ReorderLicences \/ SaveSettings \/ setAltText

Next ==
    \/ Write
    \/ CreatePostHalf
    \/ \E k \in Keys : Read(k) \/ Store(k) \/ Drop(k)
    \/ \E tags \in owed : Purge(tags)
    \/ Emptied

Spec == Init /\ [][Next]_vars

-----------------------------------------------------------------------------
(* Properties                                                              *)

\* The content is well typed and each key holds at most one answer.
TypeOK ==
    /\ db \in Db
    /\ DOMAIN cached = Keys
    /\ DOMAIN inFlight = Keys

\* A purge that would void the key is still to come, or was lost with a handler that threw.
Owed(k) == \E tags \in owed \cup lost : tags \cap TagsOf(k) # {}

\* A visitor is served an answer that the content no longer gives only while a
\* write that changed it has committed and not yet purged, or will never purge
\* because its handler threw: no write forgets a tag, and no route is filed
\* under too few (CrudController.purge(), extraPurgeTags, @CacheTags).
ServedIsCurrent == \A k \in Keys : cached[k] \subseteq Answer(k, db) \/ Owed(k)

\* The list or page of the route shows the asset.
Shows(k, a) ==
    \E body \in Answer(k, db) :
        \/ k.route = "page" /\ \E s \in body.sections : \E x \in s.image : x.asset = a
        \/ k.route = "board" /\ \E m \in body : \E x \in m.photo : x.asset = a
        \/ k.route = "news" /\ \E p \in body : \E x \in p.cover : x.asset = a
        \/ k.route = "partners" /\ \E p \in body : \E x \in p.logo : x.asset = a
        \/ k.route = "documents"
               /\ \E c \in body : \E y \in c.documents : \E x \in y.asset : x.asset = a
        \/ k.route = "licences" /\ \E l \in body : \E x \in l.asset : x.asset = a

\* A file is open to everybody exactly while some public page shows it: the
\* query behind isPubliclyReadable and the public handlers agree on what is
\* published, the page of a section and the category of a document included.
FilesFollowPages ==
    \A a \in Assets \ {None} : IsPubliclyReadable(a, db) <=> \E k \in Keys : Shows(k, a)

=============================================================================
