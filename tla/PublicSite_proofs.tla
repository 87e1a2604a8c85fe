-------------------------- MODULE PublicSite_proofs --------------------------
(***************************************************************************)
(* Proofs about PublicSite, for any number of rows, slugs and assets.      *)
(***************************************************************************)
EXTENDS PublicSite, TLAPS

\* The tables the handler of a route reads.
TablesOf ==
    [home |-> {"site_settings", "pages", "page_sections", "about_items", "stats", "work_areas",
               "work_area_items", "posts", "news_categories", "testimonials", "partners", "alt"},
     site |-> {"site_settings", "pages"},
     sitemap |-> {"pages", "posts", "news_categories"},
     page |-> {"pages", "page_sections", "alt"},
     news |-> {"posts", "news_categories", "alt"},
     featured |-> {"posts", "news_categories", "alt"},
     categories |-> {"news_categories"},
     post |-> {"posts", "news_categories", "alt"},
     documents |-> {"doc_categories", "documents", "alt"},
     sections |-> {"doc_categories", "documents"},
     section |-> {"doc_categories", "documents", "alt"},
     board |-> {"board_members", "alt"},
     orgChart |-> {"org_positions", "board_members"},
     about |-> {"about_items"},
     workAreas |-> {"work_areas", "work_area_items"},
     testimonials |-> {"testimonials", "testimonial_themes"},
     partners |-> {"partners", "alt"},
     licences |-> {"licences", "alt"},
     resolve |-> {"redirects"},
     file |-> {"page_sections", "pages", "board_members", "posts", "partners", "documents",
               "doc_categories", "licences"}]

Routes == {"home", "site", "sitemap", "page", "news", "featured", "categories", "post",
           "documents", "sections", "section", "board", "orgChart", "about", "workAreas",
           "testimonials", "partners", "licences", "resolve", "file"}

LEMMA KeysHaveRoutes == \A k \in Keys : k.route \in Routes
  BY DEF Keys, Plain, Routes

\* A handler's answer depends on no other table than those of its route.
LEMMA AnswerReads ==
    ASSUME NEW k \in Keys, NEW d, NEW e, \A t \in TablesOf[k.route] : d[t] = e[t]
    PROVE  Answer(k, d) = Answer(k, e)
<1>1. CASE k.route = "home"
  BY <1>1 DEF Answer, TablesOf, Home
<1>2. CASE k.route = "file"
  <2>1. /\ d.page_sections = e.page_sections /\ d.pages = e.pages
        /\ d.board_members = e.board_members /\ d.posts = e.posts
        /\ d.partners = e.partners /\ d.documents = e.documents
        /\ d.doc_categories = e.doc_categories /\ d.licences = e.licences
    BY <1>2 DEF TablesOf
  <2>2. IsPubliclyReadable(k.arg, d) = IsPubliclyReadable(k.arg, e)
    BY <2>1, Zenon DEF IsPubliclyReadable
  <2> QED
    BY <1>2, <2>2 DEF Answer
<1>3. CASE k.route \in {"site", "sitemap", "page", "news", "featured", "categories", "post"}
  BY <1>3 DEF Answer, TablesOf
<1>4. CASE k.route \in {"documents", "sections", "section", "board", "orgChart", "about"}
  BY <1>4 DEF Answer, TablesOf
<1>5. CASE k.route \in {"workAreas", "testimonials", "partners", "licences", "resolve"}
  BY <1>5 DEF Answer, TablesOf
<1>6. QED
  BY <1>1, <1>2, <1>3, <1>4, <1>5, KeysHaveRoutes DEF Routes

-----------------------------------------------------------------------------
(* The invariant                                                           *)

\* What is stored and what is about to be stored is current, or a purge of it is owed.
AllCurrent == \A k \in Keys : cached[k] \cup inFlight[k] \subseteq Answer(k, db) \/ Owed(k)

Inv == TypeOK /\ AllCurrent

Tables == {"pages", "page_sections", "news_categories", "posts", "redirects", "doc_categories",
           "documents", "board_members", "org_positions", "about_items", "stats", "partners",
           "work_areas", "work_area_items", "testimonials", "testimonial_themes", "licences",
           "site_settings", "alt"}

\* Each route that reads one of the tables is filed under one of the tags.
Covers(tables, purges) ==
    \A r \in Routes : TablesOf[r] \cap tables # {} =>
        \E tags \in purges : tags \cap RouteTags[r] # {}

LEMMA ReadsTables == \A r \in Routes : TablesOf[r] \subseteq Tables
  BY DEF Routes, TablesOf, Tables

\* A write that owes the tags of every route that reads what it changed keeps the invariant.
LEMMA CommitKeeps ==
    ASSUME Inv, NEW new \in Db, NEW purges, Commit(new, purges),
           NEW tables, \A t \in Tables \ tables : new[t] = db[t],
           Covers(tables, purges)
    PROVE  Inv'
<1>1. TypeOK'
  BY DEF Inv, TypeOK, Commit
<1>2. ASSUME NEW k \in Keys PROVE (cached[k] \cup inFlight[k] \subseteq Answer(k, db) \/ Owed(k))'
  <2>1. CASE TablesOf[k.route] \cap tables # {}
    <3>1. PICK tags \in purges : tags \cap RouteTags[k.route] # {}
      BY <2>1, KeysHaveRoutes DEF Covers
    <3> QED
      BY <3>1 DEF Commit, Owed, TagsOf
  <2>2. CASE Owed(k)
    BY <2>2 DEF Commit, Owed, TagsOf
  <2>3. CASE TablesOf[k.route] \cap tables = {} /\ ~Owed(k)
    <3>1. Answer(k, new) = Answer(k, db)
      BY <2>3, AnswerReads, ReadsTables, KeysHaveRoutes
    <3>2. cached[k] \cup inFlight[k] \subseteq Answer(k, db)
      BY <2>3 DEF Inv, AllCurrent
    <3> QED
      BY <3>1, <3>2 DEF Commit
  <2> QED
    BY <2>1, <2>2, <2>3
<1> QED
  BY <1>1, <1>2 DEF Inv, AllCurrent

LEMMA TableKeeps ==
    ASSUME Inv, NEW t \in Tables, NEW rows, NEW purges,
           [db EXCEPT ![t] = rows] \in Db, Commit([db EXCEPT ![t] = rows], purges),
           Covers({t}, purges)
    PROVE  Inv'
<1> DEFINE new == [db EXCEPT ![t] = rows]
<1>1. new \in Db /\ Commit(new, purges)
  OBVIOUS
<1>2. \A u \in Tables \ {t} : new[u] = db[u]
  BY DEF Inv, TypeOK, Db, Tables
<1> HIDE DEF new
<1> QED
  BY <1>1, <1>2, CommitKeeps

LEMMA SavedRows ==
    ASSUME NEW Row, NEW rows \in SUBSET Row, NEW new \in Saved(rows, Row)
    PROVE  new \in SUBSET Row
  BY DEF Saved

LEMMA ReorderedRows ==
    ASSUME NEW Row, NEW rows \in SUBSET Row, NEW new \in Reordered(rows),
           \A r \in Row : r.id \in Ids,
           \A r \in Row : \A n \in Ranks : [r EXCEPT !.sortOrder = n] \in Row
    PROVE  new \in SUBSET Row
<1>1. PICK place \in [Ids -> Ranks] : new = {[r EXCEPT !.sortOrder = place[r.id]] : r \in rows}
  BY DEF Reordered
<1> QED
  BY <1>1

LEMMA SavedOrReorderedRows ==
    ASSUME NEW Row, NEW rows \in SUBSET Row, NEW new \in SavedOrReordered(rows, Row),
           \A r \in Row : r.id \in Ids,
           \A r \in Row : \A n \in Ranks : [r EXCEPT !.sortOrder = n] \in Row
    PROVE  new \in SUBSET Row
  BY SavedRows, ReorderedRows DEF SavedOrReordered

-----------------------------------------------------------------------------
(* The writes of one table                                                 *)

LEMMA SaveSectionsStep == Inv /\ SaveSections => Inv'
<1> SUFFICES ASSUME Inv, NEW rows \in SavedOrReordered(db.page_sections, SectionRow),
                    Commit([db EXCEPT !.page_sections = rows], {{"page_sections", "pages", "home"}})
             PROVE  Inv'
  BY DEF SaveSections
<1>1. db.page_sections \in SUBSET SectionRow
  BY DEF Inv, TypeOK, Db
<1>2. /\ \A r \in SectionRow : r.id \in Ids
      /\ \A r \in SectionRow : \A n \in Ranks : [r EXCEPT !.sortOrder = n] \in SectionRow
  BY DEF SectionRow
<1>3. [db EXCEPT !.page_sections = rows] \in Db
  BY <1>1, <1>2, SavedOrReorderedRows DEF Inv, TypeOK, Db
<1>4. Covers({"page_sections"}, {{"page_sections", "pages", "home"}})
  BY DEF Covers, Routes, TablesOf, RouteTags, MemoTags
<1> QED
  BY <1>3, <1>4, TableKeeps DEF Tables

LEMMA SaveDocCategoriesStep == Inv /\ SaveDocCategories => Inv'
<1> SUFFICES ASSUME Inv, NEW rows \in SavedOrReordered(db.doc_categories, DocCategoryRow),
                    Commit([db EXCEPT !.doc_categories = rows],
                           {{"doc_categories", "documents", "home"}})
             PROVE  Inv'
  BY DEF SaveDocCategories
<1>1. db.doc_categories \in SUBSET DocCategoryRow
  BY DEF Inv, TypeOK, Db
<1>2. /\ \A r \in DocCategoryRow : r.id \in Ids
      /\ \A r \in DocCategoryRow : \A n \in Ranks : [r EXCEPT !.sortOrder = n] \in DocCategoryRow
  BY DEF DocCategoryRow
<1>3. [db EXCEPT !.doc_categories = rows] \in Db
  BY <1>1, <1>2, SavedOrReorderedRows DEF Inv, TypeOK, Db
<1>4. Covers({"doc_categories"}, {{"doc_categories", "documents", "home"}})
  BY DEF Covers, Routes, TablesOf, RouteTags, MemoTags
<1> QED
  BY <1>3, <1>4, TableKeeps DEF Tables

LEMMA SaveDocumentsStep == Inv /\ SaveDocuments => Inv'
<1> SUFFICES ASSUME Inv, NEW rows \in Saved(db.documents, DocumentRow),
                    Commit([db EXCEPT !.documents = rows], {{"documents", "home"}})
             PROVE  Inv'
  BY DEF SaveDocuments
<1>1. db.documents \in SUBSET DocumentRow
  BY DEF Inv, TypeOK, Db
<1>3. [db EXCEPT !.documents = rows] \in Db
  BY <1>1, SavedRows DEF Inv, TypeOK, Db
<1>4. Covers({"documents"}, {{"documents", "home"}})
  BY DEF Covers, Routes, TablesOf, RouteTags, MemoTags
<1> QED
  BY <1>3, <1>4, TableKeeps DEF Tables

LEMMA SaveMembersStep == Inv /\ SaveMembers => Inv'
<1> SUFFICES ASSUME Inv, NEW rows \in SavedOrReordered(db.board_members, BoardMemberRow),
                    Commit([db EXCEPT !.board_members = rows],
                           {{"board_members", "home", "org_chart"}})
             PROVE  Inv'
  BY DEF SaveMembers
<1>1. db.board_members \in SUBSET BoardMemberRow
  BY DEF Inv, TypeOK, Db
<1>2. /\ \A r \in BoardMemberRow : r.id \in Ids
      /\ \A r \in BoardMemberRow : \A n \in Ranks : [r EXCEPT !.sortOrder = n] \in BoardMemberRow
  BY DEF BoardMemberRow
<1>3. [db EXCEPT !.board_members = rows] \in Db
  BY <1>1, <1>2, SavedOrReorderedRows DEF Inv, TypeOK, Db
<1>4. Covers({"board_members"}, {{"board_members", "home", "org_chart"}})
  BY DEF Covers, Routes, TablesOf, RouteTags, MemoTags
<1> QED
  BY <1>3, <1>4, TableKeeps DEF Tables

LEMMA SavePositionsStep == Inv /\ SavePositions => Inv'
<1> SUFFICES ASSUME Inv, NEW rows \in SavedOrReordered(db.org_positions, OrgPositionRow),
                    Commit([db EXCEPT !.org_positions = rows], {{"org_positions", "org_chart"}})
             PROVE  Inv'
  BY DEF SavePositions
<1>1. db.org_positions \in SUBSET OrgPositionRow
  BY DEF Inv, TypeOK, Db
<1>2. /\ \A r \in OrgPositionRow : r.id \in Ids
      /\ \A r \in OrgPositionRow : \A n \in Ranks : [r EXCEPT !.sortOrder = n] \in OrgPositionRow
  BY DEF OrgPositionRow
<1>3. [db EXCEPT !.org_positions = rows] \in Db
  BY <1>1, <1>2, SavedOrReorderedRows DEF Inv, TypeOK, Db
<1>4. Covers({"org_positions"}, {{"org_positions", "org_chart"}})
  BY DEF Covers, Routes, TablesOf, RouteTags, MemoTags
<1> QED
  BY <1>3, <1>4, TableKeeps DEF Tables

LEMMA SaveAboutItemsStep == Inv /\ SaveAboutItems => Inv'
<1> SUFFICES ASSUME Inv, NEW rows \in SavedOrReordered(db.about_items, AboutItemRow),
                    Commit([db EXCEPT !.about_items = rows], {{"about_items", "home"}})
             PROVE  Inv'
  BY DEF SaveAboutItems
<1>1. db.about_items \in SUBSET AboutItemRow
  BY DEF Inv, TypeOK, Db
<1>2. /\ \A r \in AboutItemRow : r.id \in Ids
      /\ \A r \in AboutItemRow : \A n \in Ranks : [r EXCEPT !.sortOrder = n] \in AboutItemRow
  BY DEF AboutItemRow
<1>3. [db EXCEPT !.about_items = rows] \in Db
  BY <1>1, <1>2, SavedOrReorderedRows DEF Inv, TypeOK, Db
<1>4. Covers({"about_items"}, {{"about_items", "home"}})
  BY DEF Covers, Routes, TablesOf, RouteTags, MemoTags
<1> QED
  BY <1>3, <1>4, TableKeeps DEF Tables

LEMMA SaveStatsStep == Inv /\ SaveStats => Inv'
<1> SUFFICES ASSUME Inv, NEW rows \in SavedOrReordered(db.stats, StatRow),
                    Commit([db EXCEPT !.stats = rows], {{"stats", "home"}})
             PROVE  Inv'
  BY DEF SaveStats
<1>1. db.stats \in SUBSET StatRow
  BY DEF Inv, TypeOK, Db
<1>2. /\ \A r \in StatRow : r.id \in Ids
      /\ \A r \in StatRow : \A n \in Ranks : [r EXCEPT !.sortOrder = n] \in StatRow
  BY DEF StatRow
<1>3. [db EXCEPT !.stats = rows] \in Db
  BY <1>1, <1>2, SavedOrReorderedRows DEF Inv, TypeOK, Db
<1>4. Covers({"stats"}, {{"stats", "home"}})
  BY DEF Covers, Routes, TablesOf, RouteTags, MemoTags
<1> QED
  BY <1>3, <1>4, TableKeeps DEF Tables

LEMMA SavePartnersStep == Inv /\ SavePartners => Inv'
<1> SUFFICES ASSUME Inv, NEW rows \in SavedOrReordered(db.partners, PartnerRow),
                    Commit([db EXCEPT !.partners = rows], {{"partners", "home"}})
             PROVE  Inv'
  BY DEF SavePartners
<1>1. db.partners \in SUBSET PartnerRow
  BY DEF Inv, TypeOK, Db
<1>2. /\ \A r \in PartnerRow : r.id \in Ids
      /\ \A r \in PartnerRow : \A n \in Ranks : [r EXCEPT !.sortOrder = n] \in PartnerRow
  BY DEF PartnerRow
<1>3. [db EXCEPT !.partners = rows] \in Db
  BY <1>1, <1>2, SavedOrReorderedRows DEF Inv, TypeOK, Db
<1>4. Covers({"partners"}, {{"partners", "home"}})
  BY DEF Covers, Routes, TablesOf, RouteTags, MemoTags
<1> QED
  BY <1>3, <1>4, TableKeeps DEF Tables

LEMMA SaveWorkItemsStep == Inv /\ SaveWorkItems => Inv'
<1> SUFFICES ASSUME Inv, NEW rows \in SavedOrReordered(db.work_area_items, WorkAreaItemRow),
                    Commit([db EXCEPT !.work_area_items = rows],
                           {{"work_area_items", "work_areas", "home"}})
             PROVE  Inv'
  BY DEF SaveWorkItems
<1>1. db.work_area_items \in SUBSET WorkAreaItemRow
  BY DEF Inv, TypeOK, Db
<1>2. /\ \A r \in WorkAreaItemRow : r.id \in Ids
      /\ \A r \in WorkAreaItemRow : \A n \in Ranks : [r EXCEPT !.sortOrder = n] \in WorkAreaItemRow
  BY DEF WorkAreaItemRow
<1>3. [db EXCEPT !.work_area_items = rows] \in Db
  BY <1>1, <1>2, SavedOrReorderedRows DEF Inv, TypeOK, Db
<1>4. Covers({"work_area_items"}, {{"work_area_items", "work_areas", "home"}})
  BY DEF Covers, Routes, TablesOf, RouteTags, MemoTags
<1> QED
  BY <1>3, <1>4, TableKeeps DEF Tables

LEMMA SaveTestimonialsStep == Inv /\ SaveTestimonials => Inv'
<1> SUFFICES ASSUME Inv, NEW rows \in SavedOrReordered(db.testimonials, TestimonialRow),
                    Commit([db EXCEPT !.testimonials = rows], {{"testimonials", "home"}})
             PROVE  Inv'
  BY DEF SaveTestimonials
<1>1. db.testimonials \in SUBSET TestimonialRow
  BY DEF Inv, TypeOK, Db
<1>2. /\ \A r \in TestimonialRow : r.id \in Ids
      /\ \A r \in TestimonialRow : \A n \in Ranks : [r EXCEPT !.sortOrder = n] \in TestimonialRow
  BY DEF TestimonialRow
<1>3. [db EXCEPT !.testimonials = rows] \in Db
  BY <1>1, <1>2, SavedOrReorderedRows DEF Inv, TypeOK, Db
<1>4. Covers({"testimonials"}, {{"testimonials", "home"}})
  BY DEF Covers, Routes, TablesOf, RouteTags, MemoTags
<1> QED
  BY <1>3, <1>4, TableKeeps DEF Tables

LEMMA SaveThemesStep == Inv /\ SaveThemes => Inv'
<1> SUFFICES ASSUME Inv, NEW rows \in SavedOrReordered(db.testimonial_themes, ThemeRow),
                    Commit([db EXCEPT !.testimonial_themes = rows],
                           {{"testimonial_themes", "testimonials", "home"}})
             PROVE  Inv'
  BY DEF SaveThemes
<1>1. db.testimonial_themes \in SUBSET ThemeRow
  BY DEF Inv, TypeOK, Db
<1>2. /\ \A r \in ThemeRow : r.id \in Ids
      /\ \A r \in ThemeRow : \A n \in Ranks : [r EXCEPT !.sortOrder = n] \in ThemeRow
  BY DEF ThemeRow
<1>3. [db EXCEPT !.testimonial_themes = rows] \in Db
  BY <1>1, <1>2, SavedOrReorderedRows DEF Inv, TypeOK, Db
<1>4. Covers({"testimonial_themes"}, {{"testimonial_themes", "testimonials", "home"}})
  BY DEF Covers, Routes, TablesOf, RouteTags, MemoTags
<1> QED
  BY <1>3, <1>4, TableKeeps DEF Tables

-----------------------------------------------------------------------------
(* The other writes                                                        *)

LEMMA SavePagesStep == Inv /\ SavePages => Inv'
<1> SUFFICES ASSUME Inv, NEW rows \in Saved(db.pages, PageRow),
                    Commit([db EXCEPT !.pages = rows,
                                      !.page_sections =
                                          {s \in @ : \E p \in rows : p.id = s.pageId}],
                           {{"pages", "home"}})
             PROVE  Inv'
  BY DEF SavePages
<1> DEFINE new == [db EXCEPT !.pages = rows,
                             !.page_sections = {s \in @ : \E p \in rows : p.id = s.pageId}]
<1>1. rows \in SUBSET PageRow
  BY SavedRows DEF Inv, TypeOK, Db
<1>2. new \in Db
  BY <1>1 DEF Inv, TypeOK, Db
<1>3. \A t \in Tables \ {"pages", "page_sections"} : new[t] = db[t]
  BY DEF Inv, TypeOK, Db, Tables
<1>4. Covers({"pages", "page_sections"}, {{"pages", "home"}})
  BY DEF Covers, Routes, TablesOf, RouteTags, MemoTags
<1> QED
  BY <1>2, <1>3, <1>4, CommitKeeps

LEMMA SaveWorkAreasStep == Inv /\ SaveWorkAreas => Inv'
<1> SUFFICES ASSUME Inv, NEW rows \in SavedOrReordered(db.work_areas, WorkAreaRow),
                    Commit([db EXCEPT !.work_areas = rows,
                                      !.work_area_items =
                                          {i \in @ : \E a \in rows : a.id = i.workAreaId}],
                           {{"work_areas", "home"}})
             PROVE  Inv'
  BY DEF SaveWorkAreas
<1> DEFINE new == [db EXCEPT !.work_areas = rows,
                             !.work_area_items = {i \in @ : \E a \in rows : a.id = i.workAreaId}]
<1>1. rows \in SUBSET WorkAreaRow
  <2>1. db.work_areas \in SUBSET WorkAreaRow
    BY DEF Inv, TypeOK, Db
  <2>2. /\ \A r \in WorkAreaRow : r.id \in Ids
        /\ \A r \in WorkAreaRow : \A n \in Ranks : [r EXCEPT !.sortOrder = n] \in WorkAreaRow
    BY DEF WorkAreaRow
  <2> QED
    BY <2>1, <2>2, SavedOrReorderedRows
<1>2. new \in Db
  BY <1>1 DEF Inv, TypeOK, Db
<1>3. \A t \in Tables \ {"work_areas", "work_area_items"} : new[t] = db[t]
  BY DEF Inv, TypeOK, Db, Tables
<1>4. Covers({"work_areas", "work_area_items"}, {{"work_areas", "home"}})
  BY DEF Covers, Routes, TablesOf, RouteTags, MemoTags
<1> QED
  BY <1>2, <1>3, <1>4, CommitKeeps

LEMMA SaveNewsCategoriesStep == Inv /\ SaveNewsCategories => Inv'
<1> DEFINE tags == {"news_categories", "news", "home"}
<1>1. ASSUME Inv, NEW rows \in SUBSET NewsCategoryRow,
             Commit([db EXCEPT !.news_categories = rows], {tags})
      PROVE  Inv'
  <2>1. [db EXCEPT !.news_categories = rows] \in Db
    BY <1>1 DEF Inv, TypeOK, Db
  <2>2. Covers({"news_categories"}, {tags})
    BY DEF Covers, Routes, TablesOf, RouteTags, MemoTags
  <2> QED
    BY <1>1, <2>1, <2>2, TableKeeps DEF Tables
<1>2. Inv => db.news_categories \in SUBSET NewsCategoryRow
  BY DEF Inv, TypeOK, Db
<1>3. ASSUME Inv, NEW rows \in Saved(db.news_categories, NewsCategoryRow),
             Commit([db EXCEPT !.news_categories = rows], {tags})
      PROVE  Inv'
  <2>1. rows \in SUBSET NewsCategoryRow
    BY <1>2, <1>3, SavedRows
  <2> QED
    BY <1>1, <1>3, <2>1
<1>4. ASSUME Inv, NEW moved \in Reordered(db.news_categories), NEW now \in Ranks,
             Commit([db EXCEPT !.news_categories = {[r EXCEPT !.updatedAt = now] : r \in moved}],
                    {tags})
      PROVE  Inv'
  <2>1. /\ \A r \in NewsCategoryRow : r.id \in Ids
        /\ \A r \in NewsCategoryRow : \A n \in Ranks :
              /\ [r EXCEPT !.sortOrder = n] \in NewsCategoryRow
              /\ [r EXCEPT !.updatedAt = n] \in NewsCategoryRow
    BY DEF NewsCategoryRow
  <2>2. moved \in SUBSET NewsCategoryRow
    BY <1>2, <1>4, <2>1, ReorderedRows
  <2>3. {[r EXCEPT !.updatedAt = now] : r \in moved} \in SUBSET NewsCategoryRow
    BY <2>1, <2>2
  <2> QED
    BY <1>1, <1>4, <2>3
<1> QED
  BY <1>3, <1>4 DEF SaveNewsCategories

\* The writes of posts and of the rules that follow their addresses.
LEMMA PostsKeep ==
    ASSUME Inv, NEW posts \in SUBSET PostRow, NEW redirects \in SUBSET RedirectRow,
           Commit([db EXCEPT !.posts = posts, !.redirects = redirects], {{"redirects"}, PostTags})
    PROVE  Inv'
<1> DEFINE new == [db EXCEPT !.posts = posts, !.redirects = redirects]
<1>1. new \in Db
  BY DEF Inv, TypeOK, Db
<1>2. \A t \in Tables \ {"posts", "redirects"} : new[t] = db[t]
  BY DEF Inv, TypeOK, Db, Tables
<1>3. Covers({"posts", "redirects"}, {{"redirects"}, PostTags})
  BY DEF Covers, Routes, TablesOf, RouteTags, MemoTags, PostTags
<1> QED
  BY <1>1, <1>2, <1>3, CommitKeeps

LEMMA PostTagsCover == Covers({"posts"}, {PostTags})
  BY DEF Covers, Routes, TablesOf, RouteTags, MemoTags, PostTags

LEMMA CreatePostStep == Inv /\ CreatePost => Inv'
<1> SUFFICES ASSUME Inv, NEW p \in PostRow,
                    Commit([db EXCEPT !.posts = @ \cup {p},
                                      !.redirects = ClearedInto(LivePath(p.slug), @)],
                           {{"redirects"}, PostTags})
             PROVE  Inv'
  BY DEF CreatePost
<1>1. /\ db.posts \cup {p} \in SUBSET PostRow
      /\ ClearedInto(LivePath(p.slug), db.redirects) \in SUBSET RedirectRow
  BY DEF Inv, TypeOK, Db, ClearedInto
<1>2. [db EXCEPT !.posts = @ \cup {p}, !.redirects = ClearedInto(LivePath(p.slug), @)]
        = [db EXCEPT !.posts = db.posts \cup {p},
                     !.redirects = ClearedInto(LivePath(p.slug), db.redirects)]
  BY DEF Inv, TypeOK, Db
<1> QED
  BY <1>1, <1>2, PostsKeep

LEMMA SavePostsStep == Inv /\ SavePosts => Inv'
<1> SUFFICES ASSUME Inv,
                    NEW rows \in {{q \in db.posts : q.id # p.id} \cup {p} : p \in PostRow}
                                    \cup SUBSET db.posts,
                    Commit([db EXCEPT !.posts = rows], {PostTags})
             PROVE  Inv'
  BY DEF SavePosts
<1>1. [db EXCEPT !.posts = rows] \in Db
  <2>1. rows \in SUBSET PostRow
    BY DEF Inv, TypeOK, Db
  <2> QED
    BY <2>1 DEF Inv, TypeOK, Db
<1> QED
  BY <1>1, PostTagsCover, TableKeeps DEF Tables

LEMMA RenamePostStep == Inv /\ RenamePost => Inv'
<1> SUFFICES ASSUME Inv, RenamePost PROVE Inv'
  OBVIOUS
<1> DEFINE Moved(old, new) == IF old.isPublished
                              THEN Renamed(LivePath(old.slug), LivePath(new.slug), db.redirects)
                              ELSE db.redirects
           Rules(old, new) == ClearedInto(LivePath(new.slug), Moved(old, new))
<1>1. PICK old \in db.posts, new \in PostRow :
          Commit([db EXCEPT !.posts = (@ \ {old}) \cup {new}, !.redirects = Rules(old, new)],
                 {{"redirects"}, PostTags})
  BY DEF RenamePost
<1>2. db.posts \in SUBSET PostRow /\ db.redirects \in SUBSET RedirectRow
  BY DEF Inv, TypeOK, Db
<1>3. LivePath(old.slug) \in Paths /\ LivePath(new.slug) \in Paths
  BY <1>2 DEF PostRow, Paths
<1>4. Rules(old, new) \in SUBSET RedirectRow
  <2>1. ASSUME NEW from \in Paths, NEW to \in Paths
        PROVE  Renamed(from, to, db.redirects) \in SUBSET RedirectRow
    BY <1>2 DEF Renamed, RedirectRow
  <2>2. Moved(old, new) \in SUBSET RedirectRow
    BY <1>2, <1>3, <2>1
  <2> HIDE DEF Moved
  <2> QED
    BY <2>2 DEF ClearedInto
<1> HIDE DEF Rules
<1>5. (db.posts \ {old}) \cup {new} \in SUBSET PostRow
  BY <1>2
<1>6. [db EXCEPT !.posts = (@ \ {old}) \cup {new}, !.redirects = Rules(old, new)]
        = [db EXCEPT !.posts = (db.posts \ {old}) \cup {new}, !.redirects = Rules(old, new)]
  BY DEF Inv, TypeOK, Db
<1> QED
  BY <1>1, <1>4, <1>5, <1>6, PostsKeep

\* The half-done creation: its purge is lost, which Owed() knows.
LEMMA CreatePostHalfStep == Inv /\ CreatePostHalf => Inv'
<1> SUFFICES ASSUME Inv, NEW p \in PostRow,
                    db' = [db EXCEPT !.posts = @ \cup {p}],
                    lost' = lost \cup {PostTags},
                    UNCHANGED <<cached, inFlight, owed>>
             PROVE  Inv'
  BY DEF CreatePostHalf
<1>1. TypeOK'
  BY DEF Inv, TypeOK, Db
<1>2. \A t \in Tables \ {"posts"} : db'[t] = db[t]
  BY DEF Inv, TypeOK, Db, Tables
<1>3. ASSUME NEW k \in Keys PROVE (cached[k] \cup inFlight[k] \subseteq Answer(k, db) \/ Owed(k))'
  <2>1. CASE TablesOf[k.route] \cap {"posts"} # {}
    BY <2>1, PostTagsCover, KeysHaveRoutes DEF Covers, Owed, TagsOf
  <2>2. CASE Owed(k)
    BY <2>2 DEF Owed, TagsOf
  <2>3. CASE TablesOf[k.route] \cap {"posts"} = {} /\ ~Owed(k)
    <3>1. Answer(k, db') = Answer(k, db)
      BY <1>2, <2>3, AnswerReads, ReadsTables, KeysHaveRoutes
    <3> QED
      BY <2>3, <3>1 DEF Inv, AllCurrent
  <2> QED
    BY <2>1, <2>2, <2>3
<1> QED
  BY <1>1, <1>3 DEF Inv, AllCurrent

LEMMA SaveRedirectsStep == Inv /\ SaveRedirects => Inv'
<1> SUFFICES ASSUME Inv, SaveRedirects PROVE Inv'
  OBVIOUS
<1>1. db.redirects \in SUBSET RedirectRow
  BY DEF Inv, TypeOK, Db
<1>2. PICK rows \in SUBSET RedirectRow : Commit([db EXCEPT !.redirects = rows], {{"redirects"}})
  BY <1>1 DEF SaveRedirects
<1>3. [db EXCEPT !.redirects = rows] \in Db
  BY DEF Inv, TypeOK, Db
<1>4. Covers({"redirects"}, {{"redirects"}})
  BY DEF Covers, Routes, TablesOf, RouteTags, MemoTags
<1> QED
  BY <1>2, <1>3, <1>4, TableKeeps DEF Tables

LEMMA convertToTestimonialStep == Inv /\ convertToTestimonial => Inv'
<1> SUFFICES ASSUME Inv, NEW t \in TestimonialRow,
                    Commit([db EXCEPT !.testimonials = @ \cup {t}], {{"testimonials", "home"}})
             PROVE  Inv'
  BY DEF convertToTestimonial
<1> DEFINE rows == db.testimonials \cup {t}
<1>1. [db EXCEPT !.testimonials = @ \cup {t}] = [db EXCEPT !.testimonials = rows]
  BY DEF Inv, TypeOK, Db
<1>2. [db EXCEPT !.testimonials = rows] \in Db
  BY DEF Inv, TypeOK, Db
<1>3. Covers({"testimonials"}, {{"testimonials", "home"}})
  BY DEF Covers, Routes, TablesOf, RouteTags, MemoTags
<1> HIDE DEF rows
<1> QED
  BY <1>1, <1>2, <1>3, TableKeeps DEF Tables

LEMMA LicencesKeep ==
    ASSUME Inv, NEW licences \in SUBSET LicenceRow, NEW settings \in SettingsRow,
           Commit([db EXCEPT !.licences = licences, !.site_settings = settings], {LicenceTags})
    PROVE  Inv'
<1> DEFINE new == [db EXCEPT !.licences = licences, !.site_settings = settings]
<1>1. new \in Db
  BY DEF Inv, TypeOK, Db
<1>2. \A t \in Tables \ {"licences", "site_settings"} : new[t] = db[t]
  BY DEF Inv, TypeOK, Db, Tables
<1>3. Covers({"licences", "site_settings"}, {LicenceTags})
  BY DEF Covers, Routes, TablesOf, RouteTags, MemoTags, LicenceTags
<1> QED
  BY <1>1, <1>2, <1>3, CommitKeeps

LEMMA SyncedType ==
    ASSUME NEW settings \in SettingsRow, NEW licences \in SUBSET LicenceRow
    PROVE  Synced(settings, licences) \in SettingsRow
<1>1. Primary(licences) # {} => (CHOOSE l \in Primary(licences) : TRUE) \in LicenceRow
  BY DEF Primary, Published
<1> QED
  BY <1>1 DEF Synced, SettingsRow, LicenceRow

LEMMA SaveLicencesStep == Inv /\ SaveLicences => Inv'
<1> SUFFICES ASSUME Inv,
                    NEW rows \in Saved(db.licences, LicenceRow)
                                    \cup {{[m EXCEPT !.isPrimary = FALSE] :
                                              m \in {x \in db.licences : x.id # l.id}} \cup {l} :
                                             l \in {x \in LicenceRow : x.isPrimary}},
                    Commit([db EXCEPT !.licences = rows, !.site_settings = Synced(@, rows)],
                           {LicenceTags})
             PROVE  Inv'
  BY DEF SaveLicences
<1>1. db.licences \in SUBSET LicenceRow /\ db.site_settings \in SettingsRow
  BY DEF Inv, TypeOK, Db
<1>2. rows \in SUBSET LicenceRow
  <2>1. CASE rows \in Saved(db.licences, LicenceRow)
    BY <1>1, <2>1, SavedRows
  <2>2. ASSUME NEW l \in LicenceRow,
               rows = {[m EXCEPT !.isPrimary = FALSE] : m \in {x \in db.licences : x.id # l.id}}
                         \cup {l}
        PROVE  rows \in SUBSET LicenceRow
    <3>1. \A m \in LicenceRow : [m EXCEPT !.isPrimary = FALSE] \in LicenceRow
      BY DEF LicenceRow
    <3> QED
      BY <1>1, <2>2, <3>1
  <2> QED
    BY <2>1, <2>2
<1>3. Synced(db.site_settings, rows) \in SettingsRow
  BY <1>1, <1>2, SyncedType
<1>4. [db EXCEPT !.licences = rows, !.site_settings = Synced(@, rows)]
        = [db EXCEPT !.licences = rows, !.site_settings = Synced(db.site_settings, rows)]
  BY DEF Inv, TypeOK, Db
<1> QED
  BY <1>2, <1>3, <1>4, LicencesKeep

LEMMA ReorderLicencesStep == Inv /\ ReorderLicences => Inv'
<1> SUFFICES ASSUME Inv, NEW rows \in Reordered(db.licences),
                    Commit([db EXCEPT !.licences = rows], {LicenceTags})
             PROVE  Inv'
  BY DEF ReorderLicences
<1>1. rows \in SUBSET LicenceRow
  <2>1. db.licences \in SUBSET LicenceRow
    BY DEF Inv, TypeOK, Db
  <2>2. /\ \A r \in LicenceRow : r.id \in Ids
        /\ \A r \in LicenceRow : \A n \in Ranks : [r EXCEPT !.sortOrder = n] \in LicenceRow
    BY DEF LicenceRow
  <2> QED
    BY <2>1, <2>2, ReorderedRows
<1>2. [db EXCEPT !.licences = rows] \in Db
  BY <1>1 DEF Inv, TypeOK, Db
<1>3. Covers({"licences"}, {LicenceTags})
  BY DEF Covers, Routes, TablesOf, RouteTags, MemoTags, LicenceTags
<1> QED
  BY <1>2, <1>3, TableKeeps DEF Tables

LEMMA SaveSettingsStep == Inv /\ SaveSettings => Inv'
<1> SUFFICES ASSUME Inv, NEW settings \in SettingsRow,
                    Commit([db EXCEPT !.site_settings = settings], {{"site_settings", "home"}})
             PROVE  Inv'
  BY DEF SaveSettings
<1>1. [db EXCEPT !.site_settings = settings] \in Db
  BY DEF Inv, TypeOK, Db
<1>2. Covers({"site_settings"}, {{"site_settings", "home"}})
  BY DEF Covers, Routes, TablesOf, RouteTags, MemoTags
<1> QED
  BY <1>1, <1>2, TableKeeps DEF Tables

LEMMA setAltTextStep == Inv /\ setAltText => Inv'
<1> SUFFICES ASSUME Inv, NEW a \in Assets, NEW text \in Texts,
                    Commit([db EXCEPT !.alt[a] = text], {MemoTags})
             PROVE  Inv'
  BY DEF setAltText
<1> DEFINE alt == [db.alt EXCEPT ![a] = text]
<1>1. [db EXCEPT !.alt[a] = text] = [db EXCEPT !.alt = alt]
  BY DEF Inv, TypeOK, Db
<1>2. [db EXCEPT !.alt = alt] \in Db
  BY DEF Inv, TypeOK, Db
<1>3. Covers({"alt"}, {MemoTags})
  BY DEF Covers, Routes, TablesOf, RouteTags, MemoTags
<1> HIDE DEF alt
<1> QED
  BY <1>1, <1>2, <1>3, TableKeeps DEF Tables

LEMMA WriteStep == Inv /\ Write => Inv'
  BY SavePagesStep, SaveSectionsStep, SaveNewsCategoriesStep, CreatePostStep, SavePostsStep,
     RenamePostStep, SaveRedirectsStep, SaveDocCategoriesStep, SaveDocumentsStep, SaveMembersStep,
     SavePositionsStep, SaveAboutItemsStep, SaveStatsStep, SavePartnersStep, SaveWorkAreasStep,
     SaveWorkItemsStep, SaveTestimonialsStep, convertToTestimonialStep, SaveThemesStep,
     SaveLicencesStep, ReorderLicencesStep, SaveSettingsStep, setAltTextStep
     DEF Write

-----------------------------------------------------------------------------
(* The cache                                                               *)

LEMMA ReadStep == ASSUME Inv, NEW k \in Keys, Read(k) PROVE Inv'
<1>1. TypeOK'
  BY DEF Inv, TypeOK, Read
<1>2. ASSUME NEW i \in Keys PROVE (cached[i] \cup inFlight[i] \subseteq Answer(i, db) \/ Owed(i))'
  <2>1. cached' = cached /\ db' = db /\ (Owed(i)' <=> Owed(i))
    BY DEF Read, Owed, TagsOf
  <2>2. inFlight'[i] \subseteq inFlight[i] \cup Answer(i, db)
    BY DEF Inv, TypeOK, Read
  <2>3. Answer(i, db)' = Answer(i, db)
    BY <2>1
  <2> QED
    BY <2>1, <2>2, <2>3 DEF Inv, AllCurrent
<1> QED
  BY <1>1, <1>2 DEF Inv, AllCurrent

\* Storing and dropping leave no answer that was not held before.
LEMMA StoreDropStep == ASSUME Inv, NEW k \in Keys, Store(k) \/ Drop(k) PROVE Inv'
<1>1. TypeOK'
  BY DEF Inv, TypeOK, Store, Drop
<1>2. ASSUME NEW i \in Keys PROVE (cached[i] \cup inFlight[i] \subseteq Answer(i, db) \/ Owed(i))'
  <2>1. db' = db /\ (Owed(i)' <=> Owed(i))
    BY DEF Store, Drop, Owed, TagsOf
  <2>2. cached'[i] \cup inFlight'[i] \subseteq cached[i] \cup inFlight[i]
    BY DEF Inv, TypeOK, Store, Drop
  <2>3. Answer(i, db)' = Answer(i, db)
    BY <2>1
  <2> QED
    BY <2>1, <2>2, <2>3 DEF Inv, AllCurrent
<1> QED
  BY <1>1, <1>2 DEF Inv, AllCurrent

\* A key that the purge leaves alone was not waiting for it.
LEMMA PurgeStep == ASSUME Inv, NEW tags \in owed, Purge(tags) PROVE Inv'
<1>1. TypeOK'
  BY DEF Inv, TypeOK, Purge
<1>2. ASSUME NEW i \in Keys PROVE (cached[i] \cup inFlight[i] \subseteq Answer(i, db) \/ Owed(i))'
  <2>1. db' = db
    BY DEF Purge
  <2>2. Answer(i, db)' = Answer(i, db)
    BY <2>1
  <2>3. CASE TagsOf(i) \cap tags # {}
    BY <2>3 DEF Purge
  <2>4. CASE TagsOf(i) \cap tags = {}
    <3>1. cached'[i] = cached[i] /\ inFlight'[i] = inFlight[i]
      BY <2>4 DEF Purge
    <3>2. Owed(i) => Owed(i)'
      BY <2>4 DEF Purge, Owed, TagsOf
    <3> QED
      BY <2>2, <3>1, <3>2 DEF Inv, AllCurrent
  <2> QED
    BY <2>3, <2>4
<1> QED
  BY <1>1, <1>2 DEF Inv, AllCurrent

LEMMA EmptiedStep == Inv /\ Emptied => Inv'
  BY DEF Inv, TypeOK, AllCurrent, Emptied

LEMMA InitInv == Init => Inv
  BY DEF Init, Inv, TypeOK, AllCurrent

LEMMA NextInv == Inv /\ [Next]_vars => Inv'
<1>1. Inv /\ UNCHANGED vars => Inv'
  <2> SUFFICES ASSUME Inv, UNCHANGED vars PROVE Inv'
    OBVIOUS
  <2>1. TypeOK'
    BY DEF Inv, TypeOK, vars
  <2>2. ASSUME NEW i \in Keys
        PROVE  (cached[i] \cup inFlight[i] \subseteq Answer(i, db) \/ Owed(i))'
    <3>1. Answer(i, db)' = Answer(i, db)
      BY DEF vars
    <3>2. Owed(i)' <=> Owed(i)
      BY DEF vars, Owed, TagsOf
    <3> QED
      BY <3>1, <3>2 DEF Inv, AllCurrent, vars
  <2> QED
    BY <2>1, <2>2 DEF Inv, AllCurrent
<1> QED
  BY <1>1, WriteStep, CreatePostHalfStep, ReadStep, StoreDropStep, PurgeStep, EmptiedStep DEF Next

-----------------------------------------------------------------------------
(* The theorems                                                            *)

LEMMA Invariance == Spec => []Inv
  BY InitInv, NextInv, PTL DEF Spec

\* Every table keeps its type (the entities of src/database/entities).
THEOREM TypeCorrect == Spec => []TypeOK
<1>1. Inv => TypeOK
  BY DEF Inv
<1> QED
  BY Invariance, <1>1, PTL

\* No admin write forgets a tag of a response its change shows in, whatever the
\* content: what is served is out of date only until the write's own purge, or
\* after a handler that threw before it (CrudController.purge(), @CacheTags).
THEOREM ServesCurrent == Spec => []ServedIsCurrent
<1>1. Inv => ServedIsCurrent
  BY DEF Inv, AllCurrent, ServedIsCurrent
<1> QED
  BY Invariance, <1>1, PTL

-----------------------------------------------------------------------------
(* Files and the pages that show them                                      *)

LEMMA PublicAsset ==
    ASSUME NEW a, a # None, NEW id, NEW alt
    PROVE  (\E x \in toPublicAsset(id, alt) : x.asset = a) <=> id = a
<1>1. ASSUME id = a PROVE \E x \in toPublicAsset(id, alt) : x.asset = a
  <2>1. [asset |-> a, alt |-> alt[a]] \in toPublicAsset(id, alt)
    BY <1>1 DEF toPublicAsset
  <2> QED
    BY <2>1
<1>2. ASSUME NEW x \in toPublicAsset(id, alt), x.asset = a PROVE id = a
  BY <1>2 DEF toPublicAsset
<1> QED
  BY <1>1, <1>2

\* An asset is open because of a row of one of the six tables; its route lists that row.
LEMMA ReadableIsShown ==
    ASSUME TypeOK, NEW a, a # None, IsPubliclyReadable(a, db)
    PROVE  \E k \in Keys : Shows(k, a)
<1>1. ASSUME NEW s \in Published(db.page_sections), NEW p \in Published(db.pages),
             s.pageId = p.id, s.image = a
      PROVE  \E k \in Keys : Shows(k, a)
  <2> DEFINE k == [route |-> "page", arg |-> p.slug]
             body == [id |-> p.id, slug |-> p.slug, text |-> p.text,
                      sections |-> SectionsOf(p, db.page_sections, db.alt)]
  <2>1. p.slug \in Slugs
    BY DEF TypeOK, Db, PageRow, Published
  <2>2. k \in Keys
    BY <2>1 DEF Keys
  <2>3. body \in Answer(k, db)
    BY DEF Answer, Page
  <2>4. body.sections = SectionsOf(p, db.page_sections, db.alt)
    OBVIOUS
  <2>5. toPublicPageSection(s, db.alt) \in SectionsOf(p, db.page_sections, db.alt)
    BY <1>1 DEF SectionsOf
  <2>6. \E x \in toPublicPageSection(s, db.alt).image : x.asset = a
    BY <1>1, PublicAsset DEF toPublicPageSection
  <2>7. k.route = "page"
    OBVIOUS
  <2> HIDE DEF body, k
  <2>8. \E t \in body.sections : \E x \in t.image : x.asset = a
    BY <2>4, <2>5, <2>6
  <2>9. Shows(k, a)
    BY <2>3, <2>7, <2>8 DEF Shows
  <2> QED
    BY <2>2, <2>9
<1>2. ASSUME NEW m \in Published(db.board_members), m.photo = a
      PROVE  \E k \in Keys : Shows(k, a)
  <2> DEFINE k == [route |-> "board", arg |-> None]
             body == {toPublicBoardMember(x, db.alt) : x \in Published(db.board_members)}
  <2>1. k \in Keys
    BY DEF Keys, Plain
  <2>2. body \in Answer(k, db)
    BY DEF Answer, Board
  <2>3. toPublicBoardMember(m, db.alt) \in body
    OBVIOUS
  <2>4. \E x \in toPublicBoardMember(m, db.alt).photo : x.asset = a
    BY <1>2, PublicAsset DEF toPublicBoardMember
  <2>5. Shows(k, a)
    BY <2>2, <2>3, <2>4 DEF Shows
  <2> QED
    BY <2>1, <2>5
<1>3. ASSUME NEW p \in Published(db.posts), p.cover = a
      PROVE  \E k \in Keys : Shows(k, a)
  <2> DEFINE k == [route |-> "news", arg |-> None]
             body == Summaries(Published(db.posts), db.news_categories, db.alt)
  <2>1. k \in Keys
    BY DEF Keys
  <2>2. body \in Answer(k, db)
    BY DEF Answer, News
  <2>3. toPublicPostSummary(p, db.news_categories, db.alt) \in body
    BY DEF Summaries
  <2>4. \E x \in toPublicPostSummary(p, db.news_categories, db.alt).cover : x.asset = a
    BY <1>3, PublicAsset DEF toPublicPostSummary
  <2>5. Shows(k, a)
    BY <2>2, <2>3, <2>4 DEF Shows
  <2> QED
    BY <2>1, <2>5
<1>4. ASSUME NEW p \in Published(db.partners), p.logo = a
      PROVE  \E k \in Keys : Shows(k, a)
  <2> DEFINE k == [route |-> "partners", arg |-> None]
             body == PartnersShown(None, db.partners, db.alt)
  <2>1. k \in Keys
    BY DEF Keys
  <2>2. body \in Answer(k, db)
    BY DEF Answer, Partners
  <2>3. toPublicPartner(p, db.alt) \in body
    BY DEF PartnersShown
  <2>4. \E x \in toPublicPartner(p, db.alt).logo : x.asset = a
    BY <1>4, PublicAsset DEF toPublicPartner
  <2>5. Shows(k, a)
    BY <2>2, <2>3, <2>4 DEF Shows
  <2> QED
    BY <2>1, <2>5
<1>5. ASSUME NEW y \in Published(db.documents), NEW c \in Published(db.doc_categories),
             y.categoryId = c.id, y.asset = a
      PROVE  \E k \in Keys : Shows(k, a)
  <2> DEFINE k == [route |-> "documents", arg |-> None]
             body == {DocumentsOf(x, db.documents, db.alt) : x \in Published(db.doc_categories)}
  <2>1. k \in Keys
    BY DEF Keys, Plain
  <2>2. body \in Answer(k, db)
    BY DEF Answer, Documents
  <2>3. DocumentsOf(c, db.documents, db.alt) \in body
    OBVIOUS
  <2>4. toPublicDocument(y, db.alt) \in DocumentsOf(c, db.documents, db.alt).documents
    BY <1>5 DEF DocumentsOf
  <2>5. \E x \in toPublicDocument(y, db.alt).asset : x.asset = a
    BY <1>5, PublicAsset DEF toPublicDocument
  <2>6. Shows(k, a)
    BY <2>2, <2>3, <2>4, <2>5 DEF Shows
  <2> QED
    BY <2>1, <2>6
<1>6. ASSUME NEW l \in Published(db.licences), l.asset = a
      PROVE  \E k \in Keys : Shows(k, a)
  <2> DEFINE k == [route |-> "licences", arg |-> None]
             body == {toPublicLicence(x, db.alt) : x \in Published(db.licences)}
  <2>1. k \in Keys
    BY DEF Keys, Plain
  <2>2. body \in Answer(k, db)
    BY DEF Answer, Licences
  <2>3. toPublicLicence(l, db.alt) \in body
    OBVIOUS
  <2>4. \E x \in toPublicLicence(l, db.alt).asset : x.asset = a
    BY <1>6, PublicAsset DEF toPublicLicence
  <2>5. Shows(k, a)
    BY <2>2, <2>3, <2>4 DEF Shows
  <2> QED
    BY <2>1, <2>5
<1> QED
  BY <1>1, <1>2, <1>3, <1>4, <1>5, <1>6 DEF IsPubliclyReadable

\* What a route shows comes from a published row whose page or category is published.
LEMMA ShownIsReadable ==
    ASSUME NEW a, a # None, NEW k \in Keys, Shows(k, a)
    PROVE  IsPubliclyReadable(a, db)
<1>1. CASE k.route = "page"
  <2>1. PICK body \in Answer(k, db) : \E s \in body.sections : \E x \in s.image : x.asset = a
    BY <1>1 DEF Shows
  <2>2. PICK p \in Published(db.pages) : body.sections = SectionsOf(p, db.page_sections, db.alt)
    BY <1>1, <2>1 DEF Answer, Page
  <2>3. PICK s \in Published(db.page_sections) :
            s.pageId = p.id /\ \E x \in toPublicPageSection(s, db.alt).image : x.asset = a
    BY <2>1, <2>2 DEF SectionsOf
  <2>4. s.image = a
    BY <2>3, PublicAsset DEF toPublicPageSection
  <2> QED
    BY <2>3, <2>4 DEF IsPubliclyReadable
<1>2. CASE k.route = "board"
  <2>1. PICK m \in Published(db.board_members) :
            \E x \in toPublicBoardMember(m, db.alt).photo : x.asset = a
    BY <1>2 DEF Shows, Answer, Board
  <2>2. m.photo = a
    BY <2>1, PublicAsset DEF toPublicBoardMember
  <2> QED
    BY <2>1, <2>2 DEF IsPubliclyReadable
<1>3. CASE k.route = "news"
  <2>1. PICK body \in Answer(k, db) : \E p \in body : \E x \in p.cover : x.asset = a
    BY <1>3 DEF Shows
  <2>2. PICK posts \in SUBSET Published(db.posts) :
            body = Summaries(posts, db.news_categories, db.alt)
    BY <1>3, <2>1 DEF Answer, News
  <2>3. PICK p \in posts :
            \E x \in toPublicPostSummary(p, db.news_categories, db.alt).cover : x.asset = a
    BY <2>1, <2>2 DEF Summaries
  <2>4. p.cover = a
    BY <2>3, PublicAsset DEF toPublicPostSummary
  <2> QED
    BY <2>2, <2>3, <2>4 DEF IsPubliclyReadable
<1>4. CASE k.route = "partners"
  <2>1. PICK p \in Published(db.partners) : \E x \in toPublicPartner(p, db.alt).logo : x.asset = a
    BY <1>4 DEF Shows, Answer, Partners, PartnersShown
  <2>2. p.logo = a
    BY <2>1, PublicAsset DEF toPublicPartner
  <2> QED
    BY <2>1, <2>2 DEF IsPubliclyReadable
<1>5. CASE k.route = "documents"
  <2>1. PICK body \in Answer(k, db) :
            \E c \in body : \E y \in c.documents : \E x \in y.asset : x.asset = a
    BY <1>5 DEF Shows
  <2>2. PICK c \in Published(db.doc_categories) :
            \E y \in DocumentsOf(c, db.documents, db.alt).documents : \E x \in y.asset : x.asset = a
    BY <1>5, <2>1 DEF Answer, Documents
  <2>3. PICK y \in Published(db.documents) :
            y.categoryId = c.id /\ \E x \in toPublicDocument(y, db.alt).asset : x.asset = a
    BY <2>2 DEF DocumentsOf
  <2>4. y.asset = a
    BY <2>3, PublicAsset DEF toPublicDocument
  <2> QED
    BY <2>3, <2>4 DEF IsPubliclyReadable
<1>6. CASE k.route = "licences"
  <2>1. PICK l \in Published(db.licences) : \E x \in toPublicLicence(l, db.alt).asset : x.asset = a
    BY <1>6 DEF Shows, Answer, Licences
  <2>2. l.asset = a
    BY <2>1, PublicAsset DEF toPublicLicence
  <2> QED
    BY <2>1, <2>2 DEF IsPubliclyReadable
<1> QED
  BY <1>1, <1>2, <1>3, <1>4, <1>5, <1>6 DEF Shows

\* The gate of /files and the public handlers agree on what is published, so a file
\* never outlives the last page that shows it, nor is missing from one.
THEOREM FilesAreThoseOfPages == Spec => []FilesFollowPages
<1>1. TypeOK => FilesFollowPages
  BY ReadableIsShown, ShownIsReadable DEF FilesFollowPages
<1> QED
  BY TypeCorrect, <1>1, PTL

=============================================================================
