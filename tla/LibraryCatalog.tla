--------------------------- MODULE LibraryCatalog ---------------------------
(* The lists the server renders for the library and for the landing page
   (components/templates/ServerCommunityTemplates.tsx and the layout of
   CommunityTemplates.tsx).

   A request reads the catalog several times at once: a count, the newest tasks, and
   the newest tasks with a digest in the reader's language; each read may see another
   state of the catalog, or fail.  `catalog` holds the published tasks that pass the
   request's topic, source and search filters (the same in every read), in the order of
   the query; a task is reduced to whether it has a digest in the reader's language
   (takeawayLocale = locale), which is fixed when it is published, and to its show.    *)
EXTENDS Naturals, Sequences, SequencesExt

CONSTANTS
  Shows, MaxStart,                   \* shows; bound: tasks published at first
  PageSize, LastPage,                \* PAGE_SIZE 18 and MAX_PAGE 20
  PreviewLimit, PreviewCandidates,   \* at most LANDING_PREVIEW_LIMIT, and three times that
  FeaturedCount, EditorialFrom,      \* FEATURED_COUNT 6; the editorial grid starts at 5
  MaxChanges, MaxRequests            \* bounds

ASSUME CatalogAssumption ==
  /\ PageSize \in Nat \ {0} /\ LastPage \in Nat \ {0}
  /\ PreviewLimit \in Nat \ {0} /\ PreviewCandidates \in Nat
  /\ PreviewCandidates >= PreviewLimit
  /\ FeaturedCount \in Nat /\ EditorialFrom \in Nat /\ MaxStart \in Nat /\ MaxChanges \in Nat /\ MaxRequests \in Nat

VARIABLES
  catalog, changes,   \* the published tasks, newest first; how often they changed
  req, requests,      \* the request being served
  view                \* what the reader sees

catalogVars == <<catalog, changes, req, requests, view>>

Tasks == [id : 1..(MaxStart + MaxChanges), local : BOOLEAN, show : Shows]
Idle == [kind |-> "idle"]
NotRead == [kind |-> "unread"]
Failed == [kind |-> "failed"]

Distinct(list) == \A i, j \in DOMAIN list : list[i].id = list[j].id => i = j
Among(t, list) == \E i \in DOMAIN list : list[i].id = t.id
Take(list, n) == SubSeq(list, 1, IF Len(list) < n THEN Len(list) ELSE n)
IsLocal(t) == t.local

CatalogInit ==
  /\ \E n \in 0..MaxStart : \E local \in [1..n -> BOOLEAN], show \in [1..n -> Shows] :
       catalog = [i \in 1..n |-> [id |-> i, local |-> local[i], show |-> show[i]]]
  /\ changes = 0 /\ req = Idle /\ requests = 0
  /\ view = [kind |-> "nothing", list |-> << >>]

-----------------------------------------------------------------------------
(* The catalog.                                                                 *)

Publish(t, i) ==
  /\ changes < MaxChanges /\ t.id = MaxStart + changes + 1
  /\ catalog' = InsertAt(catalog, i, t)
  /\ changes' = changes + 1
  /\ UNCHANGED <<req, requests, view>>

Unpublish(i) ==
  /\ changes < MaxChanges
  /\ catalog' = RemoveAt(catalog, i)
  /\ changes' = changes + 1
  /\ UNCHANGED <<req, requests, view>>

-----------------------------------------------------------------------------
(* ServerCommunityTemplates.                                                    *)

NormalizePage(n) == IF n < 1 THEN 1 ELSE IF n > LastPage THEN LastPage ELSE n

\* The gallery asks for page * PAGE_SIZE tasks, the landing preview for its candidates.
Limit(r) == IF r.layout = "gallery" THEN r.page * PageSize ELSE PreviewCandidates

Request(layout, n) ==
  /\ req = Idle /\ requests < MaxRequests /\ requests' = requests + 1
  /\ req' = [kind |-> "serving", layout |-> layout, page |-> NormalizePage(n), at |-> changes,
             total |-> IF layout = "gallery" THEN NotRead ELSE Failed,
             newest |-> NotRead, preferred |-> NotRead]
  /\ UNCHANGED <<catalog, changes, view>>

\* One of the reads of the Promise.all, answered from the catalog as it is now.
Answer(field) ==
  CASE field = "total"     -> Len(catalog)
    [] field = "newest"    -> Take(catalog, Limit(req))
    [] field = "preferred" -> Take(SelectSeq(catalog, IsLocal), Limit(req))

Read(field) ==
  /\ req.kind = "serving" /\ req[field] = NotRead
  /\ req' = [req EXCEPT ![field] = [kind |-> "got", value |-> Answer(field)]]
     \/ req' = [req EXCEPT ![field] = Failed]
  /\ UNCHANGED <<catalog, changes, requests, view>>

RowsOf(answer) == IF answer = Failed THEN << >> ELSE answer.value

\* Mutant: tasks of both reads are listed twice.
MergeTwice(preferred, fallback, limit) == Take(preferred \o fallback, limit)

\* Mutant: the tasks in the reader's language come oldest first.
MergeOldestFirst(preferred, fallback, limit) ==
  Take(Reverse(preferred) \o SelectSeq(fallback, LAMBDA t : ~Among(t, preferred)), limit)

\* mergeLocalePreferredTasks.
MergeLocalePreferredTasks(preferred, fallback, limit) ==
  Take(preferred \o SelectSeq(fallback, LAMBDA t : ~Among(t, preferred)), limit)

\* One pass of selectPreviewTasks over the tasks that are local, or over the others: the
\* first task of every show not chosen before, then the rest.
Pass(tasks, chosen) ==
  LET fresh(i) == /\ \A j \in 1..(i - 1) : tasks[j].show /= tasks[i].show
                  /\ \A j \in DOMAIN chosen : chosen[j].show /= tasks[i].show
      pick(new) == FoldLeftDomain(
                     LAMBDA acc, i : IF fresh(i) = new THEN Append(acc, tasks[i]) ELSE acc,
                     << >>, tasks)
  IN  chosen \o pick(TRUE) \o pick(FALSE)

\* Mutant: the show decides before the language.
SelectShowsFirst(tasks) == Take(Pass(tasks, << >>), PreviewLimit)

SelectPreviewTasks(tasks) ==
  LET local == Pass(SelectSeq(tasks, IsLocal), << >>)
  IN  Take(Pass(SelectSeq(tasks, LAMBDA t : ~t.local), local), PreviewLimit)

\* PodcastFeatureGrid and the feed: what the page shows, part after part.
Layout(list) ==
  LET featured == Take(list, FeaturedCount)
      feed == SubSeq(list, FeaturedCount + 1, Len(list))
      hero == SubSeq(featured, 1, 1)
      supporting == SubSeq(featured, 2, IF Len(featured) < 3 THEN Len(featured) ELSE 3)
      tail == SubSeq(featured, 4, Len(featured))
  IN  (IF Len(featured) < EditorialFrom THEN featured ELSE hero \o supporting \o tail) \o feed

\* Mutant: more while the page is full.
HasMoreWhenFull(r, count) == r.page < LastPage /\ count >= Limit(r)

HasMore(r, count) == r.page < LastPage /\ count > Limit(r)

Render ==
  /\ req.kind = "serving" /\ \A f \in {"total", "newest", "preferred"} : req[f] /= NotRead
  /\ LET merged(n) == MergeLocalePreferredTasks(RowsOf(req.preferred), RowsOf(req.newest), n)
         list == IF req.layout = "gallery" THEN merged(Limit(req))
                 ELSE SelectPreviewTasks(merged(2 * Limit(req)))
         ready == req.newest /= Failed /\ (req.layout = "gallery" => req.total /= Failed)
     IN  view' = [kind |-> IF ready THEN req.layout ELSE "unavailable",
                  list |-> IF ~ready THEN << >>
                           ELSE IF req.layout = "gallery" THEN Layout(list) ELSE list,
                  page |-> req.page,
                  more |-> ready /\ req.layout = "gallery" /\ HasMore(req, req.total.value),
                  whole |-> req.preferred /= Failed /\ req.at = changes,
                  at |-> changes]
  /\ req' = Idle
  /\ UNCHANGED <<catalog, changes, requests>>

\* The link stands below the feed, which a page with more to come has: PAGE_SIZE is above FEATURED_COUNT
\* (CommunityTemplates.tsx:880; a page thinned out by withdrawals between its reads is let through).
LoadMoreTasks == view.kind = "gallery" /\ view.more /\ Request("gallery", view.page + 1)

CatalogNext ==
  \/ \E t \in Tasks : \E i \in 1..(Len(catalog) + 1) : Publish(t, i)
  \/ \E i \in DOMAIN catalog : Unpublish(i)
  \/ \E n \in 0..(LastPage + 1) : view.kind = "nothing" /\ Request("gallery", n)
  \/ view.kind = "nothing" /\ Request("landingPreview", 1)
  \/ LoadMoreTasks
  \/ \E f \in {"total", "newest", "preferred"} : Read(f)
  \/ Render

CatalogSpec == CatalogInit /\ [][CatalogNext]_catalogVars

-----------------------------------------------------------------------------
(* Properties.  A view is whole when no read failed and none saw a change.       *)

Quiet == view.kind \in {"gallery", "landingPreview"} /\ view.whole /\ view.at = changes

\* No task is shown twice, whatever the reads saw: cards are keyed by the task's id.
ShownOnce == Distinct(view.list)

\* A whole page is full and ordered: it lists as many tasks as exist or fit, those in the
\* reader's language first, and "load more" stands exactly when something is left.
PageIsHonest ==
  (Quiet /\ view.kind = "gallery") =>
    /\ Len(view.list) = Len(Take(catalog, view.page * PageSize))
    /\ \A i, j \in DOMAIN view.list : (i < j /\ view.list[j].local) => view.list[i].local
    /\ view.more <=> view.page < LastPage /\ \E i \in DOMAIN catalog : ~Among(catalog[i], view.list)

\* "Locale remains more important than diversity" and "repeated shows only after offering
\* other available shows" (ServerCommunityTemplates.tsx:182-183).
PreviewPrefersLocale ==
  (Quiet /\ view.kind = "landingPreview") =>
    LET local == SelectSeq(catalog, IsLocal)
        shown == SelectSeq(view.list, IsLocal)
    IN  /\ Len(shown) = Len(Take(local, PreviewLimit))
        /\ (\E i, j \in DOMAIN shown : i < j /\ shown[i].show = shown[j].show) =>
             \A k \in DOMAIN Take(local, PreviewCandidates) :
               \E i \in DOMAIN shown : shown[i].show = local[k].show

\* "Load more" adds to the list and moves nothing, while the catalog stands still.
LoadMoreExtends ==
  [][(Render /\ Quiet /\ Quiet' /\ req.layout = "gallery" /\ view.kind = "gallery") =>
       IsPrefix(view.list, view'.list)]_catalogVars

\* The pages of the library, put together from reads of a catalog that changes in between
\* (ServerCommunityTemplates.tsx:135-457).
CatalogIsHonest == []ShownOnce /\ []PageIsHonest /\ []PreviewPrefersLocale /\ LoadMoreExtends
=============================================================================
