---------------------------- MODULE PublicDigest ----------------------------
(* One task's way to the public library and to its digest page.

   The database keeps the publication state: every write of a summary output makes its
   triggers recompute the task's public projection and decide publication again
   (20260825210000_add_library_quality_and_backfill.sql, 20260904163323_bilingual_
   catalog_summaries.sql).  The web pages decide a second time, from what they read:
   lib/summary-contract.ts picks the output to show, the library card and the sitemap
   pick the language to link to, public-task-seo.ts what search engines index.  A page
   reads the task row and the outputs with two requests, and readers follow links
   rendered from earlier reads.                                                        *)
EXTENDS Naturals, FiniteSets

CONSTANTS MaxWrites,   \* bound: writes of the catalog
          MaxVisits    \* bound: pages a reader opens

ASSUME DigestAssumption == MaxWrites \in Nat /\ MaxVisits \in Nat

VARIABLES
  task,     \* the tasks row: status, publication, its auto-publish flag and projection
  outs,     \* its summary outputs by their locale column; "unset" is the NULL locale
  writes, visits,
  page,     \* the page a reader is loading or has loaded
  cached    \* the web server's cached answer whether the task is a public example of the chat

digestVars == <<task, outs, writes, visits, page, cached>>

Locales == {"en", "zh"}                      \* SUPPORTED_LOCALES, in PUBLIC_LOCALE_PRIORITY
Slots == Locales \cup {"unset"}
NoLocale == "none"

(* Contents: the language tag the summariser wrote, and how good the text is: broken does
   not parse as a v4 summary, thin parses but fails the catalog's gate, full passes it.  *)
Tags == {"en", "zh", "ja", "english", "unknown"}
Blank == [tag |-> "unknown", grade |-> "broken"]
Contents ==
  {Blank} \cup [tag : Locales, grade : {"thin"}] \cup [tag : Tags, grade : {"full"}]
First(ls) == IF "en" \in ls THEN "en" ELSE IF "zh" \in ls THEN "zh" ELSE NoLocale

-----------------------------------------------------------------------------
(* The database.                                                                *)

\* is_valid_catalog_summary: the tag's base language, which no alias is. Tags are well formed: the
\* summariser writes a normalised one (summary_engine.py:173).
SqlValid(o, l) ==
  o.status = "completed" /\ o.content.grade = "full" /\ o.content.tag = l

\* compute_public_task_projection looks at one output, Chinese first.
Chosen(os) ==
  LET done == {s \in Slots : os[s].status = "completed"}
  IN  IF "zh" \in done THEN {"zh"} ELSE done

\* `ready`; title, thumbnail and transcript are there.
Ready(os, s) == os[s].content.grade = "full"

\* sync_task_publication, first trigger.  {} where it raises and the write is undone.
SyncPublication(t, ready) ==
  IF ~t.demo THEN {"private"}
  ELSE CASE t.status = "completed" /\ t.publication \in {"processing", "pending_review"} ->
              {IF t.auto /\ ready THEN "published" ELSE "pending_review"}
         [] t.publication = "published" /\ t.status /= "completed" -> {"processing"}
         [] t.publication = "published" /\ t.status = "completed" /\ ~ready -> {}
         [] OTHER -> {t.publication}

\* enforce_catalog_bilingual_publication, second trigger.
EnforceBilingual(t, os) ==
  IF /\ t.required /\ t.status = "completed" /\ t.publication /= "hidden"
     /\ \E l \in Locales : ~SqlValid(os[l], l)
    THEN "pending_review" ELSE t.publication

\* Mutant: a projection that exists is left as it is.
SyncLocalizedOnce(t, os) ==
  IF t.available /= {} THEN t.available
  ELSE {l \in {"en", "zh", "ja"} : t.demo /\ \E s \in Slots : SqlValid(os[s], l)}

\* sync_localized_public_summaries, last trigger: available_languages.
SyncLocalized(t, os) ==
  {l \in {"en", "zh", "ja"} : t.demo /\ \E s \in Slots : SqlValid(os[s], l)}

\* The rows a write of t with the outputs os may leave; none if a trigger raises.  Two
\* outputs completed in one transaction are equally recent.  (A task that is no demo keeps its
\* output's language here, where the projection has none: that makes no difference, for the page
\* shows only the languages the sync lets out, and it lets out none of such a task.)
Written(t, os) ==
  LET synced(ready, tag) ==
        {[t EXCEPT !.publication = p, !.language = tag, !.available = SyncLocalized(t, os)] :
           p \in SyncPublication(t, ready)}
      rows == IF Chosen(os) = {} THEN synced(FALSE, "unknown")
              ELSE UNION {synced(Ready(os, s), os[s].content.tag) : s \in Chosen(os)}
  IN  {[r EXCEPT !.publication = EnforceBilingual(r, os)] : r \in rows}

NewRow(demo, required, auto) ==
  [demo |-> demo, required |-> required, auto |-> auto, status |-> "processing",
   publication |-> IF demo THEN "processing" ELSE "private",
   language |-> "unknown", available |-> {}]

Pending == [status |-> "pending", content |-> Blank]
Absent == [status |-> "absent", content |-> Blank]

\* refresh_task_publication_from_output: an output write touches its task.
WriteOutput(s, o) ==
  /\ writes < MaxWrites /\ writes' = writes + 1
  /\ outs' = [outs EXCEPT ![s] = o]
  /\ task' \in Written(task, outs')
  /\ UNCHANGED <<visits, page, cached>>

WriteTask(t) ==
  /\ writes < MaxWrites /\ writes' = writes + 1
  /\ task' \in Written(t, outs)
  /\ UNCHANGED <<outs, visits, page, cached>>

\* The worker ends a pending output; a retry (submit_output_retry, or the backfill, which
\* demotes the task first) puts any output back to pending and leaves its content.
OutputCompletes(s, c) ==
  outs[s].status = "pending" /\ WriteOutput(s, [status |-> "completed", content |-> c])

OutputFails(s) == outs[s].status = "pending" /\ WriteOutput(s, [outs[s] EXCEPT !.status = "error"])

SubmitOutputRetry(s) ==
  /\ outs[s].status \in {"completed", "error"}
  /\ WriteOutput(s, [outs[s] EXCEPT !.status = "pending"])

\* A task is followed from its processing to its completion: one that fails is not followed, and none
\* goes back, so that the sync never meets a published task that is not completed.
TaskCompletes ==
  /\ task.status = "processing" /\ \E s \in Slots : outs[s].status = "completed"
  /\ WriteTask([task EXCEPT !.status = "completed"])

\* submit_catalog_video_task for the video of this task: the task is kept, with the new wish for
\* its publication, which is granted at once to a completed one that is not hidden.
SubmitAgain(auto) ==
  /\ task.demo /\ (task.status = "completed" => \E s \in Slots : outs[s].status = "completed")
  /\ WriteTask([task EXCEPT !.auto = auto,
                   !.publication = IF task.status = "completed" /\ auto /\ @ /= "hidden" THEN "published" ELSE @])

\* The operators' hiding.
Hide == task.demo /\ task.publication /= "hidden" /\ WriteTask([task EXCEPT !.publication = "hidden"])

-----------------------------------------------------------------------------
(* What the pages make of what they read.                                       *)

\* normalizeSummaryLanguageTag and resolveSummaryLocale.
KnownTag(tag) == tag /= "unknown"
ResolveSummaryLocale(tag) ==
  CASE tag \in {"en", "english"} -> "en" [] tag = "zh" -> "zh" [] OTHER -> NoLocale

\* parseCurrentSummary of a completed summary.
ParsesAsCurrent(o) == o.status = "completed" /\ o.content.grade /= "broken"

\* resolvePublicOutputLocale: content first, then the column, then the projection.
ResolvePublicOutputLocale(o, s, language) ==
  CASE KnownTag(o.content.tag) -> ResolveSummaryLocale(o.content.tag)
    [] ~KnownTag(o.content.tag) /\ s /= "unset" -> s
    [] OTHER -> ResolveSummaryLocale(language)

\* filterPublishedLocales, the projected list being there on every row.
FilterPublishedLocales(ls, row) == ls \cap {ResolveSummaryLocale(l) : l \in row.available}

\* matchPublicSummaryOutput: the outputs a page may show, and its languages.
ValidOutputs(os) ==
  {s \in Slots : ParsesAsCurrent(os[s]) /\ ResolveSummaryLocale(os[s].content.tag) /= NoLocale}

AvailableLocales(row, os) ==
  FilterPublishedLocales(
    {ResolvePublicOutputLocale(os[s], s, row.language) : s \in ValidOutputs(os)}, row)

MatchPublicSummary(row, os, l) ==
  IF l \notin AvailableLocales(row, os) THEN {}
  ELSE {s \in ValidOutputs(os) : ResolvePublicOutputLocale(os[s], s, row.language) = l}

RouteMatches(row, os, l) == MatchPublicSummary(row, os, l) /= {}

\* listPublicSummaryLocales, for the sitemap: columns, not contents.
ListPublicSummaryLocales(row, os) ==
  LET done == {s \in Slots : os[s].status = "completed"}
  IN  FilterPublishedLocales(
        (done \cap Locales)
          \cup (IF "unset" \in done THEN {ResolveSummaryLocale(row.language)} \ {NoLocale} ELSE {}),
        row)

\* toTask's takeawayLocale and taskDigestLocale of the library cards.
TakeawayLocale(row, l) ==
  LET ls == {ResolveSummaryLocale(a) : a \in row.available} \ {NoLocale}
  IN  IF l \in ls THEN l ELSE First(ls)

\* Mutant: the card keeps the language of the page it is on.
DigestLocaleOfRoute(row, l) == l

TaskDigestLocale(row, l) ==
  IF TakeawayLocale(row, l) = NoLocale THEN l ELSE TakeawayLocale(row, l)

IsPublishedPublicTask(row, matches) ==
  row.demo /\ row.status = "completed" /\ row.publication = "published" /\ matches

\* generateMetadata and buildPublicTaskMetadata: robots and canonical.
Indexed(row, os, l) == IsPublishedPublicTask(row, RouteMatches(row, os, l))

\* Mutant: every page names itself.
CanonicalSelf(row, os, l) == l

CanonicalLocale(row, os, l) ==
  IF RouteMatches(row, os, l) \/ AvailableLocales(row, os) = {} THEN l
  ELSE First(AvailableLocales(row, os))

\* The description of the page: its summary, or else a sentence about the video, about the
\* other language, or about no public task.
Description(row, os, l) ==
  IF Indexed(row, os, l)
    THEN IF \E s \in MatchPublicSummary(row, os, l) : ResolveSummaryLocale(os[s].content.tag) /= l
           THEN "video" ELSE "summary"
    ELSE IF IsPublishedPublicTask(row, TRUE) /\ AvailableLocales(row, os) /= {} THEN "other language" ELSE "none"

\* resolveSummaryLanguageTag; of the tags only "english" is an alias.
SummaryLanguageTag(tag, l) == IF tag = "english" THEN "en" ELSE IF KnownTag(tag) THEN tag ELSE l

\* buildPublicTaskJsonLd, on the page with digest s: the language it says the article is in.
JsonLd(row, os, l, s) ==
  IF IsPublishedPublicTask(row, s /= NoLocale) THEN SummaryLanguageTag(os[s].content.tag, l) ELSE NoLocale

\* getChatExample: whether the chat may open the task for anybody, and for the video of the
\* landing page the outputs that make it one in the language l.
LandingOutputs(os, l) ==
  {s \in Slots : ParsesAsCurrent(os[s]) /\ ResolvePublicOutputLocale(os[s], s, "unknown") = l}

IsChatExample(row, os) ==
  IsPublishedPublicTask(row, \E s \in Slots : os[s].status = "completed")

-----------------------------------------------------------------------------
(* Readers.                                                                     *)

NoPage == [kind |-> "nothing"]
Unread == [kind |-> "unread"]
NoAnswer == "none"

\* Mutant: the policy asks for a catalog task only.
ReadableCatalog(owner) == owner \/ task.demo

\* Row-level security: the owner, or anyone for a published catalog task.
Readable(owner) == owner \/ (task.demo /\ task.publication = "published")

\* A reader opens the page of locale l; its link was rendered from the catalog's state
\* after the write `since` and promised a digest, or did not.
Open(l, owner, promised, since) ==
  /\ visits < MaxVisits /\ visits' = visits + 1
  /\ page' = [kind |-> "loading", locale |-> l, owner |-> owner, promised |-> promised,
              since |-> since, row |-> Unread, outs |-> Unread]
  /\ UNCHANGED <<task, outs, writes, cached>>

\* A library card rendered now.
FollowCard(l) ==
  /\ Readable(FALSE) /\ task.status = "completed"
  /\ Open(TaskDigestLocale(task, l), FALSE, TakeawayLocale(task, l) /= NoLocale, writes)

\* A page of the sitemap built now.
FollowSitemap(l) ==
  /\ Readable(FALSE) /\ task.status = "completed"
  /\ l \in ListPublicSummaryLocales(task, outs)
  /\ Open(l, FALSE, TRUE, writes)

\* The owner opens the task's page by its address.
OpenOwnTask(l) == task.status = "completed" /\ Open(l, TRUE, FALSE, writes)

\* getTaskAndOutputs: two requests of one Promise.all.
ReadRow ==
  /\ page.kind = "loading" /\ page.row = Unread
  /\ page' = [page EXCEPT !.row = IF Readable(page.owner) THEN task ELSE NoPage]
  /\ UNCHANGED <<task, outs, writes, visits, cached>>

ReadOutputs ==
  /\ page.kind = "loading" /\ page.outs = Unread
  /\ page' = [page EXCEPT !.outs =
                IF Readable(page.owner) THEN outs ELSE [s \in Slots |-> Absent]]
  /\ UNCHANGED <<task, outs, writes, visits, cached>>

\* TaskDetailPage: the digest, a link to the other language, a notice, or not found.
RenderPage ==
  /\ page.kind = "loading" /\ page.row /= Unread /\ page.outs /= Unread
  /\ page' \in
       IF page.row = NoPage THEN {NoPage}
       ELSE LET found == MatchPublicSummary(page.row, page.outs, page.locale)
                seen(s) == [kind |-> "page", locale |-> page.locale, owner |-> page.owner,
                            promised |-> page.promised, since |-> page.since,
                            fresh |-> page.since = writes,
                            row |-> page.row, digest |-> s,
                            structured |-> JsonLd(page.row, page.outs, page.locale, s),
                            other |-> IF s = NoLocale
                                        THEN First(AvailableLocales(page.row, page.outs))
                                        ELSE NoLocale,
                            content |-> IF s = NoLocale THEN Blank ELSE page.outs[s].content]
            IN  IF found = {} THEN {seen(NoLocale)} ELSE {seen(s) : s \in found}
  /\ UNCHANGED <<task, outs, writes, visits, cached>>

SwitchLanguage ==
  /\ page.kind = "page" /\ page.other /= NoLocale
  /\ Open(page.other, page.owner, page.fresh, page.since)

\* ChatPage of ?task=, the video of the landing page: read at every visit, which may fail; if it is
\* no example in the language of the page, the reader gets no further.
OpenLanding(l, thread, ok) ==
  /\ visits < MaxVisits /\ visits' = visits + 1
  /\ LET found == IF ok /\ ~thread /\ IsChatExample(task, outs) THEN LandingOutputs(outs, l) ELSE {}
     IN  page' \in IF thread THEN {[kind |-> "chat"]}
                   ELSE IF found = {} THEN {[kind |-> "unavailable"]}
                   ELSE {[kind |-> "example", locale |-> l, row |-> task, content |-> outs[s].content] : s \in found}
  /\ UNCHANGED <<task, outs, writes, cached>>

\* Any other task: the answer is kept, and read anew once it is five minutes old.
OpenInChat ==
  /\ visits < MaxVisits /\ visits' = visits + 1
  /\ LET now == IF IsChatExample(task, outs) THEN "example" ELSE "chat"
     IN  /\ page' = [kind |-> IF cached = NoAnswer THEN now ELSE cached, locale |-> NoLocale]
         /\ cached' \in {now} \cup ({cached} \ {NoAnswer})
  /\ UNCHANGED <<task, outs, writes>>

DigestInit ==
  /\ \E demo, auto \in BOOLEAN : \E required \in IF demo THEN BOOLEAN ELSE {FALSE} :
       /\ task = NewRow(demo, required, auto /\ demo)
       /\ outs = [s \in Slots |-> IF required = (s /= "unset") THEN Pending ELSE Absent]
  /\ writes = 0 /\ visits = 0 /\ page = NoPage /\ cached = NoAnswer

DigestNext ==
  \/ \E s \in Slots :
       \/ \E c \in Contents : OutputCompletes(s, c)
       \/ OutputFails(s) \/ SubmitOutputRetry(s)
  \/ TaskCompletes \/ Hide \/ \E auto \in BOOLEAN : SubmitAgain(auto)
  \/ \E l \in Locales : FollowCard(l) \/ FollowSitemap(l) \/ OpenOwnTask(l)
  \/ ReadRow \/ ReadOutputs \/ RenderPage \/ SwitchLanguage
  \/ OpenInChat \/ \E l \in Locales, thread, ok \in BOOLEAN : OpenLanding(l, thread, ok)

DigestSpec == DigestInit /\ [][DigestNext]_digestVars

-----------------------------------------------------------------------------
(* Properties.                                                                  *)

\* A published catalog task that must be bilingual has a digest on both pages and opens in the
\* chat of both: the database's gate is never weaker than the page's parser and language matching.
PublishedInBothLanguages ==
  (task.publication = "published" /\ task.required) =>
    \A l \in Locales :
      /\ RouteMatches(task, outs, l)
      /\ IsChatExample(task, outs) /\ LandingOutputs(outs, l) /= {}

\* What a reader without an account sees of a bilingual task passed the catalog's gate in
\* the page's language, although the row and the outputs are read at different moments.
ShownPassedTheGate ==
  (page.kind = "page" /\ page.digest /= NoLocale /\ ~page.owner /\ page.row.required) =>
    page.content = [tag |-> page.locale, grade |-> "full"]

\* "Private task IDs never enter the unauthenticated chat surface" (chat-examples.ts:79-80), and the
\* example of the landing page, unlike the others read at once, is one of the catalog's digests in
\* the language of its page.
ExamplesArePublic ==
  page.kind = "example" =>
    /\ task.demo
    /\ page.locale /= NoLocale => page.row.publication = "published"
         /\ (page.row.required => page.content = [tag |-> page.locale, grade |-> "full"])

\* A library card that names a language, the sitemap and the language switch lead to a
\* page with a digest, if the catalog did not change on the way.
LinksLeadToDigests ==
  (page.kind = "page" /\ page.promised /\ page.fresh) => page.digest /= NoLocale

\* Search engines are told one story: the sitemap lists indexed pages only, and the
\* canonical page of every page of a digest in some language is indexed.
OneCanonicalStory ==
  task.publication = "published" =>
    /\ \A l \in ListPublicSummaryLocales(task, outs) : Indexed(task, outs, l)
    /\ AvailableLocales(task, outs) /= {} =>
         \A l \in Locales : Indexed(task, outs, CanonicalLocale(task, outs, l))

\* What they are told of a page is true: an indexed page is described by a summary in its own
\* language, a page without digest says that of a published task only, and the structured data
\* name the language of the digest.
ToldWhatIsThere ==
  /\ \A l \in Locales : CASE Indexed(task, outs, l) -> Description(task, outs, l) = "summary"
                         [] Description(task, outs, l) = "other language" ->
                              CanonicalLocale(task, outs, l) /= l
                              /\ Description(task, outs, CanonicalLocale(task, outs, l)) = "summary"
                         [] OTHER -> TRUE
  /\ page.kind = "page" /\ page.structured /= NoLocale =>
       page.structured = page.locale /\ page.digest /= NoLocale

\* What the catalog publishes, its pages, links and search engines show as such
\* (compute_public_task_projection, summary-contract.ts:465-512, public-task-seo.ts).
DigestsAreAsPublished ==
  PublishedInBothLanguages /\ ShownPassedTheGate /\ ExamplesArePublic /\ LinksLeadToDigests
  /\ OneCanonicalStory /\ ToldWhatIsThere
=============================================================================
