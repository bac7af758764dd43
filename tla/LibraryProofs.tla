----------------------------- MODULE LibraryProofs -----------------------------
(***************************************************************************)
(* What the catalog publishes, its pages, links and search engines show as *)
(* such, for any number of writes and of pages opened.  The argument: the  *)
(* row and its outputs agree after every write, what a reader without an   *)
(* account reads is complete or nothing, and a page that saw no write on   *)
(* its way has read what its link was made from.                           *)
(* Then the search box of the library: the request of a page under way is  *)
(* one the box remembers, and the last one it made is under way or shown.  *)
(***************************************************************************)
EXTENDS PublicDigest, LibrarySearch, WellFoundedInduction, NaturalsInduction, SequenceTheorems, TLAPS

OutputStates ==
    [status : {"absent", "pending", "completed", "error"}, content : [tag : Tags, grade : {"broken", "thin", "full"}]]

TaskStates ==
    [demo : BOOLEAN, required : BOOLEAN, auto : BOOLEAN, status : {"processing", "completed"},
     publication : {"private", "processing", "pending_review", "published", "hidden"},
     language : Tags, available : SUBSET {"en", "zh", "ja"}]

OutputSets == [Slots -> OutputStates]

\* A bilingual task has one output for each language, another task one of no language.
OutputsOf(required, os) ==
    IF required THEN os["unset"].status = "absent" ELSE \A l \in Locales : os[l].status = "absent"

BothValid(os) == \A l \in Locales : SqlValid(os[l], l)

\* The row agrees with its outputs.
RowOf(t, os) ==
    /\ t \in TaskStates /\ os \in OutputSets
    /\ OutputsOf(t.required, os)
    /\ t.available = SyncLocalized(t, os)
    /\ ~t.demo => t.publication = "private" /\ ~t.required
    /\ t.publication = "published" => t.status = "completed" /\ (t.required => BothValid(os))
    /\ ~t.required /\ os["unset"].status = "completed" => t.language = os["unset"].content.tag

\* What a reader without an account gets of a bilingual task's outputs: all of them valid, or none.
WholeOrNothing(os) ==
    /\ os["unset"].status # "completed"
    /\ \A l \in Locales : os[l].status = "completed" => SqlValid(os[l], l)

AbsentAll == [s \in Slots |-> Absent]

\* A page on its way; nothing was written since its link was made, or it knows of no promise.
Loading ==
    /\ page = [kind |-> "loading", locale |-> page.locale, owner |-> page.owner, promised |-> page.promised,
               since |-> page.since, row |-> page.row, outs |-> page.outs]
    /\ page.since \in Nat /\ page.since <= writes
    /\ page.row # Unread /\ page.row # NoPage => page.row.required = task.required
    /\ page.outs # Unread => /\ page.outs \in OutputSets
                             /\ task.required /\ ~page.owner => WholeOrNothing(page.outs)
    /\ page.since = writes =>
          /\ Readable(page.owner)
          /\ page.row # Unread => page.row = task
          /\ page.outs # Unread => page.outs = outs
          /\ page.promised => page.locale \in AvailableLocales(task, outs)

RenderedWell ==
    /\ page.since \in Nat /\ page.since <= writes
    /\ ShownPassedTheGate /\ LinksLeadToDigests
    /\ page.structured # NoLocale => page.structured = page.locale /\ page.digest # NoLocale
    /\ page.since = writes => /\ Readable(page.owner)
                              /\ page.other # NoLocale => page.other \in AvailableLocales(task, outs)

DigestInv ==
    /\ RowOf(task, outs)
    /\ writes \in Nat
    /\ cached \in {NoAnswer, "example", "chat"} /\ (cached = "example" => task.demo)
    /\ page.kind = "loading" => Loading
    /\ page.kind = "page" => RenderedWell
    /\ ExamplesArePublic

-----------------------------------------------------------------------------
(* Languages. *)

\* A shown output is one of its tag's language; what its column or the row say does not count.
LEMMA ValidIs ==
    ASSUME NEW os \in OutputSets, NEW s \in ValidOutputs(os), NEW language
    PROVE  /\ s \in Slots /\ os[s].status = "completed" /\ os[s].content.grade # "broken"
           /\ os[s].content.tag \in {"en", "english", "zh"}
           /\ ResolveSummaryLocale(os[s].content.tag) \in Locales
           /\ ResolvePublicOutputLocale(os[s], s, language) = ResolveSummaryLocale(os[s].content.tag)
BY DEF ValidOutputs, ParsesAsCurrent, ResolveSummaryLocale, ResolvePublicOutputLocale, KnownTag, NoLocale, Locales,
       OutputSets, OutputStates, Tags

LEMMA AvailableIs ==
    ASSUME NEW os \in OutputSets, NEW row, NEW l
    PROVE  /\ l \in AvailableLocales(row, os) <=>
                 /\ \E s \in ValidOutputs(os) : ResolveSummaryLocale(os[s].content.tag) = l
                 /\ \E a \in row.available : ResolveSummaryLocale(a) = l
           /\ l \in AvailableLocales(row, os) => l \in Locales
           /\ RouteMatches(row, os, l) <=> l \in AvailableLocales(row, os)
           /\ \A s \in MatchPublicSummary(row, os, l) : s \in ValidOutputs(os) /\ ResolveSummaryLocale(os[s].content.tag) = l
<1>1. \A s \in ValidOutputs(os) :
          /\ ResolvePublicOutputLocale(os[s], s, row.language) = ResolveSummaryLocale(os[s].content.tag)
          /\ ResolveSummaryLocale(os[s].content.tag) \in Locales
  BY ValidIs
<1>2. l \in AvailableLocales(row, os) <=>
          /\ \E s \in ValidOutputs(os) : ResolveSummaryLocale(os[s].content.tag) = l
          /\ \E a \in row.available : ResolveSummaryLocale(a) = l
  BY <1>1 DEF AvailableLocales, FilterPublishedLocales
<1>3. l \in AvailableLocales(row, os) => l \in Locales
  BY <1>1, <1>2
<1>4. \A s \in MatchPublicSummary(row, os, l) : s \in ValidOutputs(os) /\ ResolveSummaryLocale(os[s].content.tag) = l
  BY <1>1 DEF MatchPublicSummary
<1>5. RouteMatches(row, os, l) <=> l \in AvailableLocales(row, os)
  BY <1>1, <1>2 DEF RouteMatches, MatchPublicSummary
<1> QED BY <1>2, <1>3, <1>4, <1>5

\* An output the database counts as a summary in l is one the page shows in l.
LEMMA SqlValidIs ==
    ASSUME NEW os \in OutputSets, NEW s \in Slots, NEW l \in Locales, SqlValid(os[s], l)
    PROVE  /\ s \in ValidOutputs(os) /\ ResolveSummaryLocale(os[s].content.tag) = l
           /\ os[s].content = [tag |-> l, grade |-> "full"]
BY DEF SqlValid, ValidOutputs, ParsesAsCurrent, ResolveSummaryLocale, NoLocale, Locales, OutputSets, OutputStates

\* Every language the row names has a page.
LEMMA NamedIsShown ==
    ASSUME NEW t, NEW os, RowOf(t, os), NEW a \in t.available, NEW l \in Locales, ResolveSummaryLocale(a) = l
    PROVE  l \in AvailableLocales(t, os) /\ RouteMatches(t, os, l)
<1>1. a \in {"en", "zh", "ja"} /\ os \in OutputSets
  BY DEF RowOf, TaskStates
<1>2. a = l
  BY <1>1 DEF ResolveSummaryLocale, NoLocale, Locales
<1>3. PICK s \in Slots : SqlValid(os[s], a)
  <2>1. t.available = SyncLocalized(t, os)
    BY DEF RowOf
  <2>2. a \in SyncLocalized(t, os)
    BY <2>1
  <2> QED BY <2>2 DEF SyncLocalized
<1>4. s \in ValidOutputs(os) /\ ResolveSummaryLocale(os[s].content.tag) = l
  BY <1>1, <1>2, <1>3, SqlValidIs
<1>5. /\ \E x \in ValidOutputs(os) : ResolveSummaryLocale(os[x].content.tag) = l
      /\ \E x \in t.available : ResolveSummaryLocale(x) = l
  BY <1>4
<1>6. l \in AvailableLocales(t, os)
  BY <1>1, <1>5, AvailableIs
<1> QED BY <1>1, <1>6, AvailableIs

LEMMA FirstIs ==
    ASSUME NEW ls, ls \subseteq Locales
    PROVE  (ls # {} => First(ls) \in ls) /\ (ls = {} => First(ls) = NoLocale)
BY DEF First, Locales, NoLocale

-----------------------------------------------------------------------------
(* What the row and its outputs say of the properties. *)

LEMMA PublishedShows ==
    ASSUME RowOf(task, outs)
    PROVE  PublishedInBothLanguages
<1> SUFFICES ASSUME task.publication = "published", task.required, NEW l \in Locales
             PROVE  /\ RouteMatches(task, outs, l)
                    /\ IsChatExample(task, outs) /\ LandingOutputs(outs, l) # {}
  BY DEF PublishedInBothLanguages
<1>1. task.demo /\ task.status = "completed" /\ SqlValid(outs[l], l) /\ outs \in OutputSets /\ l \in Slots
  BY DEF RowOf, BothValid, Slots
<1>2. l \in task.available
  BY <1>1 DEF RowOf, SyncLocalized, Locales
<1>3. ResolveSummaryLocale(l) = l
  BY DEF ResolveSummaryLocale, Locales
<1>4. RouteMatches(task, outs, l)
  BY <1>2, <1>3, NamedIsShown
<1>5. IsChatExample(task, outs)
  BY <1>1 DEF IsChatExample, IsPublishedPublicTask, SqlValid
<1>6. l \in LandingOutputs(outs, l)
  <2>1. l \in ValidOutputs(outs) /\ ResolveSummaryLocale(outs[l].content.tag) = l
    BY <1>1, SqlValidIs
  <2>2. ResolvePublicOutputLocale(outs[l], l, "unknown") = l
    BY <1>1, <2>1, ValidIs
  <2> QED BY <1>1, <2>1, <2>2 DEF LandingOutputs, ValidOutputs
<1> QED BY <1>4, <1>5, <1>6

LEMMA StoryIsOne ==
    ASSUME RowOf(task, outs)
    PROVE  OneCanonicalStory
<1> SUFFICES ASSUME task.publication = "published"
             PROVE  /\ \A l \in ListPublicSummaryLocales(task, outs) : Indexed(task, outs, l)
                    /\ AvailableLocales(task, outs) # {} =>
                         \A l \in Locales : Indexed(task, outs, CanonicalLocale(task, outs, l))
  BY DEF OneCanonicalStory
<1>1. task.demo /\ task.status = "completed" /\ outs \in OutputSets
  BY DEF RowOf
<1>2. \A l : RouteMatches(task, outs, l) => Indexed(task, outs, l)
  BY <1>1 DEF Indexed, IsPublishedPublicTask
<1>3. \A l \in ListPublicSummaryLocales(task, outs) : RouteMatches(task, outs, l)
  <2> SUFFICES ASSUME NEW l \in ListPublicSummaryLocales(task, outs)
               PROVE  RouteMatches(task, outs, l)
    OBVIOUS
  <2>1. \E a \in task.available : ResolveSummaryLocale(a) = l
    BY DEF ListPublicSummaryLocales, FilterPublishedLocales
  <2>2. l \in Locales
    <3>1. l \in Locales \/ (l = ResolveSummaryLocale(task.language) /\ l # NoLocale)
      BY DEF ListPublicSummaryLocales, FilterPublishedLocales
    <3> QED BY <3>1 DEF ResolveSummaryLocale, Locales
  <2> QED BY <2>1, <2>2, NamedIsShown
<1>4. ASSUME AvailableLocales(task, outs) # {}, NEW l \in Locales
      PROVE  RouteMatches(task, outs, CanonicalLocale(task, outs, l))
  <2>1. AvailableLocales(task, outs) \subseteq Locales
    BY <1>1, AvailableIs
  <2>2. First(AvailableLocales(task, outs)) \in AvailableLocales(task, outs)
    BY <1>4, <2>1, FirstIs
  <2> QED BY <1>1, <1>4, <2>2, AvailableIs DEF CanonicalLocale
<1> QED BY <1>2, <1>3, <1>4

LEMMA TellsTheTruth ==
    ASSUME RowOf(task, outs), NEW l \in Locales
    PROVE  CASE Indexed(task, outs, l) -> Description(task, outs, l) = "summary"
             [] Description(task, outs, l) = "other language" ->
                  CanonicalLocale(task, outs, l) # l
                  /\ Description(task, outs, CanonicalLocale(task, outs, l)) = "summary"
             [] OTHER -> TRUE
<1>1. outs \in OutputSets
  BY DEF RowOf
<1>2. \A k : Indexed(task, outs, k) => Description(task, outs, k) = "summary"
  BY <1>1, AvailableIs DEF Description
<1>3. ASSUME Description(task, outs, l) = "other language"
      PROVE  /\ ~Indexed(task, outs, l)
             /\ CanonicalLocale(task, outs, l) # l
             /\ Description(task, outs, CanonicalLocale(task, outs, l)) = "summary"
  <2>1. ~Indexed(task, outs, l) /\ IsPublishedPublicTask(task, TRUE) /\ AvailableLocales(task, outs) # {}
    BY <1>3, <1>2 DEF Description
  <2>2. ~RouteMatches(task, outs, l)
    BY <2>1 DEF Indexed, IsPublishedPublicTask
  <2>3. CanonicalLocale(task, outs, l) = First(AvailableLocales(task, outs))
    BY <2>1, <2>2 DEF CanonicalLocale
  <2>4. AvailableLocales(task, outs) \subseteq Locales
    BY <1>1, AvailableIs
  <2>5. RouteMatches(task, outs, CanonicalLocale(task, outs, l))
    BY <1>1, <2>1, <2>3, <2>4, FirstIs, AvailableIs
  <2>6. Indexed(task, outs, CanonicalLocale(task, outs, l))
    BY <2>1, <2>5 DEF Indexed, IsPublishedPublicTask
  <2> QED BY <1>2, <2>1, <2>2, <2>5, <2>6
<1> QED BY <1>2, <1>3

-----------------------------------------------------------------------------
(* The writes. *)

LEMMA WrittenIs ==
    ASSUME NEW t \in TaskStates, NEW os \in OutputSets, OutputsOf(t.required, os),
           ~t.demo => t.publication = "private" /\ ~t.required,
           NEW r \in Written(t, os)
    PROVE  RowOf(r, os) /\ r.demo = t.demo /\ r.required = t.required
<1> DEFINE Row(x, tag) == [t EXCEPT !.publication = x, !.language = tag, !.available = SyncLocalized(t, os)]
<1>1. PICK ready \in BOOLEAN, tag \in Tags :
        /\ \E q \in {Row(x, tag) : x \in SyncPublication(t, ready)} :
              r = [q EXCEPT !.publication = EnforceBilingual(q, os)]
        /\ (Chosen(os) = {} /\ tag = "unknown") \/ \E s \in Chosen(os) : tag = os[s].content.tag
  <2>1. CASE Chosen(os) = {}
    <3>1. "unknown" \in Tags
      BY DEF Tags
    <3>2. Written(t, os) = {[q EXCEPT !.publication = EnforceBilingual(q, os)] :
                               q \in {Row(x, "unknown") : x \in SyncPublication(t, FALSE)}}
      BY <2>1 DEF Written
    <3> QED BY <2>1, <3>1, <3>2
  <2>2. CASE Chosen(os) # {}
    <3>1. Written(t, os) = {[q EXCEPT !.publication = EnforceBilingual(q, os)] :
                               q \in UNION {{Row(x, os[s].content.tag) : x \in SyncPublication(t, Ready(os, s))} :
                                               s \in Chosen(os)}}
      BY <2>2 DEF Written
    <3>2. PICK q \in UNION {{Row(x, os[s].content.tag) : x \in SyncPublication(t, Ready(os, s))} : s \in Chosen(os)} :
            r = [q EXCEPT !.publication = EnforceBilingual(q, os)]
      BY <3>1
    <3>3. PICK s \in Chosen(os) : q \in {Row(x, os[s].content.tag) : x \in SyncPublication(t, Ready(os, s))}
      BY <3>2
    <3>4. s \in Slots
      BY DEF Chosen, Slots, Locales
    <3>5. os[s].content.tag \in Tags /\ Ready(os, s) \in BOOLEAN
      BY <3>4 DEF OutputSets, OutputStates, Ready
    <3> QED BY <3>2, <3>3, <3>5
  <2> QED BY <2>1, <2>2
<1>2. PICK q \in {Row(x, tag) : x \in SyncPublication(t, ready)} :
        r = [q EXCEPT !.publication = EnforceBilingual(q, os)]
  BY <1>1
<1>3. PICK p \in SyncPublication(t, ready) : q = Row(p, tag)
  BY <1>2
<1>4. /\ p \in {"private", "processing", "pending_review", "published", "hidden"}
      /\ p = "published" => t.demo /\ t.status = "completed"
      /\ ~t.demo => p = "private"
  BY <1>3 DEF SyncPublication, TaskStates
<1>5. SyncLocalized(t, os) \in SUBSET {"en", "zh", "ja"}
  BY DEF SyncLocalized
<1>6. /\ q \in TaskStates /\ q.demo = t.demo /\ q.required = t.required /\ q.status = t.status
      /\ q.publication = p /\ q.language = tag /\ q.available = SyncLocalized(t, os)
  BY <1>3, <1>4, <1>5 DEF TaskStates
<1>7. PICK e : e = EnforceBilingual(q, os)
  OBVIOUS
<1>8. /\ e \in {p, "pending_review"}
      /\ e = "published" => p = "published" /\ (t.required => BothValid(os))
      /\ ~t.required => e = p
  BY <1>4, <1>6, <1>7 DEF EnforceBilingual, BothValid
<1>9. /\ r \in TaskStates /\ r.demo = t.demo /\ r.required = t.required /\ r.status = t.status
      /\ r.publication = e /\ r.language = tag /\ r.available = SyncLocalized(t, os)
  BY <1>2, <1>4, <1>6, <1>7, <1>8 DEF TaskStates
<1>10. SyncLocalized(r, os) = SyncLocalized(t, os)
  BY <1>9 DEF SyncLocalized
<1>11. ~t.required /\ os["unset"].status = "completed" => tag = os["unset"].content.tag
  <2> SUFFICES ASSUME ~t.required, os["unset"].status = "completed"
               PROVE  tag = os["unset"].content.tag
    OBVIOUS
  <2>1. Chosen(os) = {"unset"}
    BY DEF Chosen, OutputsOf, Slots, Locales
  <2> QED BY <1>1, <2>1
<1> QED BY <1>4, <1>8, <1>9, <1>10, <1>11 DEF RowOf

\* After a write no page on its way has seen the newest state.
LEMMA WriteKeeps ==
    ASSUME DigestInv, NEW t \in TaskStates, NEW os \in OutputSets, outs' = os, task' \in Written(t, os),
           t.demo = task.demo, t.required = task.required, ~t.demo => t.publication = "private",
           OutputsOf(task.required, os), writes' = writes + 1, UNCHANGED <<visits, page, cached>>
    PROVE  DigestInv'
<1>1. ~task.demo => ~task.required
  BY DEF DigestInv, RowOf
<1>2. PICK r \in Written(t, os) : r = task'
  OBVIOUS
<1>3. RowOf(r, os) /\ r.demo = task.demo /\ r.required = task.required
  BY <1>1, <1>2, WrittenIs
<1>4. task'.demo = task.demo /\ task'.required = task.required /\ RowOf(task', outs')
  BY <1>2, <1>3
<1>5. writes' \in Nat /\ \A n \in Nat : n <= writes => n <= writes' /\ n # writes'
  BY DEF DigestInv
<1>6. page.kind = "loading" => Loading'
  BY <1>4, <1>5 DEF DigestInv, Loading
<1>7. page.kind = "page" => RenderedWell'
  BY <1>5 DEF DigestInv, RenderedWell, ShownPassedTheGate, LinksLeadToDigests
<1>8. ExamplesArePublic'
  BY <1>4 DEF DigestInv, ExamplesArePublic
<1> QED BY <1>4, <1>5, <1>6, <1>7, <1>8 DEF DigestInv

LEMMA TypedState ==
    ASSUME DigestInv
    PROVE  /\ task \in TaskStates /\ outs \in OutputSets /\ OutputsOf(task.required, outs)
           /\ ~task.demo => task.publication = "private"
BY DEF DigestInv, RowOf

LEMMA StepWriteOutput ==
    ASSUME DigestInv, NEW s \in Slots, NEW o \in OutputStates, WriteOutput(s, o), outs[s].status # "absent"
    PROVE  DigestInv'
<1>1. PICK os : os = [outs EXCEPT ![s] = o]
  OBVIOUS
<1>2. /\ os \in OutputSets /\ OutputsOf(task.required, os)
  BY <1>1, TypedState DEF OutputSets, OutputsOf, Slots, Locales
<1>3. /\ outs' = os /\ task' \in Written(task, os) /\ writes' = writes + 1 /\ UNCHANGED <<visits, page, cached>>
  BY <1>1 DEF WriteOutput
<1>4. PICK t : t = task
  OBVIOUS
<1> QED BY <1>2, <1>3, <1>4, TypedState, WriteKeeps

LEMMA StepWriteTask ==
    ASSUME DigestInv, NEW t \in TaskStates, WriteTask(t), t.demo = task.demo, t.required = task.required,
           ~t.demo => t.publication = "private"
    PROVE  DigestInv'
<1>1. PICK os : os = outs
  OBVIOUS
<1>2. /\ outs' = os /\ task' \in Written(t, os) /\ writes' = writes + 1 /\ UNCHANGED <<visits, page, cached>>
  BY <1>1 DEF WriteTask
<1> QED BY <1>1, <1>2, TypedState, WriteKeeps

LEMMA StepOutputs ==
    ASSUME DigestInv, NEW s \in Slots,
           (\E c \in Contents : OutputCompletes(s, c)) \/ OutputFails(s) \/ SubmitOutputRetry(s)
    PROVE  DigestInv'
<1>1. outs[s] \in OutputStates
  BY TypedState DEF OutputSets
<1>2. ASSUME NEW c \in Contents, OutputCompletes(s, c)
      PROVE  DigestInv'
  <2>1. [status |-> "completed", content |-> c] \in OutputStates
    BY DEF Contents, Blank, Tags, Locales, OutputStates
  <2> QED BY <1>2, <2>1, StepWriteOutput DEF OutputCompletes
<1>3. CASE OutputFails(s)
  <2>1. [outs[s] EXCEPT !.status = "error"] \in OutputStates
    BY <1>1 DEF OutputStates
  <2>2. PICK o : o = [outs[s] EXCEPT !.status = "error"]
    OBVIOUS
  <2> QED BY <1>3, <2>1, <2>2, StepWriteOutput DEF OutputFails
<1>4. CASE SubmitOutputRetry(s)
  <2>1. [outs[s] EXCEPT !.status = "pending"] \in OutputStates
    BY <1>1 DEF OutputStates
  <2>2. PICK o : o = [outs[s] EXCEPT !.status = "pending"]
    OBVIOUS
  <2> QED BY <1>4, <2>1, <2>2, StepWriteOutput DEF SubmitOutputRetry
<1> QED BY <1>2, <1>3, <1>4

LEMMA StepTask ==
    ASSUME DigestInv, TaskCompletes \/ Hide \/ \E auto \in BOOLEAN : SubmitAgain(auto)
    PROVE  DigestInv'
<1>1. task \in TaskStates /\ (~task.demo => task.publication = "private")
  BY TypedState
<1>2. CASE TaskCompletes
  <2>1. PICK t : t = [task EXCEPT !.status = "completed"]
    OBVIOUS
  <2>2. /\ t \in TaskStates /\ t.demo = task.demo /\ t.required = task.required
        /\ ~t.demo => t.publication = "private"
    BY <1>1, <2>1 DEF TaskStates
  <2>3. WriteTask(t)
    BY <1>2, <2>1 DEF TaskCompletes
  <2> QED BY <2>2, <2>3, StepWriteTask
<1>3. CASE Hide
  <2>1. PICK t : t = [task EXCEPT !.publication = "hidden"]
    OBVIOUS
  <2>2. /\ t \in TaskStates /\ t.demo = task.demo /\ t.required = task.required
        /\ ~t.demo => t.publication = "private"
    BY <1>1, <1>3, <2>1 DEF TaskStates, Hide
  <2>3. WriteTask(t)
    BY <1>3, <2>1 DEF Hide
  <2> QED BY <2>2, <2>3, StepWriteTask
<1>4. ASSUME NEW auto \in BOOLEAN, SubmitAgain(auto)
      PROVE  DigestInv'
  <2>1. PICK t : t = [task EXCEPT !.auto = auto,
                        !.publication = IF task.status = "completed" /\ auto /\ @ /= "hidden" THEN "published" ELSE @]
    OBVIOUS
  <2>2. /\ t \in TaskStates /\ t.demo = task.demo /\ t.required = task.required
        /\ ~t.demo => t.publication = "private"
    BY <1>1, <1>4, <2>1 DEF TaskStates, SubmitAgain
  <2>3. WriteTask(t)
    BY <1>4, <2>1 DEF SubmitAgain
  <2> QED BY <2>2, <2>3, StepWriteTask
<1> QED BY <1>2, <1>3, <1>4

-----------------------------------------------------------------------------
(* The readers. *)

LEMMA StepOpen ==
    ASSUME DigestInv, NEW l, NEW owner, NEW promised, NEW since \in Nat, Open(l, owner, promised, since),
           since <= writes,
           since = writes => Readable(owner) /\ (promised => l \in AvailableLocales(task, outs))
    PROVE  DigestInv'
<1>1. /\ page' = [kind |-> "loading", locale |-> l, owner |-> owner, promised |-> promised,
                  since |-> since, row |-> Unread, outs |-> Unread]
      /\ UNCHANGED <<task, outs, writes, cached>>
  BY DEF Open
<1>2. /\ page'.kind = "loading" /\ page'.locale = l /\ page'.owner = owner /\ page'.promised = promised
      /\ page'.since = since /\ page'.row = Unread /\ page'.outs = Unread
  BY <1>1
<1>3. Readable(owner)' <=> Readable(owner)
  BY <1>1 DEF Readable
<1>4. Loading'
  BY <1>1, <1>2, <1>3 DEF Loading, Readable
<1> QED BY <1>1, <1>2, <1>4 DEF DigestInv, ExamplesArePublic

LEMMA StepFollow ==
    ASSUME DigestInv, NEW l \in Locales, FollowCard(l) \/ FollowSitemap(l) \/ OpenOwnTask(l)
    PROVE  DigestInv'
<1>1. RowOf(task, outs) /\ writes \in Nat
  BY DEF DigestInv
<1>2. PICK n \in Nat : n = writes /\ n <= writes
  BY <1>1
<1>3. CASE FollowCard(l)
  <2>1. PICK k, promised : /\ k = TaskDigestLocale(task, l) /\ promised = (TakeawayLocale(task, l) # NoLocale)
    OBVIOUS
  <2>2. promised => k \in AvailableLocales(task, outs)
    <3> SUFFICES ASSUME promised
                 PROVE  k \in AvailableLocales(task, outs)
      OBVIOUS
    <3>1. k = TakeawayLocale(task, l) /\ k # NoLocale
      BY <2>1 DEF TaskDigestLocale
    <3>2. PICK ls : ls = {ResolveSummaryLocale(a) : a \in task.available} \ {NoLocale}
      OBVIOUS
    <3>3. ls \subseteq Locales
      BY <3>2 DEF ResolveSummaryLocale, Locales, NoLocale
    <3>4. k \in ls
      BY <3>1, <3>2, <3>3, FirstIs DEF TakeawayLocale
    <3> QED BY <1>1, <3>2, <3>3, <3>4, NamedIsShown
  <2>3. Open(k, FALSE, promised, n) /\ Readable(FALSE)
    BY <1>2, <1>3, <2>1 DEF FollowCard
  <2> QED BY <1>2, <2>2, <2>3, StepOpen
<1>4. CASE FollowSitemap(l)
  <2>1. Open(l, FALSE, TRUE, n) /\ Readable(FALSE) /\ l \in ListPublicSummaryLocales(task, outs)
    BY <1>2, <1>4 DEF FollowSitemap
  <2>2. \E a \in task.available : ResolveSummaryLocale(a) = l
    BY <2>1 DEF ListPublicSummaryLocales, FilterPublishedLocales
  <2>3. l \in AvailableLocales(task, outs)
    BY <1>1, <2>2, NamedIsShown
  <2> QED BY <1>2, <2>1, <2>3, StepOpen
<1>5. CASE OpenOwnTask(l)
  <2>1. Open(l, TRUE, FALSE, n)
    BY <1>2, <1>5 DEF OpenOwnTask
  <2>2. Readable(TRUE)
    BY DEF Readable
  <2> QED BY <1>2, <2>1, <2>2, StepOpen
<1> QED BY <1>3, <1>4, <1>5

LEMMA StepSwitchLanguage ==
    ASSUME DigestInv, SwitchLanguage
    PROVE  DigestInv'
<1>1. page.kind = "page" /\ page.other # NoLocale /\ RenderedWell
  BY DEF SwitchLanguage, DigestInv
<1>2. PICK l, owner, promised, since :
        l = page.other /\ owner = page.owner /\ promised = page.fresh /\ since = page.since
  OBVIOUS
<1>3. Open(l, owner, promised, since)
  BY <1>2 DEF SwitchLanguage
<1>4. since \in Nat /\ since <= writes
      /\ (since = writes => Readable(owner) /\ l \in AvailableLocales(task, outs))
  BY <1>1, <1>2 DEF RenderedWell
<1> QED BY <1>3, <1>4, StepOpen

\* The two reads of a page: what is read is of one moment each.
LEMMA StepReads ==
    ASSUME DigestInv, ReadRow \/ ReadOutputs
    PROVE  DigestInv'
<1>1. page.kind = "loading" /\ Loading /\ UNCHANGED <<task, outs, writes, visits, cached>>
  BY DEF ReadRow, ReadOutputs, DigestInv
<1>2. Readable(page.owner) => task.publication = "published" \/ page.owner
  BY DEF Readable
<1>3. CASE ReadRow
  <2>1. PICK r : r = IF Readable(page.owner) THEN task ELSE NoPage
    OBVIOUS
  <2>2. page' = [page EXCEPT !.row = r]
    BY <1>3, <2>1 DEF ReadRow
  <2>3. /\ page' = [kind |-> "loading", locale |-> page.locale, owner |-> page.owner, promised |-> page.promised,
                    since |-> page.since, row |-> r, outs |-> page.outs]
    BY <1>1, <2>2 DEF Loading
  <2>4. /\ page'.kind = "loading" /\ page'.locale = page.locale /\ page'.owner = page.owner
        /\ page'.promised = page.promised /\ page'.since = page.since /\ page'.row = r /\ page'.outs = page.outs
    BY <2>3
  <2>5. Loading'
    BY <1>1, <2>1, <2>3, <2>4 DEF Loading, Readable
  <2> QED BY <1>1, <2>4, <2>5 DEF DigestInv, ExamplesArePublic
<1>4. CASE ReadOutputs
  <2>1. PICK os : os = IF Readable(page.owner) THEN outs ELSE AbsentAll
    OBVIOUS
  <2>2. page' = [page EXCEPT !.outs = os]
    BY <1>4, <2>1 DEF ReadOutputs, AbsentAll
  <2>3. /\ page' = [kind |-> "loading", locale |-> page.locale, owner |-> page.owner, promised |-> page.promised,
                    since |-> page.since, row |-> page.row, outs |-> os]
    BY <1>1, <2>2 DEF Loading
  <2>4. /\ page'.kind = "loading" /\ page'.locale = page.locale /\ page'.owner = page.owner
        /\ page'.promised = page.promised /\ page'.since = page.since /\ page'.row = page.row /\ page'.outs = os
    BY <2>3
  <2>5. os \in OutputSets /\ (task.required /\ ~page.owner => WholeOrNothing(os))
    <3>1. CASE Readable(page.owner)
      <4>1. outs \in OutputSets
        BY TypedState
      <4>2. task.required /\ ~page.owner => outs["unset"].status = "absent" /\ BothValid(outs)
        BY <1>2, <3>1 DEF DigestInv, RowOf, OutputsOf
      <4> QED BY <2>1, <3>1, <4>1, <4>2 DEF WholeOrNothing, BothValid
    <3>2. CASE ~Readable(page.owner)
      <4>1. AbsentAll \in OutputSets
        BY DEF AbsentAll, OutputSets, OutputStates, Absent, Blank, Tags
      <4>2. WholeOrNothing(AbsentAll)
        BY DEF AbsentAll, WholeOrNothing, Absent, Slots, Locales
      <4> QED BY <2>1, <3>2, <4>1, <4>2
    <3> QED BY <3>1, <3>2
  <2>6. Loading'
    BY <1>1, <2>1, <2>3, <2>4, <2>5 DEF Loading, Readable
  <2> QED BY <1>1, <2>4, <2>6 DEF DigestInv, ExamplesArePublic
<1> QED BY <1>3, <1>4

\* The page is made from what was read, whatever was written meanwhile.
LEMMA StepRenderPage ==
    ASSUME DigestInv, RenderPage
    PROVE  DigestInv'
<1>1. /\ page.kind = "loading" /\ page.row # Unread /\ page.outs # Unread /\ Loading
      /\ UNCHANGED <<task, outs, writes, visits, cached>>
  BY DEF RenderPage, DigestInv
<1>2. CASE page' = NoPage
  BY <1>1, <1>2 DEF DigestInv, NoPage, ExamplesArePublic
<1>3. CASE page.row # NoPage
  <2>1. PICK row, os, l : row = page.row /\ os = page.outs /\ l = page.locale
    OBVIOUS
  <2>2. PICK found : found = MatchPublicSummary(row, os, l)
    OBVIOUS
  <2>3. PICK s : /\ (found = {} /\ s = NoLocale) \/ s \in found
                 /\ page' = [kind |-> "page", locale |-> l, owner |-> page.owner,
                             promised |-> page.promised, since |-> page.since,
                             fresh |-> page.since = writes,
                             row |-> row, digest |-> s,
                             structured |-> JsonLd(row, os, l, s),
                             other |-> IF s = NoLocale THEN First(AvailableLocales(row, os)) ELSE NoLocale,
                             content |-> IF s = NoLocale THEN Blank ELSE os[s].content]
    BY <1>3, <2>1, <2>2 DEF RenderPage
  <2>4. /\ page'.kind = "page" /\ page'.locale = l /\ page'.owner = page.owner /\ page'.promised = page.promised
        /\ page'.since = page.since /\ (page'.fresh <=> page.since = writes) /\ page'.row = row /\ page'.digest = s
        /\ page'.structured = JsonLd(row, os, l, s)
        /\ s = NoLocale => page'.other = First(AvailableLocales(row, os))
        /\ s # NoLocale => page'.other = NoLocale /\ page'.content = os[s].content
    BY <2>3
  <2>5. /\ os \in OutputSets /\ row.required = task.required
        /\ task.required /\ ~page.owner => WholeOrNothing(os)
        /\ page.since = writes => /\ Readable(page.owner) /\ row = task /\ os = outs
                                  /\ page.promised => l \in AvailableLocales(task, outs)
    BY <1>1, <1>3, <2>1 DEF Loading
  <2>6. s \in found => /\ s \in ValidOutputs(os) /\ s \in Slots /\ os[s].status = "completed"
                       /\ os[s].content.tag \in {"en", "english", "zh"}
                       /\ ResolveSummaryLocale(os[s].content.tag) = l
    BY <2>2, <2>5, AvailableIs, ValidIs
  <2>7. NoLocale \notin Slots
    BY DEF NoLocale, Slots, Locales
  <2>8. ShownPassedTheGate'
    <3> SUFFICES ASSUME s # NoLocale, ~page.owner, task.required
                 PROVE  os[s].content = [tag |-> l, grade |-> "full"]
      BY <2>4, <2>5 DEF ShownPassedTheGate
    <3>1. s \in found /\ WholeOrNothing(os)
      BY <2>3, <2>5
    <3>2. s \in Locales /\ SqlValid(os[s], s)
      BY <2>6, <3>1 DEF WholeOrNothing, Slots
    <3>3. ResolveSummaryLocale(os[s].content.tag) = s /\ os[s].content = [tag |-> s, grade |-> "full"]
      BY <2>5, <2>6, <3>1, <3>2, SqlValidIs
    <3> QED BY <2>6, <3>1, <3>3
  <2>9. LinksLeadToDigests'
    <3> SUFFICES ASSUME page.promised, page.since = writes
                 PROVE  s # NoLocale
      BY <2>4 DEF LinksLeadToDigests
    <3>1. l \in AvailableLocales(row, os)
      BY <2>5
    <3>2. found # {}
      BY <2>2, <2>5, <3>1, AvailableIs DEF RouteMatches
    <3> QED BY <2>3, <2>6, <2>7, <3>2
  <2>10. page'.structured # NoLocale => page'.structured = page'.locale /\ page'.digest # NoLocale
    <3> SUFFICES ASSUME JsonLd(row, os, l, s) # NoLocale
                 PROVE  JsonLd(row, os, l, s) = l /\ s # NoLocale
      BY <2>4
    <3>1. s # NoLocale /\ JsonLd(row, os, l, s) = SummaryLanguageTag(os[s].content.tag, l)
      BY DEF JsonLd, IsPublishedPublicTask
    <3>2. s \in found
      BY <2>3, <3>1
    <3> QED BY <2>6, <3>1, <3>2 DEF SummaryLanguageTag, ResolveSummaryLocale, KnownTag
  <2>11. page.since = writes =>
           /\ Readable(page.owner)
           /\ page'.other # NoLocale => page'.other \in AvailableLocales(task, outs)
    <3>1. AvailableLocales(row, os) \subseteq Locales
      BY <2>5, AvailableIs
    <3> QED BY <2>4, <2>5, <3>1, FirstIs
  <2>13. RenderedWell'
    BY <1>1, <2>4, <2>8, <2>9, <2>10, <2>11 DEF RenderedWell, Loading, Readable
  <2> QED BY <1>1, <2>4, <2>13 DEF DigestInv, ExamplesArePublic
<1> QED BY <1>2, <1>3 DEF RenderPage

LEMMA StepChat ==
    ASSUME DigestInv, OpenInChat \/ \E l \in Locales, thread, ok \in BOOLEAN : OpenLanding(l, thread, ok)
    PROVE  DigestInv'
<1>1. UNCHANGED <<task, outs, writes>>
  BY DEF OpenInChat, OpenLanding
<1>2. RowOf(task, outs) /\ writes \in Nat /\ cached \in {NoAnswer, "example", "chat"}
      /\ (cached = "example" => task.demo)
  BY DEF DigestInv
<1>3. CASE OpenInChat
  <2>1. PICK now : now = IF IsChatExample(task, outs) THEN "example" ELSE "chat"
    OBVIOUS
  <2>2. now \in {"example", "chat"} /\ (now = "example" => task.demo)
    BY <2>1 DEF IsChatExample, IsPublishedPublicTask
  <2>3. /\ page' = [kind |-> IF cached = NoAnswer THEN now ELSE cached, locale |-> NoLocale]
        /\ cached' \in {now} \cup ({cached} \ {NoAnswer})
    BY <1>3, <2>1 DEF OpenInChat
  <2>4. /\ page'.kind = (IF cached = NoAnswer THEN now ELSE cached) /\ page'.locale = NoLocale
    BY <2>3
  <2> QED BY <1>1, <1>2, <2>2, <2>3, <2>4 DEF DigestInv, ExamplesArePublic, NoAnswer
<1>4. ASSUME NEW l \in Locales, NEW thread \in BOOLEAN, NEW ok \in BOOLEAN, OpenLanding(l, thread, ok)
      PROVE  DigestInv'
  <2>1. cached' = cached
    BY <1>4 DEF OpenLanding
  <2>2. CASE page' \in {[kind |-> "chat"], [kind |-> "unavailable"]}
    <3>1. page'.kind \in {"chat", "unavailable"}
      BY <2>2
    <3> QED BY <1>1, <1>2, <2>1, <3>1 DEF DigestInv, ExamplesArePublic
  <2>3. CASE page' \notin {[kind |-> "chat"], [kind |-> "unavailable"]}
    <3>1. PICK s \in LandingOutputs(outs, l) :
            page' = [kind |-> "example", locale |-> l, row |-> task, content |-> outs[s].content]
      BY <1>4, <2>3 DEF OpenLanding
    <3>2. IsChatExample(task, outs)
      BY <1>4, <2>3 DEF OpenLanding
    <3>3. page'.kind = "example" /\ page'.locale = l /\ page'.row = task /\ page'.content = outs[s].content
      BY <3>1
    <3>4. task.demo /\ task.publication = "published" /\ (task.required => BothValid(outs))
          /\ outs \in OutputSets /\ OutputsOf(task.required, outs)
      BY <1>2, <3>2 DEF IsChatExample, IsPublishedPublicTask, RowOf
    <3>5. task.required => outs[s].content = [tag |-> l, grade |-> "full"]
      <4> SUFFICES ASSUME task.required
                   PROVE  outs[s].content = [tag |-> l, grade |-> "full"]
        OBVIOUS
      <4>1. s \in Slots /\ outs[s].status = "completed" /\ ResolvePublicOutputLocale(outs[s], s, "unknown") = l
        BY DEF LandingOutputs, ParsesAsCurrent
      <4>2. s \in Locales /\ SqlValid(outs[s], s)
        BY <3>4, <4>1 DEF OutputsOf, BothValid, Slots
      <4>3. s \in ValidOutputs(outs) /\ ResolveSummaryLocale(outs[s].content.tag) = s
            /\ outs[s].content = [tag |-> s, grade |-> "full"]
        BY <3>4, <4>1, <4>2, SqlValidIs
      <4>4. ResolvePublicOutputLocale(outs[s], s, "unknown") = s
        BY <3>4, <4>3, ValidIs
      <4> QED BY <4>1, <4>3, <4>4
    <3> QED BY <1>1, <1>2, <2>1, <3>3, <3>4, <3>5 DEF DigestInv, ExamplesArePublic
  <2> QED BY <2>2, <2>3
<1> QED BY <1>3, <1>4

-----------------------------------------------------------------------------
LEMMA DigestInvInit ==
    ASSUME DigestInit
    PROVE  DigestInv
<1>1. PICK demo \in BOOLEAN, auto \in BOOLEAN, required \in BOOLEAN :
        /\ ~demo => ~required
        /\ task = NewRow(demo, required, auto /\ demo)
        /\ outs = [s \in Slots |-> IF required = (s /= "unset") THEN Pending ELSE Absent]
  BY DEF DigestInit
<1>2. required \in BOOLEAN /\ (~demo => ~required)
  BY <1>1
<1>3. Pending \in OutputStates /\ Absent \in OutputStates /\ Pending.status = "pending" /\ Absent.status = "absent"
  BY DEF Pending, Absent, Blank, OutputStates, Tags
<1>4. outs \in OutputSets /\ \A s \in Slots : outs[s].status # "completed"
  BY <1>1, <1>3 DEF OutputSets
<1>5. OutputsOf(required, outs)
  BY <1>1, <1>2, <1>3 DEF OutputsOf, Slots, Locales
<1>6. /\ task \in TaskStates /\ task.required = required /\ task.demo = demo
      /\ task.publication # "published" /\ (~demo => task.publication = "private") /\ task.available = {}
  <2>1. (auto /\ demo) \in BOOLEAN
    BY <1>1
  <2> QED BY <1>1, <1>2, <2>1 DEF NewRow, TaskStates, Tags
<1>7. SyncLocalized(task, outs) = {}
  BY <1>4 DEF SyncLocalized, SqlValid
<1>8. RowOf(task, outs)
  BY <1>2, <1>4, <1>5, <1>6, <1>7 DEF RowOf, Slots
<1>9. writes = 0 /\ page.kind = "nothing" /\ cached = NoAnswer
  BY DEF DigestInit, NoPage
<1> QED BY <1>8, <1>9 DEF DigestInv, ExamplesArePublic, NoAnswer

LEMMA DigestInvNext ==
    ASSUME DigestInv, [DigestNext]_digestVars
    PROVE  DigestInv'
<1>1. CASE UNCHANGED digestVars
  <2>1. UNCHANGED <<task, outs, writes, visits, page, cached>>
    BY <1>1 DEF digestVars
  <2> QED BY <2>1 DEF DigestInv, Loading, RenderedWell, Readable, ExamplesArePublic, ShownPassedTheGate, LinksLeadToDigests
<1>2. CASE DigestNext
  BY <1>2, StepOutputs, StepTask, StepFollow, StepSwitchLanguage, StepReads, StepRenderPage, StepChat DEF DigestNext
<1> QED BY <1>1, <1>2

\* The row agrees with its outputs, and a page with what it has read and was promised.
THEOREM DigestInvariant == DigestSpec => []DigestInv
<1>1. DigestInit => DigestInv
  BY DigestInvInit
<1>2. DigestInv /\ [DigestNext]_digestVars => DigestInv'
  BY DigestInvNext
<1> QED BY <1>1, <1>2, PTL DEF DigestSpec

\* What the catalog publishes, its pages, links and search engines show as such
\* (compute_public_task_projection, summary-contract.ts:465-512, public-task-seo.ts), however many
\* writes come between the reads of a page.
THEOREM PagesShowWhatIsPublished == DigestSpec => []DigestsAreAsPublished
<1>1. DigestInv => DigestsAreAsPublished
  <2> SUFFICES ASSUME DigestInv
               PROVE  DigestsAreAsPublished
    OBVIOUS
  <2>1. PublishedInBothLanguages /\ OneCanonicalStory
    BY PublishedShows, StoryIsOne DEF DigestInv
  <2>2. ShownPassedTheGate /\ LinksLeadToDigests
    BY DEF DigestInv, RenderedWell, ShownPassedTheGate, LinksLeadToDigests
  <2>3. ToldWhatIsThere
    BY TellsTheTruth DEF DigestInv, RenderedWell, ToldWhatIsThere
  <2> QED BY <2>1, <2>2, <2>3 DEF DigestsAreAsPublished, DigestInv
<1> QED BY <1>1, DigestInvariant, PTL

-----------------------------------------------------------------------------
(* The search box of the library, for any paths, shows, words, lengths of the   *)
(* history and of the memory of requests.                                       *)

\* An induction over the naturals that needs no operator: a set that holds 0 and each successor
\* of its members up to m holds all numbers up to m.
LEMMA UpTo ==
    ASSUME NEW m \in Nat, NEW T, 0 \in T, \A n \in Nat : n < m /\ n \in T => n + 1 \in T
    PROVE  \A n \in 0..m : n \in T
<1> DEFINE F == {n \in 0..m : n \notin T}
           R == OpToRel(<, Nat)
<1>1. SUFFICES ASSUME F # {} PROVE FALSE
  OBVIOUS
<1>2. PICK d \in F : \A e \in F : <<e, d>> \notin R
  <2>1. IsWellFoundedOn(R, Nat)
    BY NatLessThanWellFounded
  <2>2. F \subseteq Nat
    OBVIOUS
  <2> HIDE DEF F, R
  <2> QED BY <1>1, <2>1, <2>2, WFMin
<1>3. \A e \in F : ~(e < d)
  <2>1. F \subseteq Nat
    OBVIOUS
  <2> HIDE DEF F
  <2> QED BY <1>2, <2>1 DEF OpToRel
<1>4. d \in Nat /\ d <= m /\ d \notin T /\ d # 0
  OBVIOUS
<1>5. d - 1 \in Nat /\ d - 1 < m /\ d - 1 \in 0..m /\ d - 1 < d
  BY <1>4
<1>6. d - 1 \in T
  <2> HIDE DEF R
  <2> QED BY <1>3, <1>5
<1>7. (d - 1) + 1 \in T
  BY <1>5, <1>6
<1> QED BY <1>4, <1>7

\* f filters r out of every prefix of s.
Filters(f, s, r) ==
    f = [n \in 0..Len(s) |-> IF n = 0 THEN << >>
                             ELSE IF s[n] = r THEN f[n - 1] ELSE Append(f[n - 1], s[n])]

LEMMA FilterExists ==
    ASSUME NEW S, NEW s \in Seq(S), NEW r
    PROVE  \E g : Filters(g, s, r)
<1> DEFINE Ext(g, n) == IF n = 0 THEN << >> ELSE IF s[n] = r THEN g[n - 1] ELSE Append(g[n - 1], s[n])
           Good(g, m) == \A n \in 0..m : g[n] = Ext(g, n)
           T == {m \in Nat : \E g : Good(g, m) /\ g = [n \in 0..m |-> g[n]]}
<1>1. Len(s) \in Nat
  OBVIOUS
<1>2. 0 \in T
  <2>1. Good([n \in 0..0 |-> << >>], 0)
    BY SMT
  <2> QED BY <2>1
<1>3. ASSUME NEW m \in Nat, m \in T PROVE m + 1 \in T
  <2>1. PICK g : Good(g, m) /\ g = [n \in 0..m |-> g[n]]
    BY <1>3
  <2> DEFINE x == IF s[m + 1] = r THEN g[m] ELSE Append(g[m], s[m + 1])
             h == [n \in 0..(m + 1) |-> IF n = m + 1 THEN x ELSE g[n]]
  <2>2. \A n \in 0..m : n \in 0..(m + 1) /\ h[n] = g[n]
    <3> HIDE DEF x
    <3> QED OBVIOUS
  <2>3. h[m + 1] = x
    <3> HIDE DEF x
    <3> QED OBVIOUS
  <2>4. Good(h, m + 1)
    <3> SUFFICES ASSUME NEW n \in 0..(m + 1) PROVE h[n] = Ext(h, n)
      OBVIOUS
    <3>1. CASE n = m + 1
      <4>1. h[m] = g[m] /\ m \in 0..m /\ n - 1 = m /\ n # 0
        BY <2>2, <3>1
      <4> HIDE DEF h
      <4> QED BY <2>3, <3>1, <4>1
    <3>2. CASE n \in 0..m /\ n # 0
      <4>1. n - 1 \in 0..m
        BY <3>2
      <4>2. h[n] = g[n] /\ h[n - 1] = g[n - 1]
        BY <2>2, <3>2, <4>1
      <4>3. g[n] = Ext(g, n)
        BY <2>1, <3>2
      <4> HIDE DEF h
      <4> QED BY <4>2, <4>3
    <3>3. CASE n = 0
      <4>1. h[0] = g[0] /\ g[0] = Ext(g, 0)
        BY <2>1, <2>2
      <4> HIDE DEF h
      <4> QED BY <3>3, <4>1
    <3> QED BY <3>1, <3>2, <3>3
  <2>5. h = [n \in 0..(m + 1) |-> h[n]]
    OBVIOUS
  <2> HIDE DEF h, Good
  <2> QED BY <2>4, <2>5
<1>4. Len(s) \in T
  <2> HIDE DEF T
  <2>1. \A n \in 0..Len(s) : n \in T
    BY <1>1, <1>2, <1>3, UpTo
  <2> QED BY <1>1, <2>1
<1>5. PICK g : Good(g, Len(s)) /\ g = [n \in 0..Len(s) |-> g[n]]
  BY <1>4
<1>6. g = [n \in 0..Len(s) |-> Ext(g, n)]
  BY <1>5
<1> QED BY <1>6 DEF Filters

\* Filtering keeps a sequence of requests one, and no longer than it was.
LEMMA WithoutIs ==
    ASSUME NEW S, NEW s \in Seq(S), NEW r
    PROVE  Without(s, r) \in Seq(S) /\ Len(Without(s, r)) <= Len(s)
<1> DEFINE g == CHOOSE f : Filters(f, s, r)
           Fits(n) == n <= Len(s) => g[n] \in Seq(S) /\ Len(g[n]) <= n
           T == {n \in Nat : Fits(n)}
<1>1. Filters(g, s, r)
  BY FilterExists
<1>2. Without(s, r) = g[Len(s)]
  BY DEF Without, Filters
<1>3. Len(s) \in Nat
  OBVIOUS
<1> HIDE DEF g
<1>4. 0 \in T
  <2>1. g[0] = << >>
    <3>1. 0 \in 0..Len(s)
      BY <1>3
    <3> QED BY <1>1, <3>1 DEF Filters
  <2>2. << >> \in Seq(S) /\ Len(<< >>) = 0
    OBVIOUS
  <2>3. Fits(0)
    BY <2>1, <2>2
  <2> HIDE DEF Fits
  <2> QED BY <2>3
<1>5. ASSUME NEW n \in Nat, n < Len(s), n \in T PROVE n + 1 \in T
  <2>1. g[n] \in Seq(S) /\ Len(g[n]) <= n
    BY <1>3, <1>5
  <2>2. g[n + 1] = IF s[n + 1] = r THEN g[n] ELSE Append(g[n], s[n + 1])
    <3>1. n + 1 \in 0..Len(s) /\ n + 1 # 0 /\ (n + 1) - 1 = n
      BY <1>3, <1>5
    <3> QED BY <1>1, <3>1 DEF Filters
  <2>3. s[n + 1] \in S
    <3>1. n + 1 \in 1..Len(s)
      BY <1>3, <1>5
    <3> QED BY <3>1, ElementOfSeq
  <2>4. Fits(n + 1)
    BY <2>1, <2>2, <2>3
  <2> HIDE DEF Fits
  <2> QED BY <2>4
<1>6. Len(s) \in T
  <2> HIDE DEF T
  <2>1. \A n \in 0..Len(s) : n \in T
    BY <1>3, <1>4, <1>5, UpTo
  <2> QED BY <1>3, <2>1
<1> QED BY <1>2, <1>3, <1>6

-----------------------------------------------------------------------------
(* The box, the requests it remembers and the navigation under way. *)

Boxes == [path : Paths, source : Sources \cup {"all"}, draft : Drafts, submitted : Seq(Requests),
          last : Requests \cup {None}]
Moving == [kind : {"push", "replace", "pop"}, to : Requests]
Leaving == [kind |-> "digest"]

SearchTyped ==
    /\ shown \in Requests /\ box \in Boxes /\ Len(box.submitted) <= MaxRemembered
    /\ pending \in Moving \cup {None, Leaving}
    /\ hist \in Seq(Requests) /\ at \in 1..Len(hist) /\ Len(hist) <= MaxHistory

\* The request under way is one the box remembers, and the last the box asked for is under way
\* or is what the page shows.
OwnRequests ==
    ~stray => /\ pending \in Moving => \E i \in DOMAIN box.submitted : box.submitted[i] = pending.to
              /\ onPage /\ box.last # None => \/ pending = Leaving
                                              \/ pending \in Moving /\ pending.to = box.last
                                              \/ pending = None /\ shown = box.last

SearchInv == SearchTyped /\ OwnRequests

LEMMA KindsApart ==
    /\ None \notin Requests /\ None \notin Moving /\ Leaving \notin Moving /\ None # Leaving
    /\ \A n \in Moving : n.kind \in {"push", "replace", "pop"} /\ n.to \in Requests
    /\ None.kind = "none" /\ Leaving.kind = "digest"
<1>1. None.kind = "none" /\ Leaving.kind = "digest"
  BY DEF None, Leaving
<1>2. \A n \in Moving : n.kind \in {"push", "replace", "pop"} /\ n.to \in Requests
  BY DEF Moving
<1>3. None \notin Requests
  <2>1. DOMAIN None = {"kind"}
    BY DEF None
  <2>2. \A r \in Requests : "path" \in DOMAIN r
    BY DEF Requests
  <2> QED BY <2>1, <2>2
<1> QED BY <1>1, <1>2, <1>3

LEMMA HrefIs ==
    ASSUME NEW p \in Paths, NEW s \in Sources \cup {"all"}, NEW d \in Drafts, NEW n \in Nat \ {0}
    PROVE  BuildLibraryHref(p, s, d, n) \in Requests
BY LibraryAssumption DEF BuildLibraryHref, Requests, Drafts

LEMMA RememberIs ==
    ASSUME NEW sent \in Seq(Requests), Len(sent) <= MaxRemembered, NEW r \in Requests
    PROVE  /\ Remember(sent, r) \in Seq(Requests) /\ Len(Remember(sent, r)) <= MaxRemembered
           /\ \E i \in DOMAIN Remember(sent, r) : Remember(sent, r)[i] = r
<1>1. PICK all : all = Append(sent, r)
  OBVIOUS
<1>2. all \in Seq(Requests) /\ Len(all) = Len(sent) + 1 /\ all[Len(all)] = r /\ Len(sent) \in Nat
  BY <1>1
<1>3. MaxRemembered \in Nat /\ MaxRemembered > 0
  BY LibraryAssumption
<1>4. CASE Len(all) > MaxRemembered
  <2>1. Remember(sent, r) = Tail(all)
    BY <1>1, <1>4 DEF Remember
  <2>2. Tail(all) \in Seq(Requests) /\ Len(Tail(all)) = Len(sent) /\ Len(sent) >= 1
    BY <1>2, <1>3, <1>4
  <2>3. Tail(all)[Len(sent)] = all[Len(sent) + 1]
    BY <1>2, <2>2
  <2> QED BY <1>2, <2>1, <2>2, <2>3
<1>5. CASE ~(Len(all) > MaxRemembered)
  <2>1. Remember(sent, r) = all
    BY <1>1, <1>5 DEF Remember
  <2> QED BY <1>2, <1>3, <1>5, <2>1
<1> QED BY <1>4, <1>5

LEMMA MountIs ==
    ASSUME NEW r \in Requests
    PROVE  MountBox(r) \in Boxes /\ MountBox(r).submitted = << >> /\ MountBox(r).last = None
BY DEF MountBox, Boxes, Requests, Exactly, Drafts

\* A choice of the reader that becomes a navigation at once.
LEMMA PrepareHolds ==
    ASSUME SearchInv, NEW r \in Requests, PrepareLibraryNavigation(r)
    PROVE  SearchInv'
<1>1. /\ box' = Prepared(r) /\ pending' = [kind |-> "push", to |-> r]
      /\ UNCHANGED <<shown, hist, at, onPage, stray>>
  BY DEF PrepareLibraryNavigation
<1>2. pending' \in Moving /\ pending'.to = r
  BY <1>1 DEF Moving
<1>3. /\ box' \in Boxes /\ Len(box'.submitted) <= MaxRemembered /\ box'.last = r
      /\ \E i \in DOMAIN box'.submitted : box'.submitted[i] = r
  <2>1. PICK sent : sent = Remember(box.submitted, r)
    OBVIOUS
  <2>2. box.submitted \in Seq(Requests) /\ Len(box.submitted) <= MaxRemembered
    BY DEF SearchInv, SearchTyped, Boxes
  <2>3. /\ sent \in Seq(Requests) /\ Len(sent) <= MaxRemembered
        /\ \E i \in DOMAIN sent : sent[i] = r
    BY <2>1, <2>2, RememberIs
  <2>4. box' = [path |-> r.path, source |-> r.source, draft |-> Exactly(r.query), submitted |-> sent, last |-> r]
    BY <1>1, <2>1 DEF Prepared
  <2>5. Exactly(r.query) \in Drafts /\ r.path \in Paths /\ r.source \in Sources \cup {"all"}
    BY DEF Exactly, Drafts, Requests
  <2> QED BY <2>3, <2>4, <2>5 DEF Boxes
<1>4. SearchTyped'
  BY <1>1, <1>2, <1>3 DEF SearchInv, SearchTyped
<1>5. OwnRequests'
  BY <1>2, <1>3 DEF OwnRequests
<1> QED BY <1>4, <1>5 DEF SearchInv

LEMMA ReaderHolds ==
    ASSUME SearchInv,
           \/ \E d \in Drafts : TypeDraft(d)
           \/ \E s \in Sources \cup {"all"} : FilterSource(s)
           \/ \E p \in Paths : FollowTopic(p)
           \/ ClearFilters \/ LoadMore \/ OpenDigest \/ FollowLink
           \/ \E i \in DOMAIN hist : SyncHistoryQuery(i)
    PROVE  SearchInv'
<1>1. /\ shown \in Requests /\ box \in Boxes /\ Len(box.submitted) <= MaxRemembered
      /\ hist \in Seq(Requests) /\ at \in 1..Len(hist) /\ Len(hist) <= MaxHistory
  BY DEF SearchInv, SearchTyped
<1>2. /\ shown.path \in Paths /\ shown.query \in Words \cup {Empty} /\ shown.page \in 1..MaxPage
      /\ box.path \in Paths /\ box.source \in Sources \cup {"all"} /\ box.draft \in Drafts
      /\ "all" \in Sources \cup {"all"} /\ Exactly(shown.query) \in Drafts /\ Exactly(Empty) \in Drafts
      /\ 1 \in Nat \ {0}
  BY <1>1 DEF Requests, Boxes, Exactly, Drafts
<1>3. ASSUME NEW d \in Drafts, TypeDraft(d) PROVE SearchInv'
  <2>1. /\ box' = [box EXCEPT !.draft = d, !.last = None] /\ UNCHANGED <<shown, pending, hist, at, onPage, stray>>
    BY <1>3 DEF TypeDraft
  <2>2. box' \in Boxes /\ box'.submitted = box.submitted /\ box'.last = None
    BY <1>1, <2>1 DEF Boxes
  <2> QED BY <2>1, <2>2 DEF SearchInv, SearchTyped, OwnRequests
<1>4. ASSUME NEW s \in Sources \cup {"all"}, FilterSource(s) PROVE SearchInv'
  BY <1>2, <1>4, HrefIs, PrepareHolds DEF FilterSource
<1>5. ASSUME NEW p \in Paths, FollowTopic(p) PROVE SearchInv'
  BY <1>2, <1>5, HrefIs, PrepareHolds DEF FollowTopic
<1>6. CASE ClearFilters
  BY <1>2, <1>6, HrefIs, PrepareHolds DEF ClearFilters
<1>7. CASE LoadMore
  <2>1. shown.page + 1 \in Nat \ {0}
    BY <1>2, LibraryAssumption
  <2> QED BY <1>2, <1>7, <2>1, HrefIs, PrepareHolds DEF LoadMore
<1>8. CASE OpenDigest
  <2>1. /\ box' = [box EXCEPT !.last = NextHref] /\ pending' = Leaving
        /\ UNCHANGED <<shown, hist, at, onPage, stray>>
    BY <1>8 DEF OpenDigest, Leaving
  <2>2. NextHref \in Requests
    BY <1>2, HrefIs DEF NextHref
  <2>3. box' \in Boxes /\ box'.submitted = box.submitted
    BY <1>1, <2>1, <2>2 DEF Boxes
  <2> QED BY <2>1, <2>3, KindsApart DEF SearchInv, SearchTyped, OwnRequests
<1>9. CASE FollowLink
  <2>1. PICK r : r = BuildLibraryHref(Home, "all", Exactly(Empty), 1)
    OBVIOUS
  <2>2. /\ pending' = [kind |-> "push", to |-> r] /\ stray' = TRUE
        /\ UNCHANGED <<shown, box, hist, at, onPage>>
    BY <1>9, <2>1 DEF FollowLink
  <2>3. r \in Requests
    BY <1>2, <2>1, HrefIs, LibraryAssumption
  <2> QED BY <2>2, <2>3 DEF SearchInv, SearchTyped, OwnRequests, Moving
<1>10. ASSUME NEW i \in DOMAIN hist, SyncHistoryQuery(i) PROVE SearchInv'
  <2>1. PICK r : r = hist[i]
    OBVIOUS
  <2>2. /\ at' = i /\ pending' = [kind |-> "pop", to |-> r]
        /\ box' = [path |-> r.path, source |-> r.source, draft |-> Exactly(r.query),
                   submitted |-> <<r>>, last |-> r]
        /\ UNCHANGED <<shown, hist, onPage, stray>>
    BY <1>10, <2>1 DEF SyncHistoryQuery
  <2>3. r \in Requests /\ i \in 1..Len(hist)
    BY <1>1, <2>1
  <2>4. box' \in Boxes /\ Len(box'.submitted) <= MaxRemembered /\ box'.submitted = <<r>> /\ box'.last = r
    BY <2>2, <2>3, LibraryAssumption DEF Boxes, Requests, Exactly, Drafts
  <2>5. pending' \in Moving /\ pending'.to = r
    BY <2>2, <2>3 DEF Moving
  <2>6. OwnRequests'
    BY <2>4, <2>5 DEF OwnRequests
  <2> QED BY <1>1, <2>2, <2>3, <2>4, <2>5, <2>6 DEF SearchInv, SearchTyped
<1> QED BY <1>3, <1>4, <1>5, <1>6, <1>7, <1>8, <1>9, <1>10

LEMMA SearchFiresHolds ==
    ASSUME SearchInv, SearchFires
    PROVE  SearchInv'
<1>1. box \in Boxes /\ Len(box.submitted) <= MaxRemembered
  BY DEF SearchInv, SearchTyped
<1>2. NextHref \in Requests
  BY <1>1, HrefIs DEF NextHref, Boxes
<1>3. PICK sent : sent = Remember(box.submitted, NextHref)
  OBVIOUS
<1>4. /\ box' = [box EXCEPT !.submitted = sent, !.last = NextHref]
      /\ pending' = [kind |-> "replace", to |-> NextHref]
      /\ UNCHANGED <<shown, hist, at, onPage, stray>>
  BY <1>3 DEF SearchFires
<1>5. /\ sent \in Seq(Requests) /\ Len(sent) <= MaxRemembered
      /\ \E i \in DOMAIN sent : sent[i] = NextHref
  BY <1>1, <1>2, <1>3, RememberIs DEF Boxes
<1>6. box' \in Boxes /\ box'.submitted = sent /\ box'.last = NextHref
  BY <1>1, <1>2, <1>4, <1>5 DEF Boxes
<1>7. pending' \in Moving /\ pending'.to = NextHref
  BY <1>2, <1>4 DEF Moving
<1> QED BY <1>4, <1>5, <1>6, <1>7 DEF SearchInv, SearchTyped, OwnRequests

\* What a committed navigation makes of the box.
LEMMA RenderedIs ==
    ASSUME SearchInv, NEW r \in Requests
    PROVE  /\ Rendered(r) \in Boxes /\ Len(Rendered(r).submitted) <= MaxRemembered
           /\ Rendered(r).last \in {box.last, None}
           /\ r.path = shown.path /\ (\E i \in DOMAIN box.submitted : box.submitted[i] = r)
                => Rendered(r).draft = box.draft /\ Rendered(r).source = box.source
<1>1. box \in Boxes /\ Len(box.submitted) <= MaxRemembered /\ box.submitted \in Seq(Requests)
  BY DEF SearchInv, SearchTyped, Boxes
<1>2. MaxRemembered \in Nat
  BY LibraryAssumption
<1>3. Len(<< >>) <= MaxRemembered
  BY <1>2
<1>4. CASE r = shown
  BY <1>1, <1>4 DEF Rendered
<1>5. CASE r # shown /\ r.path # shown.path
  <2>1. Rendered(r) = MountBox(r)
    BY <1>5 DEF Rendered
  <2> QED BY <1>3, <1>5, <2>1, MountIs
<1>6. CASE r # shown /\ r.path = shown.path
  <2>1. Rendered(r) = Observe(r)
    BY <1>6 DEF Rendered
  <2>2. CASE \E i \in DOMAIN box.submitted : box.submitted[i] = r
    <3>1. PICK sent : sent = Without(box.submitted, r)
      OBVIOUS
    <3>2. Rendered(r) = [box EXCEPT !.submitted = sent]
      BY <2>1, <2>2, <3>1 DEF Observe
    <3>3. sent \in Seq(Requests) /\ Len(sent) <= Len(box.submitted) /\ Len(sent) \in Nat /\ Len(box.submitted) \in Nat
      BY <1>1, <3>1, WithoutIs
    <3> QED BY <1>1, <1>2, <3>2, <3>3 DEF Boxes
  <2>3. CASE ~ \E i \in DOMAIN box.submitted : box.submitted[i] = r
    <3>1. Rendered(r) = MountBox(r)
      BY <2>1, <2>3 DEF Observe
    <3> QED BY <1>3, <2>3, <3>1, MountIs
  <2> QED BY <2>2, <2>3
<1> QED BY <1>4, <1>5, <1>6

LEMMA CommitIs ==
    ASSUME SearchInv, Commit
    PROVE  SearchInv' /\ (~stray /\ shown'.path = shown.path => box'.draft = box.draft /\ box'.source = box.source)
<1>1. /\ box \in Boxes /\ hist \in Seq(Requests) /\ at \in 1..Len(hist) /\ Len(hist) <= MaxHistory
      /\ pending \in Moving \cup {None, Leaving}
  BY DEF SearchInv, SearchTyped
<1>2. pending \in Moving /\ pending.to \in Requests
  BY <1>1, KindsApart DEF Commit
<1>3. /\ pending.kind = "push" => at < MaxHistory
      /\ hist' = Entered(pending) /\ at' = (IF pending.kind = "push" THEN at + 1 ELSE at)
      /\ shown' = pending.to /\ box' = Rendered(pending.to) /\ pending' = None
      /\ UNCHANGED <<onPage, stray>>
  BY DEF Commit
<1>4. /\ box' \in Boxes /\ Len(box'.submitted) <= MaxRemembered
      /\ box'.last \in {box.last, None}
      /\ pending.to.path = shown.path /\ (\E i \in DOMAIN box.submitted : box.submitted[i] = pending.to)
           => box'.draft = box.draft /\ box'.source = box.source
  BY <1>2, <1>3, RenderedIs
<1>5. hist' \in Seq(Requests) /\ at' \in 1..Len(hist') /\ Len(hist') <= MaxHistory
  <2>1. CASE pending.kind = "push"
    <3>1. PICK h : h = SubSeq(hist, 1, at)
      OBVIOUS
    <3>2. h \in Seq(Requests) /\ Len(h) = at
      BY <1>1, <3>1, SubSeqProperties
    <3>3. hist' = Append(h, pending.to) /\ at' = at + 1
      BY <1>3, <2>1, <3>1 DEF Entered
    <3>4. Append(h, pending.to) \in Seq(Requests) /\ Len(Append(h, pending.to)) = at + 1
      BY <1>1, <1>2, <3>2
    <3>5. at \in Nat /\ at < MaxHistory /\ MaxHistory \in Nat
      BY <1>1, <1>3, <2>1, LibraryAssumption
    <3> QED BY <3>3, <3>4, <3>5
  <2>2. CASE pending.kind = "replace"
    <3>1. hist' = [hist EXCEPT ![at] = pending.to] /\ at' = at
      BY <1>3, <2>2 DEF Entered
    <3>2. hist' \in Seq(Requests) /\ Len(hist') = Len(hist)
      BY <1>1, <1>2, <3>1
    <3> QED BY <1>1, <3>1, <3>2
  <2>3. CASE pending.kind = "pop"
    BY <1>1, <1>3, <2>3 DEF Entered
  <2> QED BY <1>2, <2>1, <2>2, <2>3, KindsApart
<1>6. SearchTyped'
  BY <1>2, <1>3, <1>4, <1>5 DEF SearchTyped
<1>7. OwnRequests'
  BY <1>2, <1>3, <1>4, KindsApart DEF SearchInv, OwnRequests
<1>8. ~stray => \E i \in DOMAIN box.submitted : box.submitted[i] = pending.to
  BY <1>2 DEF SearchInv, OwnRequests
<1> QED BY <1>3, <1>4, <1>6, <1>7, <1>8 DEF SearchInv

LEMMA LeaveHolds ==
    ASSUME SearchInv, Leave
    PROVE  SearchInv'
BY KindsApart DEF SearchInv, SearchTyped, OwnRequests, Leave

LEMMA SearchStarts ==
    ASSUME LibraryInit
    PROVE  SearchInv
<1>1. shown \in Requests /\ box = MountBox(shown) /\ pending = None /\ hist = <<shown>> /\ at = 1
  BY DEF LibraryInit
<1>2. box \in Boxes /\ Len(box.submitted) <= MaxRemembered /\ box.last = None
  BY <1>1, MountIs, LibraryAssumption
<1>3. hist \in Seq(Requests) /\ Len(hist) = 1 /\ at \in 1..Len(hist) /\ Len(hist) <= MaxHistory
  BY <1>1, LibraryAssumption
<1> QED BY <1>1, <1>2, <1>3, KindsApart DEF SearchInv, SearchTyped, OwnRequests

LEMMA SearchSteps ==
    ASSUME SearchInv, [LibraryNext]_libraryVars
    PROVE  SearchInv'
<1>1. CASE UNCHANGED libraryVars
  BY <1>1 DEF libraryVars, SearchInv, SearchTyped, OwnRequests
<1> QED BY <1>1, ReaderHolds, SearchFiresHolds, CommitIs, LeaveHolds DEF LibraryNext

\* At rest the page answers the box.
LEMMA RestAgrees ==
    ASSUME SearchInv
    PROVE  LibraryTypeOK /\ ListAnswersBox
<1>1. LibraryTypeOK
  BY DEF SearchInv, SearchTyped, LibraryTypeOK, Boxes
<1>2. ASSUME onPage, pending = None, ~Due, ~stray PROVE IsCurrentSearch
  <2>1. CASE NextHref = box.last
    <3>1. box \in Boxes
      BY DEF SearchInv, SearchTyped
    <3>2. NextHref \in Requests
      BY <3>1, HrefIs DEF NextHref, Boxes
    <3>3. shown = NextHref
      BY <1>2, <2>1, <3>2, KindsApart DEF SearchInv, OwnRequests
    <3> QED BY <3>3 DEF IsCurrentSearch, NextHref, BuildLibraryHref
  <2> QED BY <1>2, <2>1 DEF Due
<1> QED BY <1>1, <1>2 DEF ListAnswersBox

\* Searches, filters and history entries that overtake each other leave the box and the list
\* in agreement, and the newer choice standing (CommunityTemplates.tsx:655-743), for any memory
\* of requests and any length of the history.
THEOREM BoxAgrees == LibrarySpec => BoxAndListAgree
<1>1. LibraryInit => SearchInv
  BY SearchStarts
<1>2. SearchInv /\ [LibraryNext]_libraryVars => SearchInv'
  BY SearchSteps
<1>3. SearchInv => LibraryTypeOK /\ ListAnswersBox
  BY RestAgrees
<1>4. SearchInv /\ [LibraryNext]_libraryVars =>
        [(Commit /\ ~stray /\ shown'.path = shown.path) =>
           (box'.draft = box.draft /\ box'.source = box.source)]_libraryVars
  BY CommitIs
<1> QED BY <1>1, <1>2, <1>3, <1>4, PTL DEF LibrarySpec, BoxAndListAgree, NewerChoiceKept
=============================================================================
