------------------------------ MODULE TaskCard ------------------------------
(***************************************************************************)
(* What the card of a video task shows (TaskDataGroup.tsx).  TaskLive has  *)
(* the rows on their way to it; here they arrive, and the card makes one   *)
(* face of the task's row, of the summaries and the audio it has read, of  *)
(* the language of the page, and of its own memory.  The local demo takes  *)
(* the place of the database with two timers.                              *)
(***************************************************************************)
EXTENDS Naturals, Sequences, SequencesExt

CONSTANTS
    CardTexts,      \* texts quoted as evidence, "" and "0:10" among them
    MaxEvidence,    \* the longest list of quotes a summary carries
    EvidenceShown,  \* collectEvidence: how many of them a card lists
    MaxCardSteps    \* bound: changes of the row, the outputs or the language

ASSUME TaskCardAssumption ==
    /\ {MaxEvidence, MaxCardSteps} \subseteq Nat
    /\ EvidenceShown \in Nat \ {0}

Pages    == {"en", "zh"}
Tags     == {"en", "zh", "zh-CN", "unset"}
NoValue  == "none"
Language == [x \in Tags \cup {NoValue} |-> IF x = "zh-CN" THEN "zh" ELSE x]
\* The language a summary says it is in, for one stored without a locale.
Spoken   == [Language EXCEPT !["unset"] = "en"]
\* getStageLabel: a task that is processing is in one of three stages.
Going    == {"pending", "ingest", "transcribe", "summarize"}
\* Failures with a message, without one, and the two of the source.
Failures == {"failed", "silent", "captions", "unsupported"}
CardRow  == [st : Going \cup Failures \cup {"completed"}, title : BOOLEAN, url : {"none", "embed", "other"}]
\* An output of the task: a summary in a language, one that does not parse, or the audio.
Outputs  == [kind : {"summary"}, tag : Tags, ok : {TRUE}]
            \cup {[kind |-> "summary", tag |-> "zh", ok |-> FALSE], [kind |-> "audio", tag |-> "unset", ok |-> TRUE]}

VARIABLES
    mode,       \* "live"; "example", the published one of the landing page; and when
                \* isLocalUiDemo, "demo" and "landing" (that example again)
    seedError,  \* the snapshot the card was mounted with has an error message
    lang,       \* the locale of the page
    cardRow,    \* the snapshot the card resolves from its seed and the live row
    outputs,    \* the rows of task_outputs, newest first
    reads,      \* refreshes: the locale of their effect, whether it was cleaned up, what was read
    shownSummary, shownAudio,
    timers,     \* the demo's timers that are set
    viewed,     \* how often task_result_view was recorded
    quotes,     \* the evidence of the summary, in the order of its key points and blocks
    cardSteps

cardVars == <<mode, seedError, lang, cardRow, outputs, reads, shownSummary, shownAudio, timers, viewed, quotes, cardSteps>>

NoSummary == [lang |-> NoValue, tag |-> NoValue, from |-> << >>]

CardTypeOK ==
    /\ mode \in {"live", "example", "demo", "landing"} /\ lang \in Pages /\ cardRow \in CardRow
    /\ seedError \in BOOLEAN
    /\ outputs \in Seq(Outputs) /\ shownAudio \in BOOLEAN /\ viewed \in Nat
    /\ \A r \in reads : r.lang \in Pages /\ r.cancelled \in BOOLEAN
    /\ shownSummary.lang \in Pages \cup {NoValue} /\ shownSummary.tag \in Tags \cup {NoValue}
    /\ timers \subseteq {"metadata", "summary"} /\ cardSteps \in 0..MaxCardSteps

Step == cardSteps < MaxCardSteps /\ cardSteps' = cardSteps + 1

-----------------------------------------------------------------------------
(* The summary of a card. *)

ValidSummaries(rows) == SelectSeq(rows, LAMBDA o : o.kind = "summary" /\ o.ok)
FirstWhere(rows, P(_)) == SelectSeq(rows, P)[1].tag
Has(rows, P(_)) == \E i \in DOMAIN rows : P(rows[i])

\* Mutant: the newest summary, whatever its language.
PickNewest(rows, locale) ==
    LET valid == ValidSummaries(rows) IN IF valid = << >> THEN NoValue ELSE valid[1].tag

\* pickPreferredSummaryOutput: the locale itself, its language, the canonical
\* summary, the newest.
PickPreferred(rows, locale) ==
    LET valid == ValidSummaries(rows)
        exact(o) == o.tag = locale
        near(o)  == Language[o.tag] = locale
        plain(o) == o.tag = "unset"
    IN  CASE Has(valid, exact) -> FirstWhere(valid, exact)
          [] Has(valid, near) /\ ~ Has(valid, exact) -> FirstWhere(valid, near)
          [] Has(valid, plain) /\ ~ Has(valid, near) /\ ~ Has(valid, exact) -> "unset"
          [] valid = << >> -> NoValue
          [] OTHER -> valid[1].tag

\* matchPublicSummaryOutput, for the example: the language of the page or none.
PickPublished(rows, locale) ==
    LET spoken(o) == Spoken[o.tag] = locale
        valid     == ValidSummaries(rows)
    IN  IF Has(valid, spoken) THEN FirstWhere(valid, spoken) ELSE NoValue

FromDatabase == mode \in {"live", "example"}
Picked(rows, locale) == IF mode = "example" THEN PickPublished(rows, locale) ELSE PickPreferred(rows, locale)

\* Mutant: the summary read for the language the page had before stays.
SummaryOfAnyLanguage == IF mode = "landing" THEN lang ELSE shownSummary.tag

\* useTaskOutputs hands out the summary of this locale only; the demo has one
\* of its own, and its landing example is published in both languages.
Summary == IF mode = "landing" THEN lang
           ELSE IF FromDatabase /\ shownSummary.lang # lang THEN NoValue ELSE shownSummary.tag

NewRead(locale) == [lang |-> locale, cancelled |-> FALSE, rows |-> {}]

\* The effect of useTaskOutputs for a locale: the reads of the one before are
\* cancelled, and a first one begins.
OutputsEffect(locale) ==
    {[r EXCEPT !.cancelled = TRUE] : r \in reads} \cup IF FromDatabase THEN {NewRead(locale)} ELSE {}

ReadOutputs(r) ==
    /\ r.rows = {}
    /\ reads' = (reads \ {r}) \cup {[r EXCEPT !.rows = {outputs}]}
    /\ UNCHANGED <<mode, seedError, lang, cardRow, outputs, shownSummary, shownAudio, timers, viewed, quotes, cardSteps>>

-----------------------------------------------------------------------------
(* The evidence list. *)

Quotes == UNION {[1..n -> CardTexts] : n \in 0..MaxEvidence}

\* isStandaloneTimestamp and the empty text quote nothing.
Quotable(q) == q \notin {"", "0:10"}

\* Mutant: every quote is listed.
QuotesAll(qs) == SelectSeq(qs, Quotable)

\* collectEvidence: each text once, where it comes first, and no more than fit.
Collected(qs) ==
    LET add(seen, q) == IF Quotable(q) /\ ~ Contains(seen, q) THEN Append(seen, q) ELSE seen
        all == FoldLeft(add, << >>, qs)
    IN  SubSeq(all, 1, IF Len(all) < EvidenceShown THEN Len(all) ELSE EvidenceShown)

-----------------------------------------------------------------------------
(* The face of the card. *)

Failed     == cardRow.st \in Failures
\* Only what the source itself does not offer is not worth a retry. (The chat page, the one place
\* of the card, always has an onRetryTask: ChatContainer.tsx:501, 512.)
CanRetry   == cardRow.st \in {"failed", "silent"}
SafeError  == Failed /\ cardRow.st # "silent"
\* A player needs something to play, and a source or a result to name.
ShowPlayer == (cardRow.url = "embed" \/ shownAudio) /\ (cardRow.title \/ cardRow.st = "completed")

\* The parts of the card, in the order of its JSX.
Face ==
    LET has(p) == CASE p = "player"   -> ShowPlayer
                    [] p = "title"    -> ~ ShowPlayer
                    [] p = "stage"    -> ~ ShowPlayer \/ (Summary = NoValue /\ cardRow.st # "completed" /\ ~ SafeError)
                    [] p = "failure"  -> Failed
                    [] p = "retry"    -> CanRetry
                    [] p = "lead"     -> Summary # NoValue
                    [] p = "evidence" -> Summary # NoValue /\ Collected(quotes) # << >>
                    [] p = "empty"    -> cardRow.st = "completed" /\ Summary = NoValue
    IN  IF cardRow.url = "none" THEN {}
        ELSE {p \in {"player", "title", "stage", "failure", "retry", "lead", "evidence", "empty"} : has(p)}

\* Mutant: every change under a finished summary is recorded.
TrackEach == viewed' = IF FromDatabase /\ cardRow'.st = "completed" /\ Summary' # NoValue THEN viewed + 1 ELSE viewed

\* The effect that records task_result_view, once for a card.
Track == viewed' = IF FromDatabase /\ cardRow'.st = "completed" /\ Summary' # NoValue THEN 1 ELSE viewed

-----------------------------------------------------------------------------
ReadArrives(r) ==
    /\ r.rows # {} /\ reads' = reads \ {r}
    /\ \E rows \in r.rows :
           IF r.cancelled THEN UNCHANGED <<shownSummary, shownAudio>>
           ELSE /\ shownSummary' = [lang |-> r.lang, tag |-> Picked(rows, r.lang), from |-> rows]
                /\ shownAudio' = \E i \in DOMAIN rows : rows[i].kind = "audio" /\ rows[i].ok
    /\ UNCHANGED <<mode, seedError, lang, cardRow, outputs, timers, quotes, cardSteps>>
    /\ Track

\* A read fails: supabase answers without data.
ReadFails(r) ==
    /\ reads' = reads \ {r}
    /\ UNCHANGED <<mode, seedError, lang, cardRow, outputs, shownSummary, shownAudio, timers, viewed, quotes, cardSteps>>

\* An output is stored, and the channel makes the card read again.
OutputStored(o) ==
    /\ FromDatabase /\ Step
    /\ outputs' = <<o>> \o SelectSeq(outputs, LAMBDA p : p.kind # o.kind \/ p.tag # o.tag)
    /\ reads' = reads \cup {NewRead(lang)}
    /\ UNCHANGED <<mode, seedError, lang, cardRow, shownSummary, shownAudio, timers, viewed, quotes>>

\* The order a task's rows come in: its stages, its end, and a retry.
Follows(a, b) ==
    \/ a \in Going /\ b \in Failures \cup {"completed", "ingest", "transcribe", "summarize"}
    \/ a \in {"failed", "silent"} /\ b = "pending"

\* A row arrives, by an event or a read; what it lacks the seed supplies, the error message too.
RowArrives(r) ==
    /\ FromDatabase /\ Step
    /\ Follows(cardRow.st, r.st) /\ r.url = cardRow.url /\ (cardRow.title => r.title)
    /\ cardRow' = IF r.st = "silent" /\ seedError THEN [r EXCEPT !.st = "failed"] ELSE r
    /\ UNCHANGED <<mode, seedError, lang, outputs, reads, shownSummary, shownAudio, timers, quotes>>
    /\ Track

\* useLocalDemoArtifact sets its two timers for a task with a video.
DemoTimers == IF mode = "demo" /\ cardRow.url # "none" THEN {"metadata", "summary"} ELSE {}

\* The page changes its language: the effects are cleaned up and run again.
SwitchLanguage ==
    /\ Step
    /\ \E l \in Pages \ {lang} : lang' = l /\ reads' = OutputsEffect(l)
    /\ timers' = DemoTimers
    /\ UNCHANGED <<mode, seedError, cardRow, outputs, shownSummary, shownAudio, quotes>>
    /\ Track

\* The first timer is due before the second.
MetadataTimer ==
    /\ "metadata" \in timers /\ timers' = timers \ {"metadata"}
    /\ cardRow' = [cardRow EXCEPT !.st = "transcribe", !.title = TRUE]
    /\ UNCHANGED <<mode, seedError, lang, outputs, reads, shownSummary, shownAudio, viewed, quotes, cardSteps>>

SummaryTimer ==
    /\ timers = {"summary"} /\ timers' = {}
    /\ cardRow' = [cardRow EXCEPT !.st = "completed", !.title = TRUE]
    /\ shownSummary' = [lang |-> lang, tag |-> lang, from |-> << >>]
    /\ UNCHANGED <<mode, seedError, lang, outputs, reads, shownAudio, viewed, quotes, cardSteps>>

TaskCardInit ==
    /\ mode \in {"live", "example", "demo", "landing"} /\ lang \in Pages
    /\ cardRow \in {r \in CardRow : ~ r.title /\ r.st \in {"pending", "completed", "failed", "captions"}}
    /\ seedError = (cardRow.st \in Failures \ {"silent"})
    /\ outputs = << >> /\ reads = (IF FromDatabase THEN {NewRead(lang)} ELSE {})
    /\ shownSummary = NoSummary /\ shownAudio = FALSE /\ timers = DemoTimers
    /\ viewed = 0 /\ cardSteps = 0
    /\ quotes \in Quotes /\ (mode # "landing" => quotes = << >>)

TaskCardNext ==
    \/ \E r \in reads : ReadOutputs(r) \/ ReadArrives(r) \/ ReadFails(r)
    \/ \E o \in Outputs : OutputStored(o)
    \/ \E r \in CardRow : RowArrives(r)
    \/ SwitchLanguage \/ MetadataTimer \/ SummaryTimer

TaskCardSpec == TaskCardInit /\ [][TaskCardNext]_cardVars

-----------------------------------------------------------------------------
(* Properties. *)

\* Whatever has arrived of a task and in whatever order, its card names the source once, says
\* where a running task stands, why a failed one failed and whether a retry can help, and of a
\* completed one shows the summary or that there is none (TaskDataGroup.tsx:490-647).
CardSpeaks ==
    \/ cardRow.url = "none" /\ Face = {}
    \/ /\ ("player" \in Face) # ("title" \in Face)
       /\ cardRow.st \in Going => {"stage", "lead"} \cap Face # {} /\ {"failure", "retry", "empty"} \cap Face = {}
       /\ Failed => "failure" \in Face /\ ("retry" \in Face <=> cardRow.st \notin {"captions", "unsupported"})
       /\ cardRow.st = "completed" => ("lead" \in Face) # ("empty" \in Face)

\* A summary in another language than the page's is shown only when the outputs read hold no
\* valid one in the page's, and of the example never: no read begun for the language before and
\* no summary kept from it stands in (useTaskOutputs, pickPreferredSummaryOutput).
LanguageKept ==
    FromDatabase /\ Summary # NoValue =>
        \/ Spoken[Summary] = lang
        \/ /\ mode = "live"
           /\ \A i \in DOMAIN shownSummary.from :
                 LET o == shownSummary.from[i] IN o.kind = "summary" /\ o.ok => Language[o.tag] # lang

\* The evidence lists each quote once, in the order of the summary, without bare timestamps,
\* and leaves one out only when the list is full (collectEvidence).
EvidenceListed ==
    LET shown == Collected(quotes)
        first(t) == CHOOSE i \in DOMAIN quotes : quotes[i] = t /\ \A j \in 1..(i - 1) : quotes[j] # t
    IN  /\ Len(shown) <= EvidenceShown
        /\ \A i \in DOMAIN shown : shown[i] \in Range(quotes) /\ Quotable(shown[i])
        /\ \A i, j \in DOMAIN shown : i < j => first(shown[i]) < first(shown[j])
        /\ Len(shown) < EvidenceShown => \A i \in DOMAIN quotes : Quotable(quotes[i]) => quotes[i] \in Range(shown)

\* A result is counted as seen at most once and never in the demo (task_result_view).
SeenOnce == viewed <= 1 /\ (viewed = 1 => FromDatabase)

\* The card of a task is honest about it (TaskDataGroup.tsx).
CardIsHonest == CardTypeOK /\ CardSpeaks /\ LanguageKept /\ EvidenceListed /\ SeenOnce
=============================================================================
