---------------------------- MODULE SourceIndex ----------------------------
(***************************************************************************)
(* The index the agent searches and reads a transcript through             *)
(* (lib/agent/source-index.ts): the loop that reads the lines and time      *)
(* marks of a transcript into passages, the loop that cuts a paragraph of   *)
(* one into overlapping segments, the ranking of a search, the neighbours   *)
(* of a segment, and the loop that reads segments within a budget.          *)
(* A line is its time mark, if it begins with one, and whether it has words *)
(* beside it; a segment of a raw transcript has numbers for its times.      *)
(* A character is what the loops look at: an ordinary one ("x"), a space or *)
(* line break (" "), a full stop of a text without spaces ("."), or one of  *)
(* the two halves of a character beyond 16 bits ("h", "l").                 *)
(***************************************************************************)
EXTENDS Integers, Sequences
LOCAL INSTANCE SequencesExt
LOCAL INSTANCE FiniteSetsExt

CONSTANTS
    Scripts,        \* the transcripts in plain text, lines with a clock or << >>
    RawScripts,     \* the transcripts of timed segments
    Paragraphs,     \* the paragraphs a transcript may hold
    Segment,        \* SEGMENT_CHARACTERS (1800 in the code)
    Overlap,        \* CHUNK_OVERLAP (160)
    MaxHits,        \* MAX_TOOL_SEARCH_RESULTS (8)
    Budgets         \* what is left of the characters a run may read

\* Overlapping segments move on: half a segment is longer than the overlap and
\* a half character.
ASSUME SourceIndexAssumption ==
    /\ Overlap \in Nat /\ Segment \in Nat /\ Segment \div 2 > Overlap
    /\ Overlap > 0 /\ MaxHits \in Nat /\ Budgets \subseteq Nat

NoTime == -1    \* undefined, or no number from 0 on

VARIABLES
    phase,      \* "lines", "raw", "parsed", "split", "ask", "read" or "told"
    script,     \* the transcript
    start, held,\* the last time mark of the lines read, and the lines since
    passages,   \* the passages made of them
    text,       \* the paragraph
    from,       \* start of the loop of splitText
    segments,   \* the segments cut so far, as intervals [from, to] of the paragraph
    wanted,     \* the segments a tool returns, in its order
    next,       \* the one readSource looks at
    left, budget,   \* characters left, and at the start of the read
    evidence       \* the evidence: position of each segment and characters of it

parseVars == <<script, start, held, passages>>
sourceVars == <<phase, parseVars, text, from, segments, wanted, next, left, budget, evidence>>

Length(s) == s.to - s.from + 1

-----------------------------------------------------------------------------
\* clockSeconds: the minutes of a clock without hours have no bound.  A clock that is
\* none is text.
ClockSeconds(clock) ==
    IF clock = << >> \/ Last(clock) >= 60 \/ (Len(clock) = 3 /\ clock[2] >= 60) THEN NoTime
    ELSE FoldLeft(LAMBDA t, n : t * 60 + n, 0, clock)

HasWords(line) == line.words \/ (line.clock # << >> /\ ClockSeconds(line.clock) = NoTime)

\* flush: the lines held are a passage if they have words.
FlushPassage ==
    IF \E k \in DOMAIN held : HasWords(script[held[k]])
    THEN Append(passages, [start |-> start, end |-> NoTime, lines |-> held]) ELSE passages

\* One turn of the loop of parsePlainText: a time mark ends the passage before it.
ParseLine ==
    /\ phase = "lines" /\ next \in DOMAIN script
    /\ LET time == ClockSeconds(script[next].clock) IN
         IF time = NoTime
         THEN held' = Append(held, next) /\ UNCHANGED <<start, passages>>
         ELSE /\ passages' = FlushPassage /\ start' = time
              /\ held' = IF script[next].words THEN <<next>> ELSE << >>
    /\ next' = next + 1
    /\ UNCHANGED <<phase, script, text, from, segments, wanted, left, budget, evidence>>

LinesEnd ==
    /\ phase = "lines" /\ next \notin DOMAIN script
    /\ passages' = FlushPassage /\ phase' = "parsed"
    /\ UNCHANGED <<script, start, held, text, from, segments, wanted, next, left, budget, evidence>>

\* The end a segment of a raw transcript is given: its own, or that of its duration,
\* and never before its start.
RawEnd(s) ==
    LET end == IF s.end # NoTime THEN s.end
               ELSE IF s.start # NoTime /\ s.duration # NoTime THEN s.start + s.duration ELSE NoTime
    IN  IF end = NoTime THEN NoTime ELSE Max({end, s.start, 0})

\* parseRawSegments: each segment with words is a passage.
ParseRaw ==
    /\ phase = "raw" /\ phase' = "parsed"
    /\ LET kept == SelectSeq([i \in DOMAIN script |-> i], LAMBDA i : script[i].words)
       IN  passages' = [k \in DOMAIN kept |->
                          [start |-> script[kept[k]].start, end |-> RawEnd(script[kept[k]]), lines |-> <<kept[k]>>]]
    /\ UNCHANGED <<script, start, held, text, from, segments, wanted, next, left, budget, evidence>>

\* splitText takes a paragraph of one of the passages, trimmed and not empty.  What it cuts
\* keeps the times of the passage, which are left out from here.
SplitText ==
    /\ phase = "parsed" /\ passages # << >>
    /\ phase' = "split" /\ next' = 1
    /\ text' \in {t \in Paragraphs : t # << >> /\ t[1] # " " /\ t[Len(t)] # " "}
    /\ script' = << >> /\ passages' = << >> /\ held' = << >> /\ start' = NoTime
    /\ UNCHANGED <<from, segments, wanted, left, budget, evidence>>

-----------------------------------------------------------------------------
\* safeEnd: the number of characters to take, one less if the cut would fall
\* inside a character.  Positions count from 1: the first n characters.
SafeEnd(n) == IF n \in DOMAIN text /\ n + 1 \in DOMAIN text /\ text[n] = "h" /\ text[n + 1] = "l" THEN n - 1 ELSE n

\* Where the text from a to e may be cut: before its last space, or after its
\* last full stop.
Boundary(a, e) ==
    LET spaces == {i - a : i \in {j \in a..e : text[j] = " "}}
        stops  == {i - a + 1 : i \in {j \in a..e : text[j] = "."}}
    IN  Max({-1, 0} \cup spaces \cup stops)

\* The end of the segment that starts after the first n characters.
SegmentEnd(n) ==
    LET e == SafeEnd(Min({n + Segment, Len(text)}))
        b == Boundary(n + 1, e)
    IN  IF e < Len(text) /\ 2 * b > Segment THEN n + b ELSE e

\* The segment without the spaces at its ends; none if nothing else is left.
Trimmed(a, e) ==
    LET solid == {i \in a..e : text[i] # " "}
    IN  IF solid = {} THEN <<>> ELSE <<[from |-> Min(solid), to |-> Max(solid)]>>

\* The mutant that cuts a character at the start of a segment.
NextStartRaw(e) == e - Overlap
NextStart(e) == SafeEnd(e - Overlap)

\* One turn of the loop of splitText.
SplitStep ==
    /\ phase = "split"
    /\ LET e == SegmentEnd(from) IN
         /\ segments' = segments \o Trimmed(from + 1, e)
         /\ IF e = Len(text) THEN phase' = "ask" /\ UNCHANGED from
                             ELSE from' = NextStart(e) /\ UNCHANGED phase
    /\ UNCHANGED <<parseVars, text, wanted, next, left, budget, evidence>>

-----------------------------------------------------------------------------
\* terms and the score of a segment: how much it shares with the query, whatever that is.
Scores == [DOMAIN segments -> 0..2]

\* searchSource: the matching segments by score, the earlier first among
\* equals, at most MaxHits.  Scores of zero are no match.
SearchSource(score) ==
    LET hits == {k \in DOMAIN segments : score[k] > 0}
        best == SetToSortSeq(hits, LAMBDA a, b : score[a] > score[b] \/ (score[a] = score[b] /\ a < b))
    IN  SubSeq(best, 1, Min({MaxHits, Len(best)}))

\* sourceContext: each known segment with its neighbours, each once.
SourceContext(ids) ==
    LET around == [i \in DOMAIN ids |-> SelectSeq(<<ids[i] - 1, ids[i], ids[i] + 1>>, LAMBDA k : k \in DOMAIN segments)]
        all    == FlattenSeq(around)
        fresh  == SelectSeq([i \in DOMAIN all |-> i], LAMBDA i : \A j \in 1..(i - 1) : all[j] # all[i])
    IN  [i \in DOMAIN fresh |-> all[fresh[i]]]

\* returnSegments: the read starts with what the run has left.
StartRead(ids) ==
    /\ phase = "ask"
    /\ wanted' = ids
    /\ next' = 1 /\ evidence' = <<>>
    /\ budget' \in Budgets
    /\ left' = budget'
    /\ phase' = "read"
    /\ UNCHANGED <<parseVars, text, from, segments>>

SearchTool == \E score \in Scores : StartRead(SearchSource(score))
ReadTool   == \E i, j \in DOMAIN segments : StartRead(SourceContext(<<i, j>>))

\* The characters of segment k that fit into n: never half of one.
Fits(k, n) ==
    LET s == segments[k] IN SafeEnd(s.from - 1 + Min({n, Length(s)})) - (s.from - 1)

\* One turn of the loop of readSource: a segment of which nothing fits takes
\* no part; the loop ends with the budget.
ReadStep ==
    /\ phase = "read" /\ next \in DOMAIN wanted /\ left > 0
    /\ LET k == wanted[next]
           n == Fits(k, left)
       IN  /\ evidence' = IF n > 0 THEN Append(evidence, [segment |-> k, taken |-> n]) ELSE evidence
           /\ left' = left - n
    /\ next' = next + 1
    /\ UNCHANGED <<phase, parseVars, text, from, segments, wanted, budget>>

\* The mutant that looks only at the segments left out.
CutShortCounts == Len(evidence) < Len(wanted)

\* What the tool reports as truncated.
CutShort ==
    \/ Len(evidence) < Len(wanted)
    \/ \E i \in DOMAIN evidence : evidence[i].taken < Length(segments[wanted[i]])

ReadEnds ==
    /\ phase = "read" /\ (next \notin DOMAIN wanted \/ left = 0)
    /\ phase' = "told"
    /\ UNCHANGED <<parseVars, text, from, segments, wanted, next, left, budget, evidence>>

-----------------------------------------------------------------------------
\* buildSourceIndex: of timed segments, or else of plain text.
SourceInit ==
    /\ \/ phase = "raw" /\ script \in RawScripts
       \/ phase = "lines" /\ script \in Scripts
    /\ start = NoTime /\ held = << >> /\ passages = << >>
    /\ text = << >>
    /\ from = 0
    /\ segments = <<>> /\ wanted = <<>> /\ next = 1 /\ left = 0 /\ budget = 0 /\ evidence = <<>>

SourceNext ==
    \/ ParseRaw \/ ParseLine \/ LinesEnd \/ SplitText
    \/ SplitStep \/ SearchTool \/ ReadTool \/ ReadStep \/ ReadEnds

SourceSpec == SourceInit /\ [][SourceNext]_sourceVars

-----------------------------------------------------------------------------
\* Every line with words is in one passage, in the order of the transcript, under the
\* time of the last time mark up to it, and no passage ends before it starts
\* (source-index.ts:42-107).
Timed == [i \in DOMAIN script |-> ClockSeconds(script[i].clock) # NoTime]
LastMark(i) ==
    LET marks == {j \in 1..i : Timed[j]}
    IN  IF marks = {} THEN NoTime ELSE ClockSeconds(script[Max(marks)].clock)
PassagesAreTimed ==
    phase = "parsed" =>
        LET raw   == \E i \in DOMAIN script : "duration" \in DOMAIN script[i]
            lines == FlattenSeq([k \in DOMAIN passages |-> passages[k].lines])
        IN  /\ \A a, b \in DOMAIN lines : a < b => lines[a] < lines[b]
            /\ \A i \in DOMAIN script : (IF raw THEN script[i].words ELSE HasWords(script[i])) =>
                 \E k \in DOMAIN passages :
                    /\ i \in ToSet(passages[k].lines)
                    /\ passages[k].start = IF raw THEN script[i].start ELSE LastMark(i)
            /\ \A k \in DOMAIN passages : passages[k].end # NoTime => passages[k].end >= passages[k].start

Whole(a, b) == ~ (a > 1 /\ text[a - 1] = "h" /\ text[a] = "l") /\ ~ (b < Len(text) /\ text[b] = "h" /\ text[b + 1] = "l")

\* Every turn of the loop starts further on than the one before it, so the loop
\* ends whatever the boundaries and half characters are.
MovesOn ==
    phase = "split" /\ SegmentEnd(from) < Len(text) => NextStart(SegmentEnd(from)) > from

\* "Never return half of an astral character" (source-index.ts:109-110), in a
\* segment or in what is read of one.
WholeCharacters ==
    /\ \A i \in DOMAIN segments : Whole(segments[i].from, segments[i].to)
    /\ \A i \in DOMAIN evidence :
         LET s == segments[evidence[i].segment] IN Whole(s.from, s.from + evidence[i].taken - 1)

\* "Overlap retains evidence straddling the boundary" (source-index.ts:130-131):
\* any passage as long as the overlap is whole in one of the segments.
StraddlingKept ==
    phase # "split" =>
        \A a \in DOMAIN text :
            LET window == {i \in a..Min({a + Overlap - 1, Len(text)}) : text[i] # " "}
            IN  \E k \in DOMAIN segments : window \subseteq segments[k].from..segments[k].to

\* The tool never says its evidence is complete when it is not, nor takes more
\* than the budget (tools.ts:70-76, source-index.ts:229-247).
NothingCutSilently ==
    phase = "told" =>
        /\ FoldLeft(LAMBDA n, e : n + e.taken, 0, evidence) = budget - left
        /\ left >= 0
        /\ ~ CutShort => [i \in DOMAIN evidence |-> evidence[i].segment] = wanted
                         /\ \A i \in DOMAIN evidence : evidence[i].taken = Length(segments[evidence[i].segment])

\* What the agent reads of a source is whole.
EvidenceIsWhole == PassagesAreTimed /\ MovesOn /\ WholeCharacters /\ StraddlingKept /\ NothingCutSilently
=============================================================================
