--------------------------- MODULE CodeHighlight ---------------------------
(***************************************************************************)
(* The highlighting of the code blocks a tool call shows (code-block.tsx): *)
(* one highlighter per language, loaded on first use; a cache of tokens    *)
(* and a set of waiting callbacks per cache key, shared by every block of   *)
(* the page; and in each block the tokens found while rendering, the       *)
(* tokens that came later, and an effect that runs some time after the     *)
(* render.  One language: the blocks of the application are all JSON.      *)
(***************************************************************************)
EXTENDS Integers, FiniteSets

CONSTANTS
    Blocks,             \* the code blocks of the page
    Codes,              \* the texts they may show
    KeyOf,              \* getTokensCacheKey: two texts may share a key
    Raw,                \* the tokens of a text that is not highlighted
    NoText,             \* no text: a block that is not mounted
    MaxRenders,         \* bound: renders that change a block
    MaxHighlightFaults  \* bound: highlightings that throw

ASSUME CodeHighlightAssumption ==
    /\ KeyOf \in [Codes -> Codes]
    /\ {Raw, NoText} \cap Codes = {}
    /\ MaxRenders \in Nat
    /\ MaxHighlightFaults \in Nat

VARIABLES
    highlighter,    \* highlighterCache: "none", "loading", "ready" or "failed"
    tokensOf,       \* tokensCache: the text each key's tokens were made from
    subscribers,    \* the callbacks waiting for each key: [block, code] of their effect
    jobs,           \* highlightings under way: how many for each text
    block,          \* of each block: its text, syncTokens, asyncHighlight, and the effect
    renders, highlightFaults

highlightVars == <<highlighter, tokensOf, subscribers, jobs, block, renders, highlightFaults>>

Keys == {KeyOf[c] : c \in Codes}
NoAsync == [key |-> NoText, code |-> NoText]
Unmounted == [code |-> NoText, sync |-> Raw, async |-> NoAsync, due |-> FALSE, listens |-> NoText]
Mounted == {b \in Blocks : block[b].code # NoText}

Cached(c) == tokensOf[KeyOf[c]] # NoText

\* highlightCode past its cache: the highlighter is asked for, and the text
\* joins those that wait for it.
StartJob(c) ==
    /\ highlighter' = IF highlighter = "none" THEN "loading" ELSE highlighter
    /\ jobs' = [jobs EXCEPT ![c] = @ + 1]

-----------------------------------------------------------------------------
\* The state a block is rendered in for the text c: syncTokens are those of
\* the cache or the raw ones, and the effect is due when the text changed.
\* asyncHighlight survives, and so does the callback of the last effect.
Rerendered(b, c) ==
    [block[b] EXCEPT !.code = c, !.due = TRUE, !.sync = IF Cached(c) THEN tokensOf[KeyOf[c]] ELSE Raw]

\* React runs the effects that are due before it renders again; a commit that
\* renders several blocks is one of these steps for each.
RenderBlock(b, c) ==
    /\ renders < MaxRenders
    /\ renders' = renders + 1
    /\ ~ block[b].due
    /\ c # block[b].code
    /\ block' = [block EXCEPT ![b] = Rerendered(b, c)]
    /\ IF Cached(c) THEN UNCHANGED <<highlighter, jobs>> ELSE StartJob(c)
    /\ UNCHANGED <<tokensOf, subscribers, highlightFaults>>

\* The effect: the callback of the last one is cancelled, and highlightCode is
\* called with a new one.  On a cache hit it returns the tokens and keeps no
\* callback, and the effect drops what it returns.
RunBlockEffect(b) ==
    /\ block[b].due
    /\ LET c == block[b].code IN
         /\ block' = [block EXCEPT ![b] = [@ EXCEPT !.due = FALSE, !.listens = c]]
         /\ IF Cached(c) THEN UNCHANGED <<highlighter, jobs, subscribers>>
            ELSE /\ subscribers' = [subscribers EXCEPT ![KeyOf[c]] = @ \cup {[block |-> b, code |-> c]}]
                 /\ StartJob(c)
    /\ UNCHANGED <<tokensOf, renders, highlightFaults>>

Unmount(b) ==
    /\ b \in Mounted
    /\ \A d \in Blocks : ~ block[d].due
    /\ block' = [block EXCEPT ![b] = Unmounted]
    /\ UNCHANGED <<highlighter, tokensOf, subscribers, jobs, renders, highlightFaults>>

-----------------------------------------------------------------------------
\* The highlighter is fetched over the network and comes at any time.
HighlighterLoads ==
    /\ highlighter = "loading"
    /\ highlighter' = "ready"
    /\ UNCHANGED <<tokensOf, subscribers, jobs, block, renders, highlightFaults>>

\* A rejected promise stays in highlighterCache.
HighlighterFails ==
    /\ highlighter = "loading"
    /\ highlightFaults < MaxHighlightFaults
    /\ highlightFaults' = highlightFaults + 1
    /\ highlighter' = "failed"
    /\ UNCHANGED <<tokensOf, subscribers, jobs, block, renders>>

\* A block's callback does nothing once its effect was cleaned up.
Live(sub) == block[sub.block].code # NoText /\ block[sub.block].listens = sub.code

\* The tokens of c are cached under its key, over those of another text with
\* the same key, and handed to every callback that waits for the key.
JobDone(c) ==
    /\ jobs[c] > 0
    /\ highlighter = "ready"
    /\ jobs' = [jobs EXCEPT ![c] = @ - 1]
    /\ tokensOf' = [tokensOf EXCEPT ![KeyOf[c]] = c]
    /\ subscribers' = [subscribers EXCEPT ![KeyOf[c]] = {}]
    /\ block' = [b \in Blocks |->
           IF \E sub \in subscribers[KeyOf[c]] : sub.block = b /\ Live(sub)
           THEN [block[b] EXCEPT !.async = [key |-> KeyOf[c], code |-> c]]
           ELSE block[b]]
    /\ UNCHANGED <<highlighter, renders, highlightFaults>>

\* The mutant that keeps the callbacks of a text that cannot be highlighted.
JobFailsKeeps(c) ==
    /\ jobs[c] > 0
    /\ \/ highlighter = "failed" /\ UNCHANGED highlightFaults
       \/ highlighter = "ready" /\ highlightFaults < MaxHighlightFaults /\ highlightFaults' = highlightFaults + 1
    /\ jobs' = [jobs EXCEPT ![c] = @ - 1]
    /\ UNCHANGED <<highlighter, tokensOf, subscribers, block, renders>>

\* The highlighter was not loaded, or throws on this text: nothing is cached
\* and the callbacks of the key are forgotten.
JobFails(c) ==
    /\ jobs[c] > 0
    /\ \/ highlighter = "failed" /\ UNCHANGED highlightFaults
       \/ highlighter = "ready" /\ highlightFaults < MaxHighlightFaults /\ highlightFaults' = highlightFaults + 1
    /\ jobs' = [jobs EXCEPT ![c] = @ - 1]
    /\ subscribers' = [subscribers EXCEPT ![KeyOf[c]] = {}]
    /\ UNCHANGED <<highlighter, tokensOf, block, renders>>

-----------------------------------------------------------------------------
\* The mutant that shows whatever came last.
DisplayedLatest(b) == IF block[b].async.code # NoText THEN block[b].async.code ELSE block[b].sync

\* What a block shows: the tokens that came later if they carry the key of its
\* text, else those of the render.
Displayed(b) ==
    IF block[b].async.key = KeyOf[block[b].code] THEN block[b].async.code ELSE block[b].sync

HighlightInit ==
    /\ highlighter = "none"
    /\ tokensOf = [k \in Keys |-> NoText]
    /\ subscribers = [k \in Keys |-> {}]
    /\ jobs = [c \in Codes |-> 0]
    /\ block = [b \in Blocks |-> Unmounted]
    /\ renders = 0
    /\ highlightFaults = 0

HighlightNext ==
    \/ \E b \in Blocks : \/ \E c \in Codes : RenderBlock(b, c)
                         \/ RunBlockEffect(b) \/ Unmount(b)
    \/ HighlighterLoads \/ HighlighterFails
    \/ \E c \in Codes : JobDone(c) \/ JobFails(c)

HighlightSpec == HighlightInit /\ [][HighlightNext]_highlightVars

-----------------------------------------------------------------------------
\* A block never shows the tokens of a text it no longer has: what it shows is
\* raw, or was made from its text or from one with the same cache key
\* (code-block.tsx:423-426).
OwnTokens == \A b \in Mounted : Displayed(b) # Raw => KeyOf[Displayed(b)] = KeyOf[block[b].code]

\* Every callback that waits is waited for: a highlighting of its key is under
\* way, whatever failed, was shown twice or was unmounted meanwhile
\* (code-block.tsx:204-243).
CallbacksAreAnswered ==
    \A k \in Keys : subscribers[k] # {} => \E c \in Codes : KeyOf[c] = k /\ jobs[c] > 0

\* Both, with the types they rest on.
HighlightIsSound ==
    /\ highlighter \in {"none", "loading", "ready", "failed"}
    /\ jobs \in [Codes -> Nat]
    /\ OwnTokens
    /\ CallbacksAreAnswered

\* "Create raw tokens for immediate display while highlighting loads"
\* (code-block.tsx:173): a block whose effect has run and whose text's tokens
\* are cached does not show it raw.
RawOnlyWhileLoading ==
    \A b \in Mounted : ~ block[b].due /\ Cached(block[b].code) => Displayed(b) # Raw
=============================================================================
