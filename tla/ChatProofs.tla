------------------------------ MODULE ChatProofs ------------------------------
(**************************************************************************)
(* What the chat page shows, for any number of turns, faults, code blocks *)
(* and texts, and what a run of the agent behind it owes its caller.      *)
(**************************************************************************)
EXTENDS ChatSession, CodeHighlight, NaturalsInduction, WellFoundedInduction, AgentRun, FiniteSetTheorems, TLAPS

-----------------------------------------------------------------------------
(* Code blocks.  Tokens belong to the key they are kept under, and every   *)
(* waiting callback has a highlighting of its key under way.               *)

BlockStates ==
    [code : Codes \cup {NoText}, sync : Codes \cup {Raw},
     async : [key : Keys \cup {NoText}, code : Codes \cup {NoText}], due : BOOLEAN, listens : Codes \cup {NoText}]

HighlightTyped ==
    /\ highlighter \in {"none", "loading", "ready", "failed"}
    /\ tokensOf \in [Keys -> Codes \cup {NoText}]
    /\ subscribers \in [Keys -> SUBSET [block : Blocks, code : Codes]]
    /\ jobs \in [Codes -> Nat]
    /\ block \in [Blocks -> BlockStates]

\* The cache, and what came later, are filed under their own keys.
TokensFiled ==
    /\ \A k \in Keys : tokensOf[k] # NoText => KeyOf[tokensOf[k]] = k
    /\ \A b \in Blocks : block[b].async = NoAsync
                         \/ (block[b].async.code \in Codes /\ block[b].async.key = KeyOf[block[b].async.code])

\* The tokens a block was rendered with are those of its text or of one with the same key.
RenderedOwn ==
    \A b \in Mounted : block[b].sync # Raw =>
        block[b].sync \in Codes /\ KeyOf[block[b].sync] = KeyOf[block[b].code]

\* An effect is due for a mounted block only.
EffectsOfMounted == \A b \in Blocks : block[b].due => b \in Mounted

HighlightInv == HighlightTyped /\ TokensFiled /\ RenderedOwn /\ EffectsOfMounted /\ CallbacksAreAnswered

LEMMA KeysOfCodes ==
    /\ \A c \in Codes : KeyOf[c] \in Codes /\ KeyOf[c] \in Keys
    /\ NoText \notin Codes /\ Raw \notin Codes /\ NoText \notin Keys
BY CodeHighlightAssumption DEF Keys

LEMMA HighlightInvIsEnough ==
    ASSUME HighlightInv
    PROVE  HighlightIsSound
<1>1. OwnTokens
  <2> SUFFICES ASSUME NEW b \in Mounted, Displayed(b) # Raw
               PROVE  KeyOf[Displayed(b)] = KeyOf[block[b].code]
    BY DEF OwnTokens
  <2>1. b \in Blocks /\ block[b].code \in Codes
    BY DEF Mounted, HighlightInv, HighlightTyped, BlockStates
  <2>2. CASE block[b].async.key = KeyOf[block[b].code]
    <3>1. block[b].async # NoAsync
      BY <2>1, <2>2, KeysOfCodes DEF NoAsync
    <3> QED BY <2>1, <2>2, <3>1 DEF Displayed, HighlightInv, TokensFiled
  <2>3. CASE block[b].async.key # KeyOf[block[b].code]
    BY <2>1, <2>3 DEF Displayed, HighlightInv, RenderedOwn
  <2> QED BY <2>2, <2>3
<1> QED BY <1>1 DEF HighlightIsSound, HighlightInv, HighlightTyped

\* A block that keeps its text and its tokens, or is not mounted, keeps what RenderedOwn says.
LEMMA RenderedFrame ==
    ASSUME RenderedOwn, EffectsOfMounted,
           \A b \in Blocks :
               /\ block'[b].due => block[b].due
               /\ block'[b].code = block[b].code \/ ~block'[b].due
               /\ block'[b].code # NoText => block'[b].code = block[b].code /\ block'[b].sync = block[b].sync
    PROVE  RenderedOwn' /\ EffectsOfMounted'
BY DEF RenderedOwn, EffectsOfMounted, Mounted

\* The state of a block after its text is rendered, and a highlighting more.
LEMMA StartJobKeeps ==
    ASSUME HighlightInv, NEW c \in Codes, StartJob(c)
    PROVE  /\ highlighter' \in {"none", "loading", "ready", "failed"}
           /\ jobs' \in [Codes -> Nat] /\ jobs'[c] > 0
           /\ \A d \in Codes : jobs[d] > 0 => jobs'[d] > 0
BY DEF StartJob, HighlightInv, HighlightTyped

LEMMA StepRenderBlock ==
    ASSUME HighlightInv, NEW b \in Blocks, NEW c \in Codes, RenderBlock(b, c)
    PROVE  HighlightInv'
<1>1. /\ block' = [block EXCEPT ![b] = Rerendered(b, c)]
      /\ (highlighter' = highlighter /\ jobs' = jobs) \/ StartJob(c)
      /\ UNCHANGED <<tokensOf, subscribers>>
  BY DEF RenderBlock
<1>2. block \in [Blocks -> BlockStates] /\ tokensOf \in [Keys -> Codes \cup {NoText}]
  BY DEF HighlightInv, HighlightTyped
<1>3. PICK s : s = IF Cached(c) THEN tokensOf[KeyOf[c]] ELSE Raw
  OBVIOUS
<1>4. s \in Codes \cup {Raw} /\ (s # Raw => s \in Codes /\ KeyOf[s] = KeyOf[c])
  BY <1>2, <1>3, KeysOfCodes DEF Cached, HighlightInv, TokensFiled
<1>5. /\ Rerendered(b, c) \in BlockStates
      /\ Rerendered(b, c).code = c /\ Rerendered(b, c).sync = s /\ Rerendered(b, c).async = block[b].async
  BY <1>2, <1>3, <1>4 DEF Rerendered, BlockStates
<1>6. /\ block' \in [Blocks -> BlockStates]
      /\ block'[b].code = c /\ block'[b].sync = s
      /\ \A d \in Blocks : block'[d].async = block[d].async /\ (d # b => block'[d] = block[d])
  BY <1>1, <1>2, <1>5
<1>7. /\ highlighter' \in {"none", "loading", "ready", "failed"} /\ jobs' \in [Codes -> Nat]
      /\ \A d \in Codes : jobs[d] > 0 => jobs'[d] > 0
  BY <1>1, StartJobKeeps DEF HighlightInv, HighlightTyped
<1>8. HighlightTyped'
  BY <1>1, <1>6, <1>7 DEF HighlightInv, HighlightTyped, Keys
<1>9. TokensFiled'
  BY <1>1, <1>6 DEF HighlightInv, TokensFiled, Keys
<1>10. RenderedOwn' /\ EffectsOfMounted'
  BY <1>4, <1>6, KeysOfCodes DEF HighlightInv, RenderedOwn, EffectsOfMounted, Mounted
<1>11. CallbacksAreAnswered'
  BY <1>1, <1>7 DEF HighlightInv, CallbacksAreAnswered, Keys
<1> QED BY <1>8, <1>9, <1>10, <1>11 DEF HighlightInv

LEMMA StepRunBlockEffect ==
    ASSUME HighlightInv, NEW b \in Blocks, RunBlockEffect(b)
    PROVE  HighlightInv'
<1>1. PICK c : c = block[b].code
  OBVIOUS
<1>2. block \in [Blocks -> BlockStates]
  BY DEF HighlightInv, HighlightTyped
<1>3. c \in Codes /\ KeyOf[c] \in Keys
  BY <1>1, <1>2, KeysOfCodes DEF BlockStates, RunBlockEffect, HighlightInv, EffectsOfMounted, Mounted
<1>4. /\ block' = [block EXCEPT ![b] = [@ EXCEPT !.due = FALSE, !.listens = c]]
      /\ \/ UNCHANGED <<highlighter, jobs, subscribers>>
         \/ /\ subscribers' = [subscribers EXCEPT ![KeyOf[c]] = @ \cup {[block |-> b, code |-> c]}]
            /\ StartJob(c)
      /\ UNCHANGED tokensOf
  BY <1>1 DEF RunBlockEffect
<1>5. /\ block' \in [Blocks -> BlockStates]
      /\ \A d \in Blocks : /\ block'[d].async = block[d].async
                           /\ block'[d].code = block[d].code /\ block'[d].sync = block[d].sync
                           /\ (block'[d].due => block[d].due)
  BY <1>2, <1>3, <1>4 DEF BlockStates
<1>6. CASE UNCHANGED <<highlighter, jobs, subscribers>>
  <2>1. HighlightTyped' /\ TokensFiled' /\ CallbacksAreAnswered'
    BY <1>4, <1>5, <1>6 DEF HighlightInv, HighlightTyped, TokensFiled, CallbacksAreAnswered, Keys
  <2> QED BY <1>5, <2>1, RenderedFrame DEF HighlightInv
<1>7. CASE /\ subscribers' = [subscribers EXCEPT ![KeyOf[c]] = @ \cup {[block |-> b, code |-> c]}]
           /\ StartJob(c)
  <2>1. /\ highlighter' \in {"none", "loading", "ready", "failed"} /\ jobs' \in [Codes -> Nat]
        /\ jobs'[c] > 0 /\ \A d \in Codes : jobs[d] > 0 => jobs'[d] > 0
    BY <1>3, <1>7, StartJobKeeps
  <2>2. [block |-> b, code |-> c] \in [block : Blocks, code : Codes]
    BY <1>3
  <2>3. /\ subscribers' \in [Keys -> SUBSET [block : Blocks, code : Codes]]
        /\ \A k \in Keys : k # KeyOf[c] => subscribers'[k] = subscribers[k]
    BY <1>3, <1>7, <2>2 DEF HighlightInv, HighlightTyped
  <2>4. HighlightTyped' /\ TokensFiled'
    BY <1>4, <1>5, <2>1, <2>3 DEF HighlightInv, HighlightTyped, TokensFiled, Keys
  <2>5. CallbacksAreAnswered'
    <3> SUFFICES ASSUME NEW k \in Keys, subscribers'[k] # {}
                 PROVE  \E d \in Codes : KeyOf[d] = k /\ jobs'[d] > 0
      BY DEF CallbacksAreAnswered, Keys
    <3>1. CASE k = KeyOf[c]
      BY <1>3, <2>1, <3>1
    <3>2. CASE k # KeyOf[c]
      BY <2>1, <2>3, <3>2 DEF HighlightInv, CallbacksAreAnswered
    <3> QED BY <3>1, <3>2
  <2> QED BY <1>5, <2>4, <2>5, RenderedFrame DEF HighlightInv
<1> QED BY <1>4, <1>6, <1>7

\* A block that leaves the page takes nothing along.
LEMMA StepUnmount ==
    ASSUME HighlightInv, NEW b \in Blocks, Unmount(b)
    PROVE  HighlightInv'
<1>1. /\ block' = [block EXCEPT ![b] = Unmounted]
      /\ UNCHANGED <<highlighter, tokensOf, subscribers, jobs>>
  BY DEF Unmount
<1>2. Unmounted \in BlockStates /\ Unmounted.async = NoAsync /\ Unmounted.code = NoText /\ Unmounted.due = FALSE
  BY DEF Unmounted, BlockStates, NoAsync
<1>3. /\ block' \in [Blocks -> BlockStates] /\ block'[b] = Unmounted
      /\ \A d \in Blocks : d # b => block'[d] = block[d]
  BY <1>1, <1>2 DEF HighlightInv, HighlightTyped
<1>4. HighlightTyped' /\ CallbacksAreAnswered'
  BY <1>1, <1>3 DEF HighlightInv, HighlightTyped, CallbacksAreAnswered, Keys
<1>5. TokensFiled'
  BY <1>1, <1>2, <1>3 DEF HighlightInv, TokensFiled, Keys
<1>6. RenderedOwn' /\ EffectsOfMounted'
  BY <1>2, <1>3, RenderedFrame DEF HighlightInv
<1> QED BY <1>4, <1>5, <1>6 DEF HighlightInv

LEMMA StepHighlighter ==
    ASSUME HighlightInv, HighlighterLoads \/ HighlighterFails
    PROVE  HighlightInv'
<1>1. /\ highlighter' \in {"none", "loading", "ready", "failed"}
      /\ UNCHANGED <<tokensOf, subscribers, jobs, block>>
  BY DEF HighlighterLoads, HighlighterFails
<1> QED BY <1>1 DEF HighlightInv, HighlightTyped, TokensFiled, RenderedOwn, EffectsOfMounted, Mounted,
                    CallbacksAreAnswered, Keys

\* A highlighting that ends leaves no callback of its key behind, and none of another key alone.
LEMMA JobEnds ==
    ASSUME HighlightInv, NEW c \in Codes, jobs[c] > 0,
           jobs' = [jobs EXCEPT ![c] = @ - 1], subscribers' = [subscribers EXCEPT ![KeyOf[c]] = {}]
    PROVE  /\ jobs' \in [Codes -> Nat]
           /\ subscribers' \in [Keys -> SUBSET [block : Blocks, code : Codes]]
           /\ CallbacksAreAnswered'
<1>1. jobs' \in [Codes -> Nat] /\ \A d \in Codes : d # c => jobs'[d] = jobs[d]
  BY DEF HighlightInv, HighlightTyped
<1>2. /\ subscribers' \in [Keys -> SUBSET [block : Blocks, code : Codes]] /\ subscribers'[KeyOf[c]] = {}
      /\ \A k \in Keys : k # KeyOf[c] => subscribers'[k] = subscribers[k]
  BY KeysOfCodes DEF HighlightInv, HighlightTyped
<1>3. ASSUME NEW k \in Keys, subscribers'[k] # {}
      PROVE  \E d \in Codes : KeyOf[d] = k /\ jobs'[d] > 0
  BY <1>1, <1>2, <1>3 DEF HighlightInv, CallbacksAreAnswered
<1> QED BY <1>1, <1>2, <1>3 DEF CallbacksAreAnswered, Keys

LEMMA StepJobDone ==
    ASSUME HighlightInv, NEW c \in Codes, JobDone(c)
    PROVE  HighlightInv'
<1> DEFINE found == [key |-> KeyOf[c], code |-> c]
<1>1. /\ jobs[c] > 0 /\ jobs' = [jobs EXCEPT ![c] = @ - 1]
      /\ tokensOf' = [tokensOf EXCEPT ![KeyOf[c]] = c]
      /\ subscribers' = [subscribers EXCEPT ![KeyOf[c]] = {}]
      /\ \E S \in SUBSET Blocks :
            block' = [b \in Blocks |-> IF b \in S THEN [block[b] EXCEPT !.async = found] ELSE block[b]]
      /\ UNCHANGED highlighter
  <2>1. {b \in Blocks : \E sub \in subscribers[KeyOf[c]] : sub.block = b /\ Live(sub)} \in SUBSET Blocks
    OBVIOUS
  <2> QED BY <2>1 DEF JobDone
<1>2. PICK S \in SUBSET Blocks :
        block' = [b \in Blocks |-> IF b \in S THEN [block[b] EXCEPT !.async = found] ELSE block[b]]
  BY <1>1
<1>3. KeyOf[c] \in Keys /\ found \in [key : Keys \cup {NoText}, code : Codes \cup {NoText}]
  BY KeysOfCodes
<1>4. block \in [Blocks -> BlockStates] /\ tokensOf \in [Keys -> Codes \cup {NoText}]
  BY DEF HighlightInv, HighlightTyped
<1>5. \A b \in Blocks : [block[b] EXCEPT !.async = found] \in BlockStates
  BY <1>3, <1>4 DEF BlockStates
<1>6. /\ block' \in [Blocks -> BlockStates]
      /\ \A b \in Blocks : /\ block'[b].async = block[b].async \/ block'[b].async = found
                           /\ block'[b].code = block[b].code /\ block'[b].sync = block[b].sync
                           /\ block'[b].due = block[b].due
  BY <1>2, <1>4, <1>5 DEF BlockStates
<1>7. /\ jobs' \in [Codes -> Nat]
      /\ subscribers' \in [Keys -> SUBSET [block : Blocks, code : Codes]]
      /\ CallbacksAreAnswered'
  BY <1>1, JobEnds
<1>8. tokensOf' \in [Keys -> Codes \cup {NoText}]
  BY <1>1, <1>4
<1>9. HighlightTyped'
  BY <1>1, <1>6, <1>7, <1>8 DEF HighlightInv, HighlightTyped, Keys
<1>10. TokensFiled'
  BY <1>1, <1>3, <1>4, <1>6 DEF HighlightInv, TokensFiled, Keys
<1>11. RenderedOwn' /\ EffectsOfMounted'
  BY <1>6, RenderedFrame DEF HighlightInv
<1> QED BY <1>7, <1>9, <1>10, <1>11 DEF HighlightInv

LEMMA StepJobFails ==
    ASSUME HighlightInv, NEW c \in Codes, JobFails(c)
    PROVE  HighlightInv'
<1>1. /\ jobs[c] > 0 /\ jobs' = [jobs EXCEPT ![c] = @ - 1]
      /\ subscribers' = [subscribers EXCEPT ![KeyOf[c]] = {}]
      /\ UNCHANGED <<highlighter, tokensOf, block>>
  BY DEF JobFails
<1>2. /\ jobs' \in [Codes -> Nat]
      /\ subscribers' \in [Keys -> SUBSET [block : Blocks, code : Codes]]
      /\ CallbacksAreAnswered'
  BY <1>1, JobEnds
<1>3. HighlightTyped' /\ TokensFiled'
  BY <1>1, <1>2 DEF HighlightInv, HighlightTyped, TokensFiled, Keys
<1>4. RenderedOwn' /\ EffectsOfMounted'
  BY <1>1 DEF HighlightInv, RenderedOwn, EffectsOfMounted, Mounted
<1> QED BY <1>2, <1>3, <1>4 DEF HighlightInv

LEMMA HighlightInvInit ==
    ASSUME HighlightInit
    PROVE  HighlightInv
<1>1. Unmounted \in BlockStates /\ Unmounted.async = NoAsync /\ Unmounted.code = NoText /\ Unmounted.due = FALSE
  BY DEF Unmounted, BlockStates, NoAsync
<1>2. \A b \in Blocks : block[b] = Unmounted
  BY DEF HighlightInit
<1>3. HighlightTyped
  BY <1>1 DEF HighlightInit, HighlightTyped
<1>4. TokensFiled /\ RenderedOwn /\ EffectsOfMounted
  BY <1>1, <1>2 DEF HighlightInit, TokensFiled, RenderedOwn, EffectsOfMounted, Mounted
<1>5. CallbacksAreAnswered
  BY DEF HighlightInit, CallbacksAreAnswered
<1> QED BY <1>3, <1>4, <1>5 DEF HighlightInv

LEMMA HighlightInvNext ==
    ASSUME HighlightInv, [HighlightNext]_highlightVars
    PROVE  HighlightInv'
<1>1. CASE UNCHANGED highlightVars
  BY <1>1 DEF highlightVars, HighlightInv, HighlightTyped, TokensFiled, RenderedOwn, EffectsOfMounted, Mounted,
              CallbacksAreAnswered, Keys
<1>2. CASE HighlightNext
  BY <1>2, StepRenderBlock, StepRunBlockEffect, StepUnmount, StepHighlighter, StepJobDone, StepJobFails
     DEF HighlightNext
<1> QED BY <1>1, <1>2

\* The tokens a block shows are those filed under the key of its present text, and no callback
\* waits for nothing (code-block.tsx:204-243, 423-426), however texts change and share keys,
\* blocks come and go and highlightings fail.
THEOREM BlocksShowTheirOwn == HighlightSpec => []HighlightIsSound
<1>1. HighlightInit => HighlightInv
  BY HighlightInvInit
<1>2. HighlightInv /\ [HighlightNext]_highlightVars => HighlightInv'
  BY HighlightInvNext
<1>3. HighlightInv => HighlightIsSound
  BY HighlightInvIsEnough
<1> QED BY <1>1, <1>2, <1>3, PTL DEF HighlightSpec
-----------------------------------------------------------------------------
(* The conversation.  What is stored of a reply is on its way to the page  *)
(* or has been received, while the listener is up; and "cancelled" is only *)
(* said of a turn that is.                                                 *)

\* There is an event on its way about a reply.
Waits(q, k) == \E i \in DOMAIN q : q[i].turn = k

\* The last event on its way about a reply carries this state.
LastIs(q, k, st) ==
    \A i \in DOMAIN q : q[i].turn = k /\ (\A j \in DOMAIN q : j > i => q[j].turn # k) => q[i].st = st

\* The server: a stored reply is in its turn's state, later turns are not accepted yet, and
\* only one turn of the thread can still change.
ServerInv ==
    /\ \A k \in Turns : row[k] # "absent" => row[k] = turn[k]
    /\ \A k \in Turns : turn[k] # "absent" => k <= cur
    /\ \A j, k \in Turns : turn[j] \in Open /\ turn[k] \in Open => j = k

\* The browser: what a busy chat, an idle one and a pending action are about.
PhaseInv ==
    /\ IsBusy => cur # 0
    /\ ~IsBusy => pendInit = Nothing /\ pendDb = Nothing
    /\ status = "streaming" => result # "none"
    /\ finished => result \in States \ {"running"}
    /\ action.kind = "cancel" => action.turn # 0
    /\ chan # "ready" => queue = <<>>
    /\ snap = [on |-> snap.on, read |-> snap.read, touched |-> snap.touched]

\* No copy of a reply, and no answer about it, says "cancelled".
Uncancelled(k) ==
    /\ "cancelled" \notin {row[k], msgs[k], pendInit[k], pendDb[k]}
    /\ \A r \in snap.read \cup load \cup props : r[k] # "cancelled"
    /\ \A i \in DOMAIN queue : queue[i].turn = k => queue[i].st # "cancelled"
    /\ k = cur => result # "cancelled"
    /\ action.turn = k => action.answer # "cancelled"
    /\ acted.turn = k => acted.state # "cancelled"

CancelInv == \A k \in Turns : turn[k] = "cancelled" \/ Uncancelled(k)

\* The browser has received what is stored of a reply: it is buffered, shown, or the one whose
\* retry has not been answered.
Held(k) ==
    \/ pendDb[k] = row[k]
    \/ /\ pendDb[k] = "absent"
       /\ \/ k \in dirty
          \/ IsBusy /\ k = cur /\ result = "none" /\ row[k] = "failed"
          \/ (IsBusy => k # cur) /\ msgs[k] = row[k]

\* While the listener is up a stored reply is on its way, in the snapshot, or received.
RowInv(k) ==
    /\ LastIs(queue, k, row[k])
    /\ ~Waits(queue, k) =>
         IF snap.on /\ k \notin snap.touched THEN \A r \in snap.read : r[k] = row[k] ELSE Held(k)

RowsInv == chan = "ready" /\ ~snapLost => \A k \in Turns : row[k] # "absent" => RowInv(k)

ChatInv == TypeOK /\ ServerInv /\ PhaseInv /\ CancelInv /\ RowsInv

-----------------------------------------------------------------------------
(* Numbers, replies and events. *)

\* A set of turns has a latest.
LEMMA LatestTurn ==
    ASSUME NEW S \in SUBSET Turns, S # {}
    PROVE  \E k \in S : \A j \in S : j <= k
<1> DEFINE D == {MaxTurns - x : x \in S}
           R == OpToRel(<, Nat)
<1>1. MaxTurns \in Nat /\ \A x \in S : x \in Nat /\ x <= MaxTurns /\ MaxTurns - x \in Nat
  BY ChatAssumption DEF Turns
<1>2. D \subseteq Nat /\ D # {}
  BY <1>1
<1>3. PICK d \in D : \A e \in D : <<e, d>> \notin R
  <2>1. IsWellFoundedOn(R, Nat)
    BY NatLessThanWellFounded
  <2> HIDE DEF D, R
  <2> QED BY <1>2, <2>1, WFMin
<1>4. \A e \in D : ~(e < d)
  BY <1>2, <1>3 DEF OpToRel
<1>5. PICK k \in S : d = MaxTurns - k
  OBVIOUS
<1>6. \A j \in S : j <= k
  <2> TAKE j \in S
  <2>1. MaxTurns - j \in D
    OBVIOUS
  <2> HIDE DEF D
  <2> QED BY <1>1, <1>4, <1>5, <2>1
<1> QED BY <1>6

LEMMA LatestIs ==
    ASSUME msgs \in Replies
    PROVE  Latest = 0 \/ (Latest \in Turns /\ msgs[Latest] # "absent")
<1> DEFINE known == {k \in Turns : msgs[k] # "absent"}
<1>1. CASE known = {}
  BY <1>1 DEF Latest
<1>2. CASE known # {}
  <2>1. \E k \in known : \A j \in known : j <= k
    <3> known \in SUBSET Turns
      OBVIOUS
    <3> HIDE DEF known
    <3> QED BY <1>2, LatestTurn
  <2>2. Latest = CHOOSE k \in known : \A j \in known : j <= k
    BY <1>2 DEF Latest
  <2> QED BY <2>1, <2>2
<1> QED BY <1>1, <1>2

LEMMA TurnsAreNumbers == Turns \subseteq Nat /\ 0 \notin Turns /\ MaxTurns \in Nat
BY ChatAssumption DEF Turns

LEMMA MergeIs ==
    ASSUME NEW a \in Replies, NEW b \in Replies
    PROVE  /\ Merge(a, b) \in Replies
           /\ \A k \in Turns : Merge(a, b)[k] = IF b[k] # "absent" THEN b[k] ELSE a[k]
BY DEF Merge, Replies

LEMMA NothingIs == Nothing \in Replies /\ \A k \in Turns : Nothing[k] = "absent"
BY DEF Nothing, Replies

LEMMA FlushIs ==
    ASSUME NEW m \in Replies, pendInit \in Replies, pendDb \in Replies
    PROVE  /\ Flush(m) \in Replies
           /\ \A k \in Turns : Flush(m)[k] = IF pendDb[k] # "absent" THEN pendDb[k]
                                             ELSE IF m[k] # "absent" THEN m[k] ELSE pendInit[k]
<1>1. PICK a \in Replies : a = Merge(pendInit, m)
  BY MergeIs
<1>2. \A k \in Turns : a[k] = IF m[k] # "absent" THEN m[k] ELSE pendInit[k]
  BY <1>1, MergeIs
<1>3. Flush(m) = Merge(a, pendDb)
  BY <1>1 DEF Flush, MergePreferCurrent
<1> QED BY <1>2, <1>3, MergeIs

Events == [turn : Turns, st : States]

LEMMA AfterAppend ==
    ASSUME NEW q \in Seq(Events), NEW e \in Events
    PROVE  /\ Append(q, e) \in Seq(Events)
           /\ Waits(Append(q, e), e.turn) /\ LastIs(Append(q, e), e.turn, e.st)
           /\ \A k, st : k # e.turn => /\ Waits(Append(q, e), k) <=> Waits(q, k)
                                       /\ LastIs(q, k, st) => LastIs(Append(q, e), k, st)
<1>1. /\ Append(q, e) \in Seq(Events) /\ DOMAIN q = 1..Len(q) /\ DOMAIN Append(q, e) = 1..(Len(q) + 1) /\ Len(q) \in Nat
      /\ Append(q, e)[Len(q) + 1] = e
      /\ \A i \in 1..Len(q) : Append(q, e)[i] = q[i]
  OBVIOUS
<1>2. Waits(Append(q, e), e.turn) /\ LastIs(Append(q, e), e.turn, e.st)
  BY <1>1 DEF Waits, LastIs
<1>3. ASSUME NEW k, NEW st, k # e.turn
      PROVE  /\ Waits(Append(q, e), k) <=> Waits(q, k)
             /\ LastIs(q, k, st) => LastIs(Append(q, e), k, st)
  <2>1. Waits(Append(q, e), k) <=> Waits(q, k)
    BY <1>1, <1>3 DEF Waits
  <2>2. ASSUME LastIs(q, k, st)
        PROVE  LastIs(Append(q, e), k, st)
    BY <1>1, <1>3, <2>2 DEF LastIs
  <2> QED BY <2>1, <2>2
<1> QED BY <1>1, <1>2, <1>3

LEMMA AfterTail ==
    ASSUME NEW q \in Seq(Events), q # << >>
    PROVE  /\ Tail(q) \in Seq(Events) /\ Head(q) \in Events
           /\ \A i \in DOMAIN Tail(q) : \E j \in DOMAIN q : Tail(q)[i] = q[j]
           /\ \E i \in DOMAIN q : q[i] = Head(q)
           /\ \A k : Waits(q, k) => Waits(Tail(q), k) \/ Head(q).turn = k
           /\ \A k, st : LastIs(q, k, st) =>
                /\ LastIs(Tail(q), k, st)
                /\ Head(q).turn = k /\ ~Waits(Tail(q), k) => Head(q).st = st
<1>1. /\ Tail(q) \in Seq(Events) /\ Head(q) \in Events /\ Len(q) \in Nat \ {0}
      /\ DOMAIN q = 1..Len(q) /\ DOMAIN Tail(q) = 1..(Len(q) - 1)
      /\ Head(q) = q[1]
      /\ \A i \in 1..(Len(q) - 1) : Tail(q)[i] = q[i + 1]
  OBVIOUS
<1>2. \A i \in 1..Len(q) : i = 1 \/ (i - 1 \in 1..(Len(q) - 1) /\ q[i] = Tail(q)[i - 1])
  BY <1>1
<1>7. \A i, j \in 1..Len(q) : j > i => j # 1 /\ j - 1 \in DOMAIN Tail(q) /\ q[j] = Tail(q)[j - 1] /\ j - 1 > i - 1
  BY <1>1
<1>3. \A i \in DOMAIN Tail(q) : i + 1 \in DOMAIN q /\ Tail(q)[i] = q[i + 1]
  BY <1>1
<1>4. 1 \in DOMAIN q /\ q[1] = Head(q)
  BY <1>1
<1>5. ASSUME NEW k, Waits(q, k)
      PROVE  Waits(Tail(q), k) \/ Head(q).turn = k
  BY <1>1, <1>2, <1>5 DEF Waits
<1>6. ASSUME NEW k, NEW st, LastIs(q, k, st)
      PROVE  /\ LastIs(Tail(q), k, st)
             /\ Head(q).turn = k /\ ~Waits(Tail(q), k) => Head(q).st = st
  <2>1. LastIs(Tail(q), k, st)
    <3> SUFFICES ASSUME NEW i \in DOMAIN Tail(q), Tail(q)[i].turn = k,
                        \A j \in DOMAIN Tail(q) : j > i => Tail(q)[j].turn # k
                 PROVE  Tail(q)[i].st = st
      BY DEF LastIs
    <3>1. i + 1 \in DOMAIN q /\ q[i + 1] = Tail(q)[i]
      BY <1>3
    <3>2. \A j \in DOMAIN q : j > i + 1 => q[j].turn # k
      <4> SUFFICES ASSUME NEW j \in DOMAIN q, j > i + 1
                   PROVE  q[j].turn # k
        OBVIOUS
      <4>1. i \in Nat /\ j \in Nat /\ i + 1 \in 1..Len(q) /\ j \in 1..Len(q)
        BY <1>1, <3>1
      <4>2. j - 1 \in DOMAIN Tail(q) /\ q[j] = Tail(q)[j - 1]
        BY <1>7, <4>1
      <4>3. j - 1 > i
        BY <4>1
      <4> QED BY <4>2, <4>3
    <3> QED BY <1>6, <3>1, <3>2 DEF LastIs
  <2>2. ASSUME Head(q).turn = k, ~Waits(Tail(q), k)
        PROVE  Head(q).st = st
    <3>1. \A j \in DOMAIN q : j > 1 => q[j].turn # k
      <4> SUFFICES ASSUME NEW j \in DOMAIN q, j > 1
                   PROVE  q[j].turn # k
        OBVIOUS
      <4>1. 1 \in 1..Len(q) /\ j \in 1..Len(q)
        BY <1>1
      <4>2. j - 1 \in DOMAIN Tail(q) /\ q[j] = Tail(q)[j - 1]
        BY <1>7, <4>1
      <4> QED BY <2>2, <4>2 DEF Waits
    <3> QED BY <1>4, <1>6, <2>2, <3>1 DEF LastIs
  <2> QED BY <2>1, <2>2
<1> QED BY <1>1, <1>3, <1>4, <1>5, <1>6

-----------------------------------------------------------------------------
(* The server's steps. *)

LEMMA RowsFrame ==
    ASSUME RowsInv, UNCHANGED <<row, chan, queue, snap, snapLost, status, cur, msgs, pendDb, dirty>>,
           result' = result \/ result # "none" \/ (\A k \in Turns : k = cur => row[k] # "failed")
    PROVE  RowsInv'
BY DEF RowsInv, RowInv, Held, IsBusy

\* The turn's new state reaches its reply row, if there is one, and an event tells of it.
Written(c, st) == (row[c] = "absent" /\ UNCHANGED <<row, queue>>) \/ Write(c, st)

LEMMA WrittenIs ==
    ASSUME ChatInv, NEW c \in Turns, NEW st \in States, Written(c, st)
    PROVE  /\ row' \in Replies /\ queue' \in Seq(Events)
           /\ \A k \in Turns : row'[k] = row[k] \/ (k = c /\ row'[k] = st)
           /\ row[c] # "absent" => row'[c] = st
           /\ chan # "ready" => queue' = queue
           /\ chan = "ready" => \/ UNCHANGED <<row, queue>> /\ row[c] = "absent"
                                \/ row'[c] = st /\ queue' = Append(queue, [turn |-> c, st |-> st])
           /\ \A i \in DOMAIN queue' : queue'[i] = [turn |-> c, st |-> st] \/ \E j \in DOMAIN queue : queue'[i] = queue[j]
<1>1. queue \in Seq(Events) /\ row \in Replies
  BY DEF ChatInv, TypeOK, Events
<1>2. [turn |-> c, st |-> st] \in Events
  BY DEF Events
<1>3. \A i \in DOMAIN Append(queue, [turn |-> c, st |-> st]) :
        \/ Append(queue, [turn |-> c, st |-> st])[i] = [turn |-> c, st |-> st]
        \/ \E j \in DOMAIN queue : Append(queue, [turn |-> c, st |-> st])[i] = queue[j]
  BY <1>1, <1>2
<1>4. CASE row[c] = "absent" /\ UNCHANGED <<row, queue>>
  BY <1>1, <1>4
<1>5. CASE Write(c, st)
  <2>1. row' = [row EXCEPT ![c] = st]
    BY <1>5 DEF Write
  <2>2. row' \in Replies /\ row'[c] = st /\ \A k \in Turns : k # c => row'[k] = row[k]
    BY <1>1, <2>1 DEF Replies
  <2>3. CASE chan = "ready"
    <3>1. queue' = Append(queue, [turn |-> c, st |-> st])
      BY <1>5, <2>3 DEF Write
    <3> QED BY <1>1, <1>2, <1>3, <2>2, <2>3, <3>1, AfterAppend
  <2>4. CASE chan # "ready"
    <3>1. queue' = queue
      BY <1>5, <2>4 DEF Write
    <3> QED BY <1>1, <2>2, <2>4, <3>1
  <2> QED BY <2>3, <2>4
<1> QED BY <1>4, <1>5 DEF Written

LEMMA StepTurn ==
    ASSUME ChatInv, NEW c \in Turns, NEW st \in States, Written(c, st),
           turn' \in Replies, turn'[c] = st,
           \A k \in Turns : turn'[k] = turn[k] \/ k = c \/ row[k] = "absent",
           \A k \in Turns : turn[k] = "cancelled" => turn'[k] = "cancelled",
           \A k \in Turns : turn'[k] # "absent" => k <= cur,
           \A j, k \in Turns : turn'[j] \in Open /\ turn'[k] \in Open => j = k,
           UNCHANGED <<chan, snap, snapLost, status, cur, viewVars, propVars, acted, retries>>,
           drops' \in 0..MaxDrops,
           result' \in States \cup {"none", "error"},
           result' = "cancelled" => result = "cancelled",
           result' = result \/ (result # "none" \/ c = cur \/ (\A k \in Turns : k = cur => row[k] = "absent")),
           status = "streaming" => result' # "none",
           finished => result' = result,
           action' = action \/ \E a \in {"cancelled", "terminal"} :
                                 /\ action.kind = "cancel" /\ action' = [action EXCEPT !.answer = a]
                                 /\ a = "cancelled" => action.turn = c /\ st = "cancelled"
    PROVE  ChatInv'
<1>0. UNCHANGED <<chan, snap, snapLost, status, cur, msgs, pendInit, pendDb, dirty, load, props, finished, acted, retries>>
  BY DEF viewVars, propVars
<1>1. /\ row' \in Replies /\ queue' \in Seq(Events)
      /\ \A k \in Turns : row'[k] = row[k] \/ (k = c /\ row'[k] = st)
      /\ row[c] # "absent" => row'[c] = st
      /\ chan # "ready" => queue' = queue
      /\ chan = "ready" => \/ UNCHANGED <<row, queue>> /\ row[c] = "absent"
                           \/ row'[c] = st /\ queue' = Append(queue, [turn |-> c, st |-> st])
      /\ \A i \in DOMAIN queue' : queue'[i] = [turn |-> c, st |-> st] \/ \E j \in DOMAIN queue : queue'[i] = queue[j]
  BY WrittenIs
<1>2. /\ action' \in [kind : {"none", "cancel", "retry"}, turn : 0..MaxTurns, answer : {"none", "cancelled", "terminal"}]
      /\ action'.kind = action.kind /\ action'.turn = action.turn
      /\ action'.answer = "cancelled" => action.answer = "cancelled" \/ (action.turn = c /\ st = "cancelled")
  BY DEF ChatInv, TypeOK
<1>3. TypeOK'
  BY <1>0, <1>1, <1>2 DEF ChatInv, TypeOK, Events
<1>4. ServerInv'
  <2>1. \A k \in Turns : row'[k] # "absent" => row'[k] = turn'[k]
    BY <1>1 DEF ChatInv, ServerInv
  <2> QED BY <1>0, <2>1 DEF ChatInv, ServerInv, Open
<1>5. PhaseInv'
  BY <1>0, <1>1, <1>2 DEF ChatInv, PhaseInv, IsBusy
<1>6. CancelInv'
  <2> SUFFICES ASSUME NEW k \in Turns, turn'[k] # "cancelled"
               PROVE  Uncancelled(k)'
    BY DEF CancelInv
  <2>1. Uncancelled(k) /\ (k = c => st # "cancelled")
    BY DEF ChatInv, CancelInv
  <2>2. \A i \in DOMAIN queue' : queue'[i].turn = k => queue'[i].st # "cancelled"
    BY <1>1, <2>1 DEF Uncancelled
  <2> QED BY <1>0, <1>1, <1>2, <2>1, <2>2 DEF Uncancelled
<1>7. RowsInv'
  <2> SUFFICES ASSUME chan = "ready", ~snapLost, NEW k \in Turns, row'[k] # "absent"
               PROVE  RowInv(k)'
    BY <1>0 DEF RowsInv
  <2>1. queue \in Seq(Events) /\ [turn |-> c, st |-> st] \in Events
    BY DEF ChatInv, TypeOK, Events
  <2>2. CASE k = c /\ queue' = Append(queue, [turn |-> c, st |-> st]) /\ row'[c] = st
    <3>1. Waits(queue', k) /\ LastIs(queue', k, row'[k])
      BY <2>1, <2>2, AfterAppend
    <3> QED BY <3>1 DEF RowInv
  <2>3. CASE UNCHANGED <<row, queue>> \/ (k # c /\ queue' = Append(queue, [turn |-> c, st |-> st]))
    <3>1. row'[k] = row[k] /\ RowInv(k)
      BY <1>1, <2>3 DEF ChatInv, RowsInv
    <3>2. (Waits(queue', k) <=> Waits(queue, k)) /\ LastIs(queue', k, row'[k])
      <4>1. CASE UNCHANGED <<row, queue>>
        BY <3>1, <4>1 DEF RowInv
      <4>2. CASE k # c /\ queue' = Append(queue, [turn |-> c, st |-> st])
        <5>1. PICK e \in Events : e = [turn |-> c, st |-> st]
          BY <2>1
        <5>2. e.turn # k /\ queue' = Append(queue, e)
          BY <4>2, <5>1
        <5>3. LastIs(queue, k, row[k])
          BY <3>1 DEF RowInv
        <5> QED BY <2>1, <3>1, <5>2, <5>3, AfterAppend
      <4> QED BY <2>3, <4>1, <4>2
    <3>3. Held(k) => Held(k)' \/ Waits(queue', k)
      BY <1>0, <1>1, <2>3, <3>1 DEF Held, IsBusy
    <3> QED BY <1>0, <3>1, <3>2, <3>3 DEF RowInv
  <2> QED BY <1>1, <2>2, <2>3
<1> QED BY <1>3, <1>4, <1>5, <1>6, <1>7 DEF ChatInv

LEMMA ProjectIsWritten ==
    ASSUME NEW c \in Turns, NEW st \in States, Project(c, st) \/ Write(c, st)
    PROVE  Written(c, st)
BY DEF Project, Written

LEMMA StepAcceptTurn ==
    ASSUME ChatInv, AcceptTurn
    PROVE  ChatInv'
<1>1. /\ status = "submitted" /\ result = "none" /\ turn[cur] = "absent" /\ result' = "running"
      /\ UNCHANGED <<chan, snap, snapLost, status, cur, viewVars, propVars, action, acted, drops, retries>>
  BY DEF AcceptTurn, actVars
<1>2. cur \in Turns /\ turn \in Replies /\ drops \in 0..MaxDrops /\ ~finished
  <2>1. IsBusy /\ cur \in 0..MaxTurns
    BY <1>1 DEF ChatInv, TypeOK, IsBusy
  <2>2. cur # 0 /\ ~finished
    BY <1>1, <2>1 DEF ChatInv, PhaseInv, States
  <2> QED BY <2>1, <2>2, TurnsAreNumbers DEF ChatInv, TypeOK, Turns
<1>3. /\ turn' \in Replies /\ turn'[cur] = "running"
      /\ \A k \in Turns : k # cur => turn'[k] = IF turn[k] \in Open THEN "cancelled" ELSE turn[k]
  <2>1. turn' = [k \in Turns |-> IF k = cur THEN "running" ELSE IF turn[k] \in Open THEN "cancelled" ELSE turn[k]]
    BY <1>1 DEF AcceptTurn, Open
  <2> QED BY <1>2, <2>1 DEF Replies, States
<1>4. row[cur] = "absent"
  BY <1>1, <1>2 DEF ChatInv, ServerInv
<1>5. /\ \A k \in Turns : turn[k] = "cancelled" => turn'[k] = "cancelled"
      /\ \A k \in Turns : turn'[k] # "absent" => k <= cur
      /\ \A j, k \in Turns : turn'[j] \in Open /\ turn'[k] \in Open => j = k
  <2>1. \A k \in Turns : turn'[k] # "absent" => k = cur \/ turn[k] # "absent"
    BY <1>3 DEF Open
  <2>2. cur <= cur
    BY <1>2, TurnsAreNumbers
  <2>3. \A k \in Turns : turn'[k] \in Open => k = cur
    BY <1>3 DEF Open
  <2> QED BY <1>1, <1>2, <1>3, <2>1, <2>2, <2>3 DEF ChatInv, ServerInv
<1>6. CASE \E k \in Turns : turn[k] \in Open
  <2>1. PICK c \in Turns : turn[c] \in Open /\ Project(c, "cancelled")
    BY <1>6 DEF AcceptTurn
  <2>2. c # cur /\ turn'[c] = "cancelled"
    BY <1>1, <1>3, <2>1 DEF Open
  <2>3. \A k \in Turns : turn'[k] = turn[k] \/ k = c \/ row[k] = "absent"
    BY <1>3, <1>4, <2>1 DEF ChatInv, ServerInv
  <2>4. Written(c, "cancelled") /\ "cancelled" \in States
    BY <2>1, ProjectIsWritten DEF States
  <2> QED BY <1>1, <1>2, <1>3, <1>4, <1>5, <2>2, <2>3, <2>4, StepTurn DEF States
<1>7. CASE ~\E k \in Turns : turn[k] \in Open
  <2>1. Written(cur, "running") /\ "running" \in States
    BY <1>4, <1>7 DEF AcceptTurn, Written, States
  <2>2. \A k \in Turns : turn'[k] = turn[k] \/ k = cur
    BY <1>3, <1>7
  <2> QED BY <1>1, <1>2, <1>3, <1>4, <1>5, <2>1, <2>2, StepTurn DEF States
<1> QED BY <1>6, <1>7

\* A turn that is open moves on, with its reply row.
LEMMA StepMove ==
    ASSUME ChatInv, NEW c \in Turns, NEW st \in States, Project(c, st) \/ Write(c, st),
           turn[c] \in Open, turn' = [turn EXCEPT ![c] = st],
           UNCHANGED <<chan, snap, snapLost, status, cur, viewVars, propVars, acted, retries>>,
           drops' \in 0..MaxDrops,
           result' \in States \cup {"none", "error"},
           result' # "cancelled" \/ result' = result,
           result' = result \/ (c = cur /\ result' # "none"),
           finished => result' = result,
           action' = action \/ (st = "cancelled" /\ action.kind = "cancel" /\ action.turn = c
                                 /\ action' = [action EXCEPT !.answer = "cancelled"])
    PROVE  ChatInv'
<1>1. turn \in Replies /\ Written(c, st)
  BY ProjectIsWritten DEF ChatInv, TypeOK
<1>2. turn' \in Replies /\ turn'[c] = st /\ \A k \in Turns : k # c => turn'[k] = turn[k]
  BY <1>1 DEF Replies
<1>3. /\ \A k \in Turns : turn[k] = "cancelled" => turn'[k] = "cancelled"
      /\ \A k \in Turns : turn'[k] # "absent" => k <= cur
      /\ \A j, k \in Turns : turn'[j] \in Open /\ turn'[k] \in Open => j = k
  BY <1>2 DEF ChatInv, ServerInv, Open
<1>4. status = "streaming" => result' # "none"
  BY DEF ChatInv, PhaseInv
<1> QED BY <1>1, <1>2, <1>3, <1>4, StepTurn

\* Only what the browser knows of the answer to its request changes.
LEMMA StepAnswer ==
    ASSUME ChatInv, UNCHANGED <<srvVars, chanVars, status, cur, viewVars, propVars, acted, drops, retries>>,
           result' \in States \cup {"none", "error"},
           result' = "cancelled" => result = "cancelled" \/ (\A k \in Turns : k = cur => turn[k] = "cancelled"),
           result' = result \/ result # "none" \/ (\A k \in Turns : k = cur => row[k] # "failed"),
           status = "streaming" => result' # "none",
           finished => result' = result,
           action' = action \/ (action.kind = "cancel" /\ action' = [action EXCEPT !.answer = "terminal"])
    PROVE  ChatInv'
<1>0. UNCHANGED <<turn, row, chan, queue, snap, snapLost, status, cur, msgs, pendInit, pendDb, dirty,
                  load, props, finished, acted, drops, retries>>
  BY DEF srvVars, chanVars, viewVars, propVars
<1>1. /\ action' \in [kind : {"none", "cancel", "retry"}, turn : 0..MaxTurns, answer : {"none", "cancelled", "terminal"}]
      /\ action'.kind = action.kind /\ action'.turn = action.turn
      /\ action'.answer = "cancelled" => action.answer = "cancelled"
  BY DEF ChatInv, TypeOK
<1>2. TypeOK'
  BY <1>0, <1>1 DEF ChatInv, TypeOK
<1>3. ServerInv' /\ PhaseInv'
  BY <1>0, <1>1 DEF ChatInv, ServerInv, PhaseInv, IsBusy
<1>4. CancelInv'
  BY <1>0, <1>1 DEF ChatInv, CancelInv, Uncancelled
<1>5. RowsInv'
  BY <1>0, RowsFrame DEF ChatInv
<1> QED BY <1>2, <1>3, <1>4, <1>5 DEF ChatInv

LEMMA StepRequest ==
    ASSUME ChatInv, RefuseTurn \/ RerunTurn \/ ReplayTurn
    PROVE  ChatInv'
<1>1. /\ status = "submitted" /\ result = "none"
      /\ UNCHANGED <<chan, snap, snapLost, status, cur, viewVars, propVars, action, acted, drops, retries>>
  BY DEF RefuseTurn, RerunTurn, ReplayTurn, chanVars, actVars
<1>2. cur \in Turns /\ turn \in Replies /\ row \in Replies /\ drops \in 0..MaxDrops /\ ~finished
  <2>1. IsBusy /\ cur \in 0..MaxTurns
    BY <1>1 DEF ChatInv, TypeOK, IsBusy
  <2>2. cur # 0 /\ ~finished
    BY <1>1, <2>1 DEF ChatInv, PhaseInv, States
  <2> QED BY <2>1, <2>2, TurnsAreNumbers DEF ChatInv, TypeOK, Turns
<1>3. CASE RefuseTurn
  <2>1. row[cur] # "failed"
    <3>1. turn[cur] \in {"absent", "running"}
      BY <1>3 DEF RefuseTurn
    <3> QED BY <1>2, <3>1 DEF ChatInv, ServerInv
  <2> QED BY <1>1, <1>2, <1>3, <2>1, StepAnswer DEF RefuseTurn, actVars
<1>4. CASE RerunTurn
  <2>1. PICK st \in {"running", "waiting"} : turn' = [turn EXCEPT ![cur] = st] /\ Project(cur, st) /\ result' = st
    BY <1>4 DEF RerunTurn
  <2>2. turn[cur] \in Open /\ st \in States
    BY <1>4 DEF RerunTurn, Open, States
  <2> QED BY <1>1, <1>2, <2>1, <2>2, StepMove
<1>5. CASE ReplayTurn
  <2>1. row[cur] # "absent" => row[cur] = turn[cur]
    BY <1>2 DEF ChatInv, ServerInv
  <2>2. row[cur] # "failed" /\ row[cur] \in States \cup {"absent"}
    BY <1>2, <1>5, <2>1 DEF ReplayTurn, Replies
  <2>3. result' \in States \cup {"error"} /\ (result' = "cancelled" => turn[cur] = "cancelled")
    BY <1>5, <2>1, <2>2 DEF ReplayTurn, States
  <2> QED BY <1>1, <1>2, <1>5, <2>2, <2>3, StepAnswer DEF ReplayTurn, actVars
<1> QED BY <1>3, <1>4, <1>5

LEMMA StepRun ==
    ASSUME ChatInv, NEW k \in Turns, HandOff(k) \/ RunEnds(k) \/ Continue(k) \/ OtherTabRetries(k)
    PROVE  ChatInv'
<1>1. UNCHANGED <<chan, snap, snapLost, status, cur, viewVars, propVars, action, acted, retries>>
  BY DEF HandOff, RunEnds, Continue, OtherTabRetries, actVars
<1>2. /\ turn \in Replies /\ row \in Replies /\ drops \in 0..MaxDrops /\ MaxDrops \in Nat
      /\ result \in States \cup {"none", "error"} /\ (finished => result # "running")
  BY ChatAssumption DEF ChatInv, TypeOK, PhaseInv
<1>3. CASE HandOff(k)
  BY <1>1, <1>2, <1>3, StepMove DEF HandOff, Open, States
<1>4. CASE RunEnds(k)
  <2>1. result = "running" /\ k = cur /\ drops' = drops
    BY <1>4 DEF RunEnds
  <2>2. CASE turn[k] = "running"
    <3>1. PICK st \in {"completed", "failed"} :
            turn' = [turn EXCEPT ![k] = st] /\ Write(k, st) /\ result' = IF st = "completed" THEN st ELSE "error"
      BY <1>4, <2>2 DEF RunEnds
    <3>2. st \in States /\ turn[k] \in Open /\ result' \in {"completed", "error"}
      BY <2>2, <3>1 DEF States, Open
    <3> QED BY <1>1, <1>2, <2>1, <3>1, <3>2, StepMove DEF States
  <2>3. CASE turn[k] = "waiting"
    <3>1. Write(k, "waiting") /\ result' = "waiting" /\ turn' = turn
      BY <1>4, <2>3 DEF RunEnds
    <3>2. turn' = [turn EXCEPT ![k] = "waiting"] /\ "waiting" \in States /\ turn[k] \in Open
      BY <1>2, <2>3, <3>1 DEF Replies, States, Open
    <3> QED BY <1>1, <1>2, <2>1, <3>1, <3>2, StepMove
  <2>4. CASE turn[k] \notin {"running", "waiting"}
    <3>1. result' \in {"waiting", "error"} /\ UNCHANGED <<turn, row, queue>>
      BY <1>4, <2>4 DEF RunEnds
    <3> QED BY <1>1, <1>2, <2>1, <3>1, StepAnswer DEF srvVars, chanVars, States
  <2> QED BY <2>2, <2>3, <2>4
<1>5. CASE Continue(k)
  <2>1. PICK st \in {"finalizing", "completed", "failed"} :
          turn[k] \in {"waiting", "finalizing"} /\ turn' = [turn EXCEPT ![k] = st]
    BY <1>5 DEF Continue
  <2>2. turn'[k] = st
    BY <1>2, <2>1 DEF Replies
  <2>3. Project(k, st)
    BY <1>5, <2>2 DEF Continue
  <2>4. st \in States /\ turn[k] \in Open /\ drops' = drops /\ result' = result
    BY <1>5, <2>1 DEF Continue, States, Open
  <2> QED BY <1>1, <1>2, <2>1, <2>3, <2>4, StepMove
<1>6. CASE OtherTabRetries(k)
  <2>1. /\ turn[k] = "failed" /\ turn' = [turn EXCEPT ![k] = "waiting"] /\ Project(k, "waiting") /\ result' = result
        /\ "waiting" \in States /\ turn[k] \in Open
    BY <1>6 DEF OtherTabRetries, States, Open
  <2>2. drops' \in 0..MaxDrops
    BY <1>2, <1>6 DEF OtherTabRetries
  <2> QED BY <1>1, <1>2, <2>1, <2>2, StepMove
<1> QED BY <1>3, <1>4, <1>5, <1>6

LEMMA StepCancelTurn ==
    ASSUME ChatInv, CancelTurn
    PROVE  ChatInv'
<1>1. PICK c : c = action.turn
  OBVIOUS
<1>2. /\ action.kind = "cancel" /\ action' = [action EXCEPT !.answer = CancelAnswer(c)]
      /\ UNCHANGED <<chan, snap, snapLost, status, cur, result, viewVars, propVars, acted, drops, retries>>
      /\ IF Pending(turn[c])
         THEN turn' = [turn EXCEPT ![c] = "cancelled"] /\ Project(c, "cancelled")
         ELSE UNCHANGED <<turn, row, queue>>
  BY <1>1 DEF CancelTurn
<1>3. c \in Turns /\ drops \in 0..MaxDrops /\ result \in States \cup {"none", "error"}
  <2>1. c # 0 /\ c \in 0..MaxTurns
    BY <1>1, <1>2 DEF ChatInv, TypeOK, PhaseInv
  <2> QED BY <2>1, TurnsAreNumbers DEF ChatInv, TypeOK, Turns
<1>4. CASE Pending(turn[c])
  <2>1. turn[c] \in Open /\ "cancelled" \in States /\ CancelAnswer(c) = "cancelled"
    BY <1>4 DEF Pending, Open, States, CancelAnswer
  <2> QED BY <1>1, <1>2, <1>3, <1>4, <2>1, StepMove
<1>5. CASE ~Pending(turn[c])
  <2>1. CancelAnswer(c) = "terminal"
    BY <1>5 DEF CancelAnswer
  <2> QED BY <1>2, <1>3, <1>5, <2>1, StepAnswer DEF srvVars, chanVars, ChatInv, PhaseInv
<1> QED BY <1>4, <1>5

-----------------------------------------------------------------------------
(* The chat's steps. *)

LEMMA StepSend ==
    ASSUME ChatInv, Send
    PROVE  ChatInv'
<1>1. /\ ~IsBusy /\ ~finished /\ cur < MaxTurns
      /\ cur' = cur + 1 /\ status' = "submitted" /\ result' = "none"
      /\ UNCHANGED <<turn, row, chan, queue, snap, snapLost, msgs, pendInit, pendDb, dirty, load, props, finished,
                     action, acted, drops, retries>>
  BY DEF Send, srvVars, chanVars, viewVars, propVars, actVars
<1>2. cur \in Nat /\ cur + 1 \in 0..MaxTurns /\ cur + 1 # 0
  BY <1>1, TurnsAreNumbers DEF ChatInv, TypeOK
<1>3. TypeOK'
  BY <1>1, <1>2 DEF ChatInv, TypeOK
<1>4. \A k \in Turns : turn[k] # "absent" => k # cur + 1 /\ k <= cur + 1
  <2> SUFFICES ASSUME NEW k \in Turns, turn[k] # "absent"
               PROVE  k # cur + 1 /\ k <= cur + 1
    OBVIOUS
  <2>1. k <= cur /\ k \in Nat
    BY TurnsAreNumbers DEF ChatInv, ServerInv
  <2> QED BY <1>2, <2>1
<1>5. ServerInv'
  BY <1>1, <1>4 DEF ChatInv, ServerInv
<1>6. PhaseInv'
  BY <1>1, <1>2 DEF ChatInv, PhaseInv, IsBusy
<1>7. CancelInv'
  BY <1>1 DEF ChatInv, CancelInv, Uncancelled
<1>8. RowsInv'
  <2> SUFFICES ASSUME chan = "ready", ~snapLost, NEW k \in Turns, row[k] # "absent"
               PROVE  RowInv(k)'
    BY <1>1 DEF RowsInv
  <2>1. k # cur' /\ RowInv(k)
    BY <1>1, <1>4 DEF ChatInv, ServerInv, RowsInv
  <2>2. Held(k) => Held(k)'
    BY <1>1, <2>1 DEF Held
  <2> QED BY <1>1, <2>1, <2>2 DEF RowInv
<1> QED BY <1>3, <1>5, <1>6, <1>7, <1>8 DEF ChatInv

\* New initialMessages, or the buttons: only their own state changes.
LEMMA StepButtons ==
    ASSUME ChatInv, OnFinish \/ HistoryArrives \/ HandleCancelAnswer \/ CancelAnswered \/ CancelFails
    PROVE  ChatInv'
<1>1. UNCHANGED <<turn, row, chan, queue, snap, snapLost, status, cur, result, msgs, pendInit, pendDb, dirty, retries>>
  BY DEF OnFinish, HistoryArrives, HandleCancelAnswer, CancelAnswered, CancelFails, srvVars, chanVars, viewVars
<1>2. RowsInv'
  BY <1>1, RowsFrame DEF ChatInv
<1>3. ServerInv'
  BY <1>1 DEF ChatInv, ServerInv
<1>4. CASE OnFinish
  <2>1. PICK p : p = [k \in Turns |-> IF k = cur THEN result ELSE msgs[k]]
    OBVIOUS
  <2>2. finished /\ finished' = FALSE /\ props' = {p} /\ UNCHANGED <<load, action, acted, drops>>
    BY <1>4, <2>1 DEF OnFinish, actVars
  <2>3. result \in States /\ msgs \in Replies
    BY <2>2 DEF ChatInv, TypeOK, PhaseInv
  <2>4. p \in Replies /\ \A k \in Turns : p[k] = IF k = cur THEN result ELSE msgs[k]
    BY <2>1, <2>3 DEF Replies
  <2>5. TypeOK'
    <3>1. props' \subseteq Replies /\ finished' \in BOOLEAN
      BY <2>2, <2>4
    <3> QED BY <1>1, <2>2, <3>1 DEF ChatInv, TypeOK
  <2>6. PhaseInv'
    BY <1>1, <2>2 DEF ChatInv, PhaseInv, IsBusy
  <2>7. CancelInv'
    BY <1>1, <2>2, <2>4 DEF ChatInv, CancelInv, Uncancelled
  <2> QED BY <1>2, <1>3, <2>5, <2>6, <2>7 DEF ChatInv
<1>5. CASE HistoryArrives
  <2>1. load' = {} /\ props' = load /\ UNCHANGED <<finished, action, acted, drops>>
    BY <1>5 DEF HistoryArrives, actVars
  <2>2. TypeOK'
    BY <1>1, <2>1 DEF ChatInv, TypeOK
  <2>3. PhaseInv'
    BY <1>1, <2>1 DEF ChatInv, PhaseInv, IsBusy
  <2>4. CancelInv'
    BY <1>1, <2>1 DEF ChatInv, CancelInv, Uncancelled
  <2> QED BY <1>2, <1>3, <2>2, <2>3, <2>4 DEF ChatInv
<1>6. CASE HandleCancelAnswer \/ CancelAnswered \/ CancelFails
  <2>1. /\ UNCHANGED <<load, props, finished>>
        /\ drops' \in 0..MaxDrops
        /\ action' \in [kind : {"none", "cancel", "retry"}, turn : 0..MaxTurns, answer : {"none", "cancelled", "terminal"}]
        /\ acted' \in [turn : 0..MaxTurns, state : {"none", "cancelled", "terminal", "error"}]
        /\ action'.kind = "cancel" => action'.turn # 0
        /\ action'.answer # "cancelled"
        /\ acted'.state = "cancelled" => acted'.turn = action.turn /\ action.answer = "cancelled"
    <3>1. /\ action \in [kind : {"none", "cancel", "retry"}, turn : 0..MaxTurns, answer : {"none", "cancelled", "terminal"}]
          /\ drops \in 0..MaxDrops /\ msgs \in Replies /\ MaxDrops \in Nat /\ 0 \in 0..MaxTurns /\ Turns \subseteq 0..MaxTurns
      BY ChatAssumption DEF ChatInv, TypeOK, Turns
    <3>2. CASE HandleCancelAnswer
      <4>1. Latest # 0 /\ Latest \in Turns
        BY <3>1, <3>2, LatestIs DEF HandleCancelAnswer, ActionsEnabled
      <4>2. PICK l \in Turns : l # 0 /\ action' = [kind |-> "cancel", turn |-> l, answer |-> "none"]
        BY <3>2, <4>1 DEF HandleCancelAnswer
      <4> QED BY <3>1, <3>2, <4>2 DEF HandleCancelAnswer, propVars, NoResult
    <3>3. CASE CancelAnswered
      BY <3>1, <3>3 DEF CancelAnswered, propVars, NoAction
    <3>4. CASE CancelFails
      BY <3>1, <3>4 DEF CancelFails, propVars, NoAction
    <3> QED BY <1>6, <3>2, <3>3, <3>4
  <2>2. TypeOK'
    BY <1>1, <2>1 DEF ChatInv, TypeOK
  <2>3. PhaseInv'
    BY <1>1, <2>1 DEF ChatInv, PhaseInv, IsBusy
  <2>4. CancelInv'
    BY <1>1, <2>1 DEF ChatInv, CancelInv, Uncancelled
  <2> QED BY <1>2, <1>3, <2>2, <2>3, <2>4 DEF ChatInv
<1> QED BY <1>4, <1>5, <1>6

LEMMA StepStreamStarts ==
    ASSUME ChatInv, StreamStarts
    PROVE  ChatInv'
<1>1. /\ status = "submitted" /\ result \notin {"none", "error"} /\ status' = "streaming"
      /\ msgs' = [msgs EXCEPT ![cur] = "running"]
      /\ UNCHANGED <<turn, row, chan, queue, snap, snapLost, cur, result, pendInit, pendDb, dirty, load, props, finished,
                     action, acted, drops, retries>>
  BY DEF StreamStarts, srvVars, chanVars, propVars, actVars
<1>2. msgs \in Replies /\ msgs' \in Replies /\ \A k \in Turns : msgs'[k] = IF k = cur THEN "running" ELSE msgs[k]
  <2>1. msgs \in Replies
    BY DEF ChatInv, TypeOK
  <2> QED BY <1>1, <2>1 DEF Replies, States
<1>3. TypeOK' /\ ServerInv'
  BY <1>1, <1>2 DEF ChatInv, TypeOK, ServerInv
<1>4. PhaseInv'
  BY <1>1 DEF ChatInv, PhaseInv, IsBusy
<1>5. CancelInv'
  BY <1>1, <1>2 DEF ChatInv, CancelInv, Uncancelled
<1>6. RowsInv'
  BY <1>1, <1>2 DEF ChatInv, RowsInv, RowInv, Held, IsBusy
<1> QED BY <1>3, <1>4, <1>5, <1>6 DEF ChatInv

LEMMA StepIdle ==
    ASSUME ChatInv, NEW m \in Replies, NEW st \in {"ready", "error"}, Idle(m, st), IsBusy, result # "none",
           \A k \in Turns : m[k] = msgs[k] \/ (k = cur /\ m[k] = result),
           UNCHANGED <<turn, row, chan, queue, snap, snapLost, cur, result, load, props, retries>>,
           drops' \in 0..MaxDrops,
           finished' = finished \/ (finished' = TRUE /\ result \in States \ {"running"}),
           action' = action \/ action' = NoAction,
           acted' = acted \/ \E k \in 0..MaxTurns : acted' = [turn |-> k, state |-> "error"]
    PROVE  ChatInv'
<1>1. /\ status' = st /\ msgs' = Flush(m) /\ pendInit' = Nothing /\ pendDb' = Nothing
      /\ dirty' = {k \in dirty : pendDb[k] = "absent"}
      /\ pendInit \in Replies /\ pendDb \in Replies
  BY DEF Idle, ChatInv, TypeOK
<1>2. /\ msgs' \in Replies
      /\ \A k \in Turns : msgs'[k] = IF pendDb[k] # "absent" THEN pendDb[k]
                                     ELSE IF m[k] # "absent" THEN m[k] ELSE pendInit[k]
  BY <1>1, FlushIs
<1>3. /\ action' \in [kind : {"none", "cancel", "retry"}, turn : 0..MaxTurns, answer : {"none", "cancelled", "terminal"}]
      /\ acted' \in [turn : 0..MaxTurns, state : {"none", "cancelled", "terminal", "error"}]
      /\ finished' \in BOOLEAN
      /\ action' = action \/ (action'.answer = "none" /\ action'.kind = "none")
      /\ acted' = acted \/ acted'.state = "error"
  <2>1. NoAction \in [kind : {"none", "cancel", "retry"}, turn : 0..MaxTurns, answer : {"none", "cancelled", "terminal"}]
        /\ NoAction.answer = "none" /\ NoAction.kind = "none"
    <3>1. 0 \in 0..MaxTurns
      BY ChatAssumption
    <3> QED BY <3>1 DEF NoAction
  <2>2. /\ action \in [kind : {"none", "cancel", "retry"}, turn : 0..MaxTurns, answer : {"none", "cancelled", "terminal"}]
        /\ acted \in [turn : 0..MaxTurns, state : {"none", "cancelled", "terminal", "error"}]
        /\ finished \in BOOLEAN
    BY DEF ChatInv, TypeOK
  <2>3. /\ acted' \in [turn : 0..MaxTurns, state : {"none", "cancelled", "terminal", "error"}]
        /\ acted' = acted \/ acted'.state = "error"
    BY <2>2
  <2>4. finished' \in BOOLEAN
    BY <2>2
  <2> QED BY <2>1, <2>2, <2>3, <2>4
<1>4. TypeOK'
  BY <1>1, <1>2, <1>3, NothingIs DEF ChatInv, TypeOK
<1>5. ServerInv'
  BY DEF ChatInv, ServerInv
<1>6. PhaseInv'
  BY <1>1, <1>3 DEF ChatInv, PhaseInv, IsBusy
<1>7. CancelInv'
  <2> SUFFICES ASSUME NEW k \in Turns, turn[k] # "cancelled"
               PROVE  Uncancelled(k)'
    BY DEF CancelInv
  <2>1. Uncancelled(k)
    BY DEF ChatInv, CancelInv
  <2>2. msgs'[k] # "cancelled" /\ pendInit'[k] # "cancelled" /\ pendDb'[k] # "cancelled"
    BY <1>1, <1>2, <2>1, NothingIs DEF Uncancelled
  <2> QED BY <1>3, <2>1, <2>2 DEF Uncancelled
<1>8. RowsInv'
  <2> SUFFICES ASSUME chan = "ready", ~snapLost, NEW k \in Turns, row[k] # "absent"
               PROVE  RowInv(k)'
    BY DEF RowsInv
  <2>1. RowInv(k)
    BY DEF ChatInv, RowsInv
  <2>2. Held(k) => Held(k)'
    <3> SUFFICES ASSUME Held(k)
                 PROVE  Held(k)'
      OBVIOUS
    <3>1. pendDb'[k] = "absent" /\ ~IsBusy'
      BY <1>1, NothingIs DEF IsBusy
    <3>2. k \in dirty' \/ msgs'[k] = row[k]
      BY <1>1, <1>2 DEF Held
    <3> QED BY <3>1, <3>2 DEF Held
  <2> QED BY <2>1, <2>2 DEF RowInv
<1> QED BY <1>4, <1>5, <1>6, <1>7, <1>8 DEF ChatInv

LEMMA StepStreamEnds ==
    ASSUME ChatInv, StreamFinishes \/ StreamFails \/ Stop
    PROVE  ChatInv'
<1>1. /\ msgs \in Replies /\ result \in States \cup {"none", "error"} /\ drops \in 0..MaxDrops /\ MaxDrops \in Nat
      /\ action.turn \in 0..MaxTurns
  BY ChatAssumption DEF ChatInv, TypeOK
<1>2. /\ UNCHANGED <<turn, row, chan, queue, snap, snapLost, cur, result, load, props, retries>>
      /\ action' = action \/ action' = NoAction
  BY DEF StreamFinishes, StreamFails, Stop, srvVars, chanVars, propVars, actVars
<1>3. CASE StreamFinishes
  <2>1. IsBusy /\ result # "none" /\ result \in States \ {"running"}
    BY <1>1, <1>3 DEF StreamFinishes, IsBusy, ChatInv, PhaseInv
  <2>2. PICK m : m = [msgs EXCEPT ![cur] = result]
    OBVIOUS
  <2>3. m \in Replies /\ \A k \in Turns : m[k] = msgs[k] \/ (k = cur /\ m[k] = result)
    BY <1>1, <2>1, <2>2 DEF Replies
  <2>4. Idle(m, "ready") /\ finished' = TRUE /\ acted' = acted /\ drops' = drops
    BY <1>3, <2>2 DEF StreamFinishes
  <2> QED BY <1>1, <1>2, <2>1, <2>3, <2>4, StepIdle
<1>4. CASE StreamFails
  <2>1. IsBusy /\ result = "error" /\ drops' = drops /\ finished' = finished
    BY <1>4 DEF StreamFails, propVars
  <2>2. PICK m : m = msgs
    OBVIOUS
  <2>3. Idle(m, "error")
    BY <1>4, <2>2 DEF StreamFails
  <2>4. acted' = acted \/ \E k \in 0..MaxTurns : acted' = [turn |-> k, state |-> "error"]
    BY <1>1, <1>4 DEF StreamFails, actVars
  <2> QED BY <1>1, <1>2, <2>1, <2>2, <2>3, <2>4, StepIdle
<1>5. CASE Stop
  <2>1. IsBusy /\ result = "running" /\ acted' = acted /\ finished' = finished
    BY <1>5 DEF Stop, IsBusy, propVars
  <2>2. PICK m : m = msgs
    OBVIOUS
  <2>3. Idle(m, "ready") /\ drops' \in 0..MaxDrops
    BY <1>1, <1>5, <2>2 DEF Stop
  <2> QED BY <1>1, <1>2, <2>1, <2>2, <2>3, StepIdle
<1> QED BY <1>3, <1>4, <1>5

LEMMA StepPropsEffect ==
    ASSUME ChatInv, PropsEffect
    PROVE  ChatInv'
<1>1. /\ props' = {}
      /\ UNCHANGED <<turn, row, chan, queue, snap, snapLost, status, cur, result, load, finished, action, acted, drops, retries>>
      /\ pendDb' = pendDb
  BY DEF PropsEffect, srvVars, chanVars, actVars
<1>2. PICK p \in props : \/ IsBusy /\ pendInit' = Merge(pendInit, p) /\ UNCHANGED <<msgs, dirty>>
                         \/ /\ ~IsBusy /\ msgs' = Merge(msgs, p) /\ pendInit' = pendInit
                            /\ dirty' = dirty \cup {k \in Turns : msgs[k] # "absent" /\ msgs'[k] # msgs[k]}
  BY DEF PropsEffect
<1>3. p \in Replies /\ msgs \in Replies /\ pendInit \in Replies /\ pendDb \in Replies /\ dirty \subseteq Turns
  BY DEF ChatInv, TypeOK
<1>4. /\ msgs' \in Replies /\ pendInit' \in Replies /\ dirty' \subseteq Turns
      /\ \A k \in Turns : /\ msgs'[k] = msgs[k] \/ (~IsBusy /\ msgs'[k] = p[k])
                          /\ pendInit'[k] = pendInit[k] \/ pendInit'[k] = p[k]
                          /\ k \in dirty => k \in dirty'
                          /\ ~IsBusy /\ msgs[k] # "absent" /\ msgs'[k] # msgs[k] => k \in dirty'
                          /\ IsBusy => msgs'[k] = msgs[k]
  BY <1>2, <1>3, MergeIs
<1>5. TypeOK'
  BY <1>1, <1>4 DEF ChatInv, TypeOK
<1>6. ServerInv'
  BY <1>1 DEF ChatInv, ServerInv
<1>7. PhaseInv'
  BY <1>1, <1>2 DEF ChatInv, PhaseInv, IsBusy
<1>8. CancelInv'
  BY <1>1, <1>4 DEF ChatInv, CancelInv, Uncancelled
<1>9. RowsInv'
  BY <1>1, <1>4 DEF ChatInv, RowsInv, RowInv, Held, IsBusy
<1> QED BY <1>5, <1>6, <1>7, <1>8, <1>9 DEF ChatInv

LEMMA StepHandleRetryAnswer ==
    ASSUME ChatInv, HandleRetryAnswer
    PROVE  ChatInv'
<1>1. /\ ~IsBusy /\ Latest # 0 /\ Latest = cur /\ msgs[cur] = "failed" /\ ~finished /\ retries < MaxRetries
      /\ retries' = retries + 1 /\ action' = [kind |-> "retry", turn |-> cur, answer |-> "none"]
      /\ acted' = [turn |-> 0, state |-> "none"]
      /\ msgs' = [msgs EXCEPT ![cur] = "absent"] /\ status' = "submitted" /\ result' = "none"
      /\ UNCHANGED <<turn, row, chan, queue, snap, snapLost, cur, pendInit, pendDb, dirty, load, props, finished, drops>>
  BY DEF HandleRetryAnswer, ActionsEnabled, NoResult, srvVars, chanVars, propVars
<1>2. /\ msgs \in Replies /\ cur \in 0..MaxTurns /\ retries + 1 \in 0..MaxRetries /\ 0 \in 0..MaxTurns
  BY <1>1, ChatAssumption DEF ChatInv, TypeOK
<1>3. msgs' \in Replies /\ \A k \in Turns : msgs'[k] = IF k = cur THEN "absent" ELSE msgs[k]
  BY <1>1, <1>2 DEF Replies
<1>4. TypeOK' /\ ServerInv'
  BY <1>1, <1>2, <1>3 DEF ChatInv, TypeOK, ServerInv
<1>5. PhaseInv'
  BY <1>1 DEF ChatInv, PhaseInv, IsBusy
<1>6. CancelInv'
  BY <1>1, <1>3 DEF ChatInv, CancelInv, Uncancelled
<1>7. RowsInv'
  <2> SUFFICES ASSUME chan = "ready", ~snapLost, NEW k \in Turns, row[k] # "absent"
               PROVE  RowInv(k)'
    BY <1>1 DEF RowsInv
  <2>1. RowInv(k)
    BY DEF ChatInv, RowsInv
  <2>2. pendDb[k] = "absent"
    BY <1>1, NothingIs DEF ChatInv, PhaseInv
  <2>3. Held(k) => Held(k)'
    BY <1>1, <1>3, <2>2 DEF Held, IsBusy
  <2> QED BY <1>1, <2>1, <2>3 DEF RowInv
<1> QED BY <1>4, <1>5, <1>6, <1>7 DEF ChatInv

-----------------------------------------------------------------------------
(* The channel's steps, and the theorems. *)

\* What receive takes in of a reply is received, and the rest stays as it was.
LEMMA ReceiveKeeps ==
    ASSUME ChatInv, NEW incoming \in Replies, Receive(incoming),
           \A k \in Turns : incoming[k] = "cancelled" => turn[k] = "cancelled",
           UNCHANGED <<row, status, cur, result>>
    PROVE  /\ msgs' \in Replies /\ pendDb' \in Replies /\ pendInit' = pendInit /\ dirty' \subseteq Turns
           /\ ~IsBusy => pendDb' = pendDb
           /\ \A k \in Turns : /\ msgs'[k] = msgs[k] \/ msgs'[k] = incoming[k]
                               /\ pendDb'[k] = pendDb[k] \/ pendDb'[k] = incoming[k]
                               /\ row[k] # "absent" /\ incoming[k] = row[k] => Held(k)'
                               /\ incoming[k] = "absent" /\ Held(k) => Held(k)'
<1>1. msgs \in Replies /\ pendDb \in Replies /\ dirty \subseteq Turns /\ (~IsBusy => pendDb = Nothing)
  BY DEF ChatInv, TypeOK, PhaseInv
<1>2. CASE IsBusy
  <2>1. pendDb' = Merge(pendDb, incoming) /\ UNCHANGED <<msgs, dirty, pendInit>>
    BY <1>2 DEF Receive
  <2>2. pendDb' \in Replies /\ \A k \in Turns : pendDb'[k] = IF incoming[k] # "absent" THEN incoming[k] ELSE pendDb[k]
    BY <1>1, <2>1, MergeIs
  <2> QED BY <1>1, <1>2, <2>1, <2>2 DEF Held, IsBusy
<1>3. CASE ~IsBusy
  <2>1. msgs' = Merge(msgs, incoming) /\ UNCHANGED <<pendDb, pendInit>> /\ dirty' = {k \in dirty : incoming[k] = "absent"}
    BY <1>3 DEF Receive
  <2>2. msgs' \in Replies /\ \A k \in Turns : msgs'[k] = IF incoming[k] # "absent" THEN incoming[k] ELSE msgs[k]
    BY <1>1, <2>1, MergeIs
  <2>3. \A k \in Turns : pendDb'[k] = "absent"
    BY <1>1, <1>3, <2>1, NothingIs
  <2> QED BY <1>1, <1>3, <2>1, <2>2, <2>3 DEF Held, IsBusy
<1> QED BY <1>2, <1>3

LEMMA StepChannel ==
    ASSUME ChatInv, Subscribed \/ ListenerReady \/ ChannelDrops \/ SnapshotRead \/ SnapshotFails
    PROVE  ChatInv'
<1>1. UNCHANGED <<turn, row, status, cur, result, msgs, pendInit, pendDb, dirty, load, props, finished, action, acted, retries>>
  BY DEF Subscribed, ListenerReady, ChannelDrops, SnapshotRead, SnapshotFails, srvVars, viewVars, propVars, actVars
<1>2. /\ drops \in 0..MaxDrops /\ MaxDrops \in Nat /\ row \in Replies /\ queue \in Seq(Events)
      /\ snap = [on |-> snap.on, read |-> snap.read, touched |-> snap.touched] /\ snap.on \in BOOLEAN
      /\ snap.read \subseteq Replies /\ snap.touched \subseteq Turns
      /\ chan # "ready" => queue = << >>
  BY ChatAssumption DEF ChatInv, TypeOK, PhaseInv, Events
<1>3. /\ drops' \in 0..MaxDrops /\ chan' \in {"off", "joined", "ready"} /\ snapLost' \in BOOLEAN
      /\ queue' = queue \/ (queue' = << >> /\ chan' = "off")
      /\ chan' # "ready" => queue' = << >>
      /\ snap' = [on |-> snap'.on, read |-> snap'.read, touched |-> snap'.touched] /\ snap'.on \in BOOLEAN
      /\ snap'.read = {} \/ snap'.read = {row} \/ snap'.read = snap.read
      /\ snap'.touched = {} \/ snap'.touched = snap.touched
      /\ chan' = "ready" /\ ~snapLost' =>
           \/ chan = "ready" /\ ~snapLost /\ snap.on /\ snap' = [snap EXCEPT !.read = {row}] /\ UNCHANGED <<queue>>
           \/ queue' = << >> /\ snap'.on /\ snap'.read = {} /\ snap'.touched = {}
  <2>1. CASE Subscribed
    BY <1>2, <2>1 DEF Subscribed, ReadSnapshot
  <2>2. CASE ListenerReady
    BY <1>2, <2>2 DEF ListenerReady, ReadSnapshot
  <2>3. CASE ChannelDrops
    BY <1>2, <2>3 DEF ChannelDrops, ChatInv, TypeOK
  <2>4. CASE SnapshotRead
    BY <1>2, <2>4 DEF SnapshotRead, ChatInv, TypeOK
  <2>5. CASE SnapshotFails
    BY <1>2, <2>5 DEF SnapshotFails, NoSnap, ChatInv, TypeOK
  <2> QED BY <2>1, <2>2, <2>3, <2>4, <2>5
<1>4. TypeOK'
  <2>1. snap'.read \subseteq Replies /\ snap'.touched \subseteq Turns /\ row' \in Replies
    BY <1>1, <1>2, <1>3
  <2>2. queue' \in Seq(Events)
    <3>1. << >> \in Seq(Events)
      OBVIOUS
    <3> QED BY <1>2, <1>3, <3>1
  <2> QED BY <1>1, <1>3, <2>1, <2>2 DEF ChatInv, TypeOK, Events
<1>5. ServerInv'
  BY <1>1 DEF ChatInv, ServerInv
<1>6. PhaseInv'
  BY <1>1, <1>3 DEF ChatInv, PhaseInv, IsBusy
<1>7. CancelInv'
  <2> SUFFICES ASSUME NEW k \in Turns, turn[k] # "cancelled"
               PROVE  Uncancelled(k)'
    BY <1>1 DEF CancelInv
  <2>1. Uncancelled(k)
    BY DEF ChatInv, CancelInv
  <2>2. \A r \in snap'.read : r[k] # "cancelled"
    BY <1>3, <2>1 DEF Uncancelled
  <2>3. \A i \in DOMAIN queue' : queue'[i].turn = k => queue'[i].st # "cancelled"
    BY <1>3, <2>1 DEF Uncancelled
  <2> QED BY <1>1, <2>1, <2>2, <2>3 DEF Uncancelled
<1>8. RowsInv'
  <2> SUFFICES ASSUME chan' = "ready", ~snapLost', NEW k \in Turns, row[k] # "absent"
               PROVE  RowInv(k)'
    BY <1>1 DEF RowsInv
  <2>1. CASE chan = "ready" /\ ~snapLost /\ snap.on /\ snap' = [snap EXCEPT !.read = {row}] /\ UNCHANGED <<queue>>
    <3>1. RowInv(k)
      BY <2>1 DEF ChatInv, RowsInv
    <3>2. snap'.on /\ snap'.touched = snap.touched /\ snap'.read = {row}
      BY <1>2, <2>1
    <3>3. Held(k) <=> Held(k)'
      BY <1>1 DEF Held, IsBusy
    <3> QED BY <1>1, <2>1, <3>1, <3>2, <3>3 DEF RowInv
  <2>2. CASE queue' = << >> /\ snap'.on /\ snap'.read = {} /\ snap'.touched = {}
    <3>1. LastIs(queue', k, row'[k])
      BY <2>2 DEF LastIs
    <3> QED BY <2>2, <3>1 DEF RowInv
  <2> QED BY <1>3, <2>1, <2>2
<1> QED BY <1>4, <1>5, <1>6, <1>7, <1>8 DEF ChatInv

LEMMA StepOnChange ==
    ASSUME ChatInv, OnChange
    PROVE  ChatInv'
<1>1. PICK e : e = Head(queue)
  OBVIOUS
<1>2. PICK incoming : incoming = [Nothing EXCEPT ![e.turn] = e.st]
  OBVIOUS
<1>3. /\ queue # << >> /\ queue' = Tail(queue) /\ Receive(incoming)
      /\ snap' = IF snap.on THEN [snap EXCEPT !.touched = @ \cup {e.turn}] ELSE snap
      /\ UNCHANGED <<turn, row, chan, snapLost, status, cur, result, load, props, finished, action, acted, drops, retries>>
  BY <1>1, <1>2 DEF OnChange, srvVars, propVars, actVars
<1>4. /\ queue \in Seq(Events) /\ snap.on \in BOOLEAN /\ snap.read \subseteq Replies /\ snap.touched \subseteq Turns
      /\ snap = [on |-> snap.on, read |-> snap.read, touched |-> snap.touched]
  BY DEF ChatInv, TypeOK, PhaseInv, Events
<1>5. /\ queue' \in Seq(Events) /\ e \in Events
      /\ \A i \in DOMAIN queue' : \E j \in DOMAIN queue : queue'[i] = queue[j]
      /\ \E i \in DOMAIN queue : queue[i] = e
      /\ \A k : Waits(queue, k) => Waits(queue', k) \/ e.turn = k
      /\ \A k, st : LastIs(queue, k, st) =>
           /\ LastIs(queue', k, st)
           /\ e.turn = k /\ ~Waits(queue', k) => e.st = st
  BY <1>1, <1>3, <1>4, AfterTail
<1>6. e.turn \in Turns /\ e.st \in States /\ e.st # "absent"
  BY <1>5 DEF Events, States
<1>7. incoming \in Replies /\ \A k \in Turns : incoming[k] = IF k = e.turn THEN e.st ELSE "absent"
  BY <1>2, <1>6, NothingIs DEF Replies
<1>8. \A k \in Turns : incoming[k] = "cancelled" => turn[k] = "cancelled"
  BY <1>5, <1>7 DEF ChatInv, CancelInv, Uncancelled
<1>9. /\ msgs' \in Replies /\ pendDb' \in Replies /\ pendInit' = pendInit /\ dirty' \subseteq Turns
      /\ ~IsBusy => pendDb' = pendDb
      /\ \A k \in Turns : /\ msgs'[k] = msgs[k] \/ msgs'[k] = incoming[k]
                          /\ pendDb'[k] = pendDb[k] \/ pendDb'[k] = incoming[k]
                          /\ row[k] # "absent" /\ incoming[k] = row[k] => Held(k)'
                          /\ incoming[k] = "absent" /\ Held(k) => Held(k)'
  BY <1>3, <1>7, <1>8, ReceiveKeeps
<1>10. /\ snap' = [on |-> snap'.on, read |-> snap'.read, touched |-> snap'.touched]
       /\ snap'.on = snap.on /\ snap'.read = snap.read
       /\ snap.on => snap'.touched = snap.touched \cup {e.turn}
       /\ snap'.touched \subseteq Turns
  BY <1>3, <1>4, <1>6
<1>11. TypeOK'
  BY <1>3, <1>5, <1>9, <1>10 DEF ChatInv, TypeOK, Events
<1>12. ServerInv'
  BY <1>3 DEF ChatInv, ServerInv
<1>13. PhaseInv'
  <2>1. chan = "ready"
    BY <1>3 DEF ChatInv, PhaseInv
  <2> QED BY <1>3, <1>9, <1>10, <2>1 DEF ChatInv, PhaseInv, IsBusy
<1>14. CancelInv'
  <2> SUFFICES ASSUME NEW k \in Turns, turn[k] # "cancelled"
               PROVE  Uncancelled(k)'
    BY <1>3 DEF CancelInv
  <2>1. Uncancelled(k) /\ incoming[k] # "cancelled"
    BY <1>8 DEF ChatInv, CancelInv
  <2>2. \A i \in DOMAIN queue' : queue'[i].turn = k => queue'[i].st # "cancelled"
    BY <1>5, <2>1 DEF Uncancelled
  <2>3. "cancelled" \notin {row'[k], msgs'[k], pendInit'[k], pendDb'[k]}
    BY <1>3, <1>9, <2>1 DEF Uncancelled
  <2> QED BY <1>3, <1>10, <2>1, <2>2, <2>3 DEF Uncancelled
<1>15. RowsInv'
  <2> SUFFICES ASSUME chan = "ready", ~snapLost, NEW k \in Turns, row[k] # "absent"
               PROVE  RowInv(k)'
    BY <1>3 DEF RowsInv
  <2>1. RowInv(k)
    BY DEF ChatInv, RowsInv
  <2>2. LastIs(queue', k, row'[k])
    BY <1>3, <1>5, <2>1 DEF RowInv
  <2>3. CASE k = e.turn
    <3>1. ~Waits(queue', k) => e.st = row[k]
      BY <1>5, <2>1, <2>3 DEF RowInv
    <3>2. ~Waits(queue', k) => Held(k)'
      BY <1>7, <1>9, <2>3, <3>1
    <3> QED BY <1>10, <2>2, <2>3, <3>2 DEF RowInv
  <2>4. CASE k # e.turn
    <3>1. Waits(queue, k) => Waits(queue', k)
      BY <1>5, <2>4
    <3>2. Held(k) => Held(k)'
      BY <1>7, <1>9, <2>4
    <3> QED BY <1>3, <1>10, <2>1, <2>2, <2>4, <3>1, <3>2 DEF RowInv
  <2> QED BY <2>3, <2>4
<1> QED BY <1>11, <1>12, <1>13, <1>14, <1>15 DEF ChatInv

LEMMA StepSnapshotArrives ==
    ASSUME ChatInv, SnapshotArrives
    PROVE  ChatInv'
<1>1. /\ snap.on /\ snap' = [on |-> FALSE, read |-> {}, touched |-> {}]
      /\ UNCHANGED <<turn, row, chan, queue, snapLost, status, cur, result, load, props, finished, action, acted, drops, retries>>
  BY DEF SnapshotArrives, NoSnap, srvVars, propVars, actVars
<1>13. PICK r \in snap.read : Receive(Untouched(r))
  BY DEF SnapshotArrives
<1>2. PICK incoming : r \in snap.read /\ incoming = Untouched(r) /\ Receive(incoming)
  BY <1>13
<1>3. r \in Replies
  BY <1>2 DEF ChatInv, TypeOK
<1>4. incoming \in Replies /\ \A k \in Turns : incoming[k] = IF k \in snap.touched THEN "absent" ELSE r[k]
  BY <1>2, <1>3 DEF Untouched, Replies
<1>5. \A k \in Turns : incoming[k] = "cancelled" => turn[k] = "cancelled"
  BY <1>2, <1>4 DEF ChatInv, CancelInv, Uncancelled
<1>6. /\ msgs' \in Replies /\ pendDb' \in Replies /\ pendInit' = pendInit /\ dirty' \subseteq Turns
      /\ ~IsBusy => pendDb' = pendDb
      /\ \A k \in Turns : /\ msgs'[k] = msgs[k] \/ msgs'[k] = incoming[k]
                          /\ pendDb'[k] = pendDb[k] \/ pendDb'[k] = incoming[k]
                          /\ row[k] # "absent" /\ incoming[k] = row[k] => Held(k)'
                          /\ incoming[k] = "absent" /\ Held(k) => Held(k)'
  BY <1>1, <1>2, <1>4, <1>5, ReceiveKeeps
<1>7. snap'.on = FALSE /\ snap'.read = {} /\ snap'.touched = {}
  BY <1>1
<1>8. TypeOK'
  BY <1>1, <1>6, <1>7 DEF ChatInv, TypeOK
<1>9. ServerInv'
  BY <1>1 DEF ChatInv, ServerInv
<1>10. PhaseInv'
  BY <1>1, <1>6, <1>7 DEF ChatInv, PhaseInv, IsBusy
<1>11. CancelInv'
  <2> SUFFICES ASSUME NEW k \in Turns, turn[k] # "cancelled"
               PROVE  Uncancelled(k)'
    BY <1>1 DEF CancelInv
  <2>1. Uncancelled(k) /\ incoming[k] # "cancelled"
    BY <1>5 DEF ChatInv, CancelInv
  <2>2. "cancelled" \notin {row'[k], msgs'[k], pendInit'[k], pendDb'[k]}
    BY <1>1, <1>6, <2>1 DEF Uncancelled
  <2> QED BY <1>1, <1>7, <2>1, <2>2 DEF Uncancelled
<1>12. RowsInv'
  <2> SUFFICES ASSUME chan = "ready", ~snapLost, NEW k \in Turns, row[k] # "absent"
               PROVE  RowInv(k)'
    BY <1>1 DEF RowsInv
  <2>1. RowInv(k)
    BY DEF ChatInv, RowsInv
  <2>2. ~Waits(queue, k) => Held(k)'
    BY <1>1, <1>2, <1>4, <1>6, <2>1 DEF RowInv
  <2> QED BY <1>1, <1>7, <2>1, <2>2 DEF RowInv
<1> QED BY <1>8, <1>9, <1>10, <1>11, <1>12 DEF ChatInv

LEMMA StepReload ==
    ASSUME ChatInv, Reload
    PROVE  ChatInv'
<1>1. /\ chan' = "off" /\ queue' = << >> /\ snap' = [on |-> FALSE, read |-> {}, touched |-> {}] /\ snapLost' = FALSE
      /\ status' = "ready" /\ result' = "none" /\ msgs' = Nothing /\ pendInit' = Nothing /\ pendDb' = Nothing
      /\ load' = {row} /\ props' = {} /\ finished' = FALSE /\ dirty' = {}
      /\ action' = [kind |-> "none", turn |-> 0, answer |-> "none"] /\ acted' = [turn |-> 0, state |-> "none"]
      /\ UNCHANGED <<turn, row, cur, retries>>
  BY DEF Reload, NoSnap, NoAction, NoResult, srvVars
<1>2. drops' \in 0..MaxDrops /\ << >> \in Seq(Events) /\ 0 \in 0..MaxTurns
  BY ChatAssumption DEF Reload, ChatInv, TypeOK
<1>3. row \in Replies /\ ~IsBusy'
  BY <1>1 DEF ChatInv, TypeOK, IsBusy
<1>4. TypeOK'
  BY <1>1, <1>2, <1>3, NothingIs DEF ChatInv, TypeOK, Events
<1>5. ServerInv' /\ PhaseInv'
  BY <1>1, <1>3 DEF ChatInv, ServerInv, PhaseInv
<1>6. CancelInv'
  BY <1>1, NothingIs DEF ChatInv, CancelInv, Uncancelled
<1>7. RowsInv'
  BY <1>1 DEF RowsInv
<1> QED BY <1>4, <1>5, <1>6, <1>7 DEF ChatInv

LEMMA ChatInvInit ==
    ASSUME Init
    PROVE  ChatInv
<1>1. /\ turn = Nothing /\ row = Nothing /\ chan = "off" /\ queue = << >>
      /\ snap = [on |-> FALSE, read |-> {}, touched |-> {}] /\ snapLost = FALSE
      /\ status = "ready" /\ cur = 0 /\ result = "none" /\ msgs = Nothing /\ pendInit = Nothing /\ pendDb = Nothing
      /\ load = {} /\ props = {} /\ finished = FALSE /\ dirty = {} /\ drops = 0 /\ retries = 0
      /\ action = [kind |-> "none", turn |-> 0, answer |-> "none"] /\ acted = [turn |-> 0, state |-> "none"]
  BY DEF Init, NoSnap, NoAction, NoResult
<1>2. << >> \in Seq(Events) /\ 0 \in 0..MaxTurns /\ 0 \in 0..MaxDrops /\ 0 \in 0..MaxRetries
  BY ChatAssumption
<1>3. TypeOK
  BY <1>1, <1>2, NothingIs DEF TypeOK, Events
<1>4. ServerInv /\ PhaseInv
  BY <1>1, NothingIs DEF ServerInv, PhaseInv, IsBusy, Open
<1>5. CancelInv
  BY <1>1, NothingIs DEF CancelInv, Uncancelled
<1>6. RowsInv
  BY <1>1 DEF RowsInv
<1> QED BY <1>3, <1>4, <1>5, <1>6 DEF ChatInv

LEMMA ChatInvNext ==
    ASSUME ChatInv, [Next]_vars
    PROVE  ChatInv'
<1>1. CASE UNCHANGED vars
  <2>1. UNCHANGED <<turn, row, chan, queue, snap, snapLost, status, cur, result, msgs, pendInit, pendDb, load,
                    props, finished, action, acted, dirty, drops, retries>>
    BY <1>1 DEF vars
  <2>2. RowsInv'
    BY <2>1, RowsFrame DEF ChatInv
  <2>3. TypeOK' /\ ServerInv'
    BY <2>1 DEF ChatInv, TypeOK, ServerInv
  <2>4. PhaseInv'
    BY <2>1 DEF ChatInv, PhaseInv, IsBusy
  <2>5. CancelInv'
    BY <2>1 DEF ChatInv, CancelInv, Uncancelled
  <2> QED BY <2>2, <2>3, <2>4, <2>5 DEF ChatInv
<1>2. CASE Next
  <2>1. CASE AcceptTurn \/ RefuseTurn \/ RerunTurn \/ ReplayTurn \/ CancelTurn
    BY <2>1, StepAcceptTurn, StepRequest, StepCancelTurn
  <2>2. CASE \E k \in Turns : HandOff(k) \/ RunEnds(k) \/ Continue(k) \/ OtherTabRetries(k)
    BY <2>2, StepRun
  <2>3. CASE Send \/ StreamStarts \/ StreamFinishes \/ StreamFails \/ Stop \/ OnFinish \/ HistoryArrives \/ PropsEffect
    BY <2>3, StepSend, StepStreamStarts, StepStreamEnds, StepButtons, StepPropsEffect
  <2>4. CASE HandleCancelAnswer \/ CancelAnswered \/ CancelFails \/ HandleRetryAnswer
    BY <2>4, StepButtons, StepHandleRetryAnswer
  <2>5. CASE Subscribed \/ ListenerReady \/ ChannelDrops \/ OnChange \/ SnapshotRead \/ SnapshotArrives \/ SnapshotFails
             \/ Reload
    BY <2>5, StepChannel, StepOnChange, StepSnapshotArrives, StepReload
  <2> QED BY <1>2, <2>1, <2>2, <2>3, <2>4, <2>5 DEF Next
<1> QED BY <1>1, <1>2

LEMMA ChatInvIsEnough ==
    ASSUME ChatInv
    PROVE  ShowsWhatIsStored
<1>1. Converges
  <2> SUFFICES ASSUME Quiet, NEW k \in Turns \ dirty, row[k] # "absent"
               PROVE  msgs[k] = row[k]
    BY DEF Converges
  <2>1. chan = "ready" /\ queue = << >> /\ ~snap.on /\ ~snapLost /\ ~IsBusy
    BY DEF Quiet
  <2>2. RowInv(k) /\ ~Waits(queue, k)
    BY <2>1 DEF ChatInv, RowsInv, Waits
  <2>3. Held(k) /\ pendDb[k] = "absent"
    BY <2>1, <2>2, NothingIs DEF RowInv, ChatInv, PhaseInv
  <2> QED BY <2>1, <2>3 DEF Held
<1>2. CancelShownIsReal
  <2> SUFFICES ASSUME ContinuationState = "cancelled"
               PROVE  turn[Latest] = "cancelled"
    BY DEF CancelShownIsReal
  <2>1. Latest # 0 /\ Latest \in Turns
    <3>1. Latest # 0
      BY DEF ContinuationState
    <3>2. msgs \in Replies
      BY DEF ChatInv, TypeOK
    <3> QED BY <3>1, <3>2, LatestIs
  <2>2. msgs[Latest] = "cancelled" \/ MatchingActionResult = "cancelled"
    BY <2>1 DEF ContinuationState, Pending
  <2>3. msgs[Latest] = "cancelled" \/ (acted.turn = Latest /\ acted.state = "cancelled")
    BY <2>2 DEF MatchingActionResult
  <2> QED BY <2>1, <2>3 DEF ChatInv, CancelInv, Uncancelled
<1> QED BY <1>1, <1>2 DEF ShowsWhatIsStored, ChatInv

\* Stored replies are on their way or received, and "cancelled" is said of cancelled turns only.
THEOREM ChatInvariant == Spec => []ChatInv
<1>1. Init => ChatInv
  BY ChatInvInit
<1>2. ChatInv /\ [Next]_vars => ChatInv'
  BY ChatInvNext
<1> QED BY <1>1, <1>2, PTL DEF Spec

\* A page for which nothing is on its way shows every reply as it is stored, whatever was lost,
\* buffered, reordered or read again before, and never takes a late acknowledgement for another
\* answer's (useChatRealtime.ts, ChatContainer.tsx).
THEOREM PageConverges == Spec => []ShowsWhatIsStored
<1>1. ChatInv => ShowsWhatIsStored
  BY ChatInvIsEnough
<1> QED BY <1>1, ChatInvariant, PTL

\* No event, snapshot, history or finished stream takes a reply off the screen: only a retry
\* does, or one of the counted reloads (useChatRealtime.ts, mergeChatMessages).
THEOREM RepliesStay == Spec => RepliesKept
<1> DEFINE Stay == \A k \in Turns : msgs[k] # "absent" /\ msgs'[k] = "absent" => retries' # retries \/ drops' # drops
<1>1. ChatInv /\ [Next]_vars => [Stay]_vars
  <2> SUFFICES ASSUME ChatInv, Next, NEW k \in Turns, msgs[k] # "absent", msgs'[k] = "absent"
               PROVE  retries' # retries \/ drops' # drops
    OBVIOUS
  <2>1. /\ msgs \in Replies /\ pendInit \in Replies /\ pendDb \in Replies /\ queue \in Seq(Events)
        /\ snap.read \subseteq Replies /\ props \subseteq Replies /\ drops \in Nat /\ retries \in Nat
        /\ result \in States \cup {"none", "error"}
    BY ChatAssumption DEF ChatInv, TypeOK, Events
  <2>2. CASE UNCHANGED msgs
    BY <2>2
  <2>3. CASE Reload \/ HandleRetryAnswer
    BY <2>1, <2>3 DEF Reload, HandleRetryAnswer
  <2>4. CASE StreamStarts
    BY <2>1, <2>4 DEF StreamStarts, Replies
  <2>5. CASE StreamFinishes \/ StreamFails \/ Stop
    <3>1. PICK m \in Replies : msgs' = Flush(m) /\ m[k] # "absent"
      <4>1. CASE StreamFinishes
        <5>1. result \in States
          BY <2>1, <4>1 DEF StreamFinishes, ChatInv, PhaseInv
        <5>2. [msgs EXCEPT ![cur] = result] \in Replies /\ [msgs EXCEPT ![cur] = result][k] # "absent"
          BY <2>1, <5>1 DEF Replies, States
        <5> QED BY <4>1, <5>2 DEF StreamFinishes, Idle
      <4>2. CASE StreamFails \/ Stop
        BY <2>1, <4>2 DEF StreamFails, Stop, Idle
      <4> QED BY <2>5, <4>1, <4>2
    <3> QED BY <2>1, <3>1, FlushIs
  <2>6. CASE PropsEffect
    BY <2>1, <2>6, MergeIs DEF PropsEffect
  <2>7. CASE OnChange \/ SnapshotArrives
    <3>1. PICK incoming \in Replies : msgs' = msgs \/ msgs' = Merge(msgs, incoming)
      <4>1. CASE OnChange
        <5>1. Head(queue) \in Events
          BY <2>1, <4>1 DEF OnChange
        <5>2. [Nothing EXCEPT ![Head(queue).turn] = Head(queue).st] \in Replies
          BY <5>1, NothingIs DEF Events, Replies
        <5> QED BY <4>1, <5>2 DEF OnChange, Receive
      <4>2. CASE SnapshotArrives
        <5>1. PICK r \in Replies : Receive(Untouched(r))
          BY <2>1, <4>2 DEF SnapshotArrives
        <5>2. Untouched(r) \in Replies
          BY <5>1 DEF Untouched, Replies
        <5> QED BY <5>1, <5>2 DEF Receive
      <4> QED BY <2>7, <4>1, <4>2
    <3> QED BY <2>1, <3>1, MergeIs
  <2>8. \/ UNCHANGED msgs \/ Reload \/ HandleRetryAnswer \/ StreamStarts \/ StreamFinishes \/ StreamFails \/ Stop
        \/ PropsEffect \/ OnChange \/ SnapshotArrives
    BY DEF Next, viewVars, AcceptTurn, RefuseTurn, RerunTurn, ReplayTurn, CancelTurn, HandOff, RunEnds, Continue,
           OtherTabRetries, Send, OnFinish, HistoryArrives, HandleCancelAnswer, CancelAnswered, CancelFails,
           Subscribed, ListenerReady, ChannelDrops, SnapshotRead, SnapshotFails
  <2> QED BY <2>2, <2>3, <2>4, <2>5, <2>6, <2>7, <2>8
<1> QED BY <1>1, ChatInvariant, PTL DEF Spec, RepliesKept

-----------------------------------------------------------------------------
(***************************************************************************)
(* One run of the agent keeps its allowance and its promise about the turn, *)
(* for any limits on calls, steps, characters, sources and parts, whatever  *)
(* the model, the backend, the connections and the other runs do.           *)
(***************************************************************************)

\* The records the run keeps.
Runs == [pc : {"history", "loop", "finish", "fail", "over"},
         runtime : {"api", "codex_local"}, readOnly : BOOLEAN, text : BOOLEAN,
         calls : 0..MaxCalls, step : 1..MaxSteps, stopped : BOOLEAN, left : Int,
         sources : Nat, chips : Nat, receipts : Nat, waiting : BOOLEAN,
         quota : BOOLEAN,
         error : {"none", "cancelled", "quota_exceeded", "model_unavailable"}]

RunTurns ==
    [status : {"running", "waiting_task", "finalizing", "completed", "failed", "cancelled"},
     leased : BOOLEAN, mine : BOOLEAN]

RecordsTyped ==
    /\ run \in Runs
    /\ runTurn \in RunTurns
    /\ kept \subseteq {"handoff", "reply"}
    /\ call \in [Calls -> [tool : Tools, state : CallStates]]
    /\ cache \in {"none", "reading", "ready", "rejected"}
    /\ post \in [{"save", "fail"} -> PostStates]
    /\ aborted \in BOOLEAN
    /\ given \in Int
    /\ told \in {"nothing", "completed", "waiting_task", "error", "quota"}

\* Calls are made in order.
CallsInOrder == \A i \in Calls : i > run.calls => call[i].state = "idle"

\* The material handed out and the budget left make up the budget.
BudgetSplit == run.left >= 0 /\ given + run.left = Budget

\* One receipt for a finished call at most, and no more sources than are shown.
Finished == {i \in Calls : call[i].state = "done"}

PartsCounted == run.receipts <= Cardinality(Finished) /\ run.chips <= PublicSources

\* The caller is told something when the run ends.
ToldAtTheEnd == told # "nothing" => run.pc = "over"

\* What the run believes of the database is there.
Durable ==
    /\ run.waiting => "handoff" \in kept
    /\ \A i \in Calls : call[i].state = "handoff" => "handoff" \in kept
    /\ post["save"] = "true" => "reply" \in kept
    /\ "reply" \in kept => post["save"] # "unsent"

\* The saving call is sent once the calls have settled, by a run that met no exhausted
\* allowance; from then on no call can report one.
SavedAfterSettling ==
    /\ post["save"] # "unsent" =>
         /\ run.pc \in {"finish", "fail", "over"}
         /\ \A i \in Calls : call[i].state \notin Waiting
         /\ ~run.quota
    /\ run.pc = "finish" => post["save"] # "unsent"
    /\ told \in {"completed", "waiting_task"} => post["save"] # "unsent"

RunInv ==
    /\ RecordsTyped
    /\ CallsInOrder
    /\ BudgetSplit
    /\ PartsCounted
    /\ ToldAtTheEnd
    /\ Durable
    /\ SavedAfterSettling

-----------------------------------------------------------------------------
(* Lemmas. *)

\* The smaller of two integers.
LEMMA MinPair ==
    ASSUME NEW a \in Int, NEW b \in Int
    PROVE  /\ Min({a, b}) \in Int
           /\ Min({a, b}) <= a /\ Min({a, b}) <= b
           /\ Min({a, b}) \in {a, b}
<1>1. \E x \in {a, b} : \A y \in {a, b} : x <= y
  BY a <= b \/ b <= a
<1> QED
  BY <1>1 DEF Min

\* There are at most MaxCalls finished calls.
LEMMA FinishedBounded ==
    IsFiniteSet(Finished) /\ Cardinality(Finished) \in 0..MaxCalls
<1>1. IsFiniteSet(Calls) /\ Cardinality(Calls) = MaxCalls
  BY FS_Interval, AgentRunAssumption DEF Calls
<1>2. Finished \in SUBSET Calls
  BY DEF Finished
<1>3. IsFiniteSet(Finished) /\ Cardinality(Finished) <= Cardinality(Calls)
  BY <1>1, <1>2, FS_Subset
<1>4. Cardinality(Finished) \in Nat
  BY <1>3, FS_CardinalityType
<1> QED
  BY <1>1, <1>3, <1>4, AgentRunAssumption

\* No call becomes unfinished.
LEMMA FinishedGrows ==
    ASSUME NEW i \in Calls, NEW s, RecordsTyped, call[i].state # "done",
           call' = [call EXCEPT ![i].state = s]
    PROVE  /\ s = "done" => Cardinality(Finished') = Cardinality(Finished) + 1
           /\ s # "done" => Finished' = Finished
<1>1. CASE s = "done"
  <2>1. Finished' = Finished \cup {i} /\ i \notin Finished
    BY <1>1 DEF Finished, RecordsTyped
  <2> QED
    BY <1>1, <2>1, FinishedBounded, FS_AddElement
<1>2. CASE s # "done"
  BY <1>2 DEF Finished, RecordsTyped
<1> QED
  BY <1>1, <1>2

\* A run that sends its failing call, or ends, changes no count.
LEMMA Counted ==
    ASSUME RunInv, UNCHANGED call, run'.receipts = run.receipts, run'.chips = run.chips
    PROVE  PartsCounted'
BY DEF RunInv, PartsCounted, Finished

-----------------------------------------------------------------------------
(* The invariant holds at first, and every step keeps it. *)

LEMMA InitRun == AgentRunInit => RunInv
<1> SUFFICES ASSUME AgentRunInit PROVE RunInv
  OBVIOUS
<1>1. RecordsTyped
  <2>1. PICK runtime \in {"api", "codex_local"}, continuation \in BOOLEAN :
          /\ run = [pc |-> "history", runtime |-> runtime, readOnly |-> continuation,
                    text |-> FALSE, calls |-> 0, step |-> 1, stopped |-> FALSE, left |-> Budget,
                    sources |-> 0, chips |-> 0, receipts |-> 0, waiting |-> FALSE,
                    quota |-> FALSE, error |-> "none"]
          /\ runTurn = [status |-> IF continuation THEN "finalizing" ELSE "running",
                        leased |-> TRUE, mine |-> TRUE]
    BY DEF AgentRunInit
  <2>2. run \in Runs /\ runTurn \in RunTurns
    BY <2>1, AgentRunAssumption DEF Runs, RunTurns
  <2>3. call \in [Calls -> [tool : Tools, state : CallStates]]
    BY DEF AgentRunInit, Tools, CallStates
  <2>4. post \in [{"save", "fail"} -> PostStates]
    BY DEF AgentRunInit, PostStates
  <2>5. aborted \in BOOLEAN
    BY DEF AgentRunInit
  <2>6. given \in Int
    BY DEF AgentRunInit
  <2> QED
    BY <2>2, <2>3, <2>4, <2>5, <2>6 DEF AgentRunInit, RecordsTyped
<1>2. PartsCounted
  BY FinishedBounded, AgentRunAssumption DEF AgentRunInit, PartsCounted
<1>3. CallsInOrder /\ BudgetSplit /\ ToldAtTheEnd /\ Durable /\ SavedAfterSettling
  BY AgentRunAssumption
     DEF AgentRunInit, CallsInOrder, BudgetSplit, ToldAtTheEnd, Durable, SavedAfterSettling, Waiting
<1> QED
  BY <1>1, <1>2, <1>3 DEF RunInv

\* What other actors do to the turn.
LEMMA OthersKeep ==
    ASSUME RunInv, NEW t \in RunTurns, Others(t)
    PROVE  RunInv'
BY DEF RunInv, Others, RecordsTyped, CallsInOrder, BudgetSplit, PartsCounted, Finished,
       ToldAtTheEnd, Durable, SavedAfterSettling

\* Throwing keeps the types.
LEMMA ThrowTyped ==
    ASSUME RecordsTyped, NEW posts \in [{"save", "fail"} -> PostStates], Throw(posts)
    PROVE  /\ run' \in Runs
           /\ post' \in [{"save", "fail"} -> PostStates]
<1>1. ErrorCode \in {"cancelled", "quota_exceeded", "model_unavailable"}
  BY DEF ErrorCode
<1>2. run' \in Runs
  BY <1>1 DEF Throw, RecordsTyped, Runs
<1>3. post' \in [{"save", "fail"} -> PostStates]
  BY DEF Throw, PostStates
<1> QED
  BY <1>2, <1>3

\* The run starts its loop or fails.
LEMMA ReadHistoryKeeps ==
    ASSUME RunInv, ReadHistory
    PROVE  RunInv'
<1> USE DEF RunInv
<1>1. RecordsTyped'
  <2>1. run' \in Runs /\ post' \in [{"save", "fail"} -> PostStates]
    <3>1. CASE Throw(post)
      BY <3>1, ThrowTyped DEF RecordsTyped
    <3>2. CASE run' = [run EXCEPT !.pc = "loop"] /\ UNCHANGED post
      BY <3>2 DEF RecordsTyped, Runs
    <3> QED
      BY <3>1, <3>2 DEF ReadHistory
  <2> QED
    BY <2>1 DEF ReadHistory, RecordsTyped
<1>2. CallsInOrder' /\ BudgetSplit' /\ ToldAtTheEnd'
  BY DEF RecordsTyped, Runs, CallsInOrder, BudgetSplit, ToldAtTheEnd, ReadHistory, Throw, ErrorCode
<1>3. PartsCounted'
  BY DEF RecordsTyped, Runs, PartsCounted, Finished, ReadHistory, Throw, ErrorCode
<1>4. Durable' /\ SavedAfterSettling'
  BY DEF RecordsTyped, Runs, Durable, SavedAfterSettling, Waiting, ReadHistory, Throw, ErrorCode
<1> QED
  BY <1>1, <1>2, <1>3, <1>4

\* Text is streamed.
LEMMA StreamTextKeeps ==
    ASSUME RunInv, StreamText
    PROVE  RunInv'
<1> USE DEF RunInv
<1>1. RecordsTyped'
  BY AgentRunAssumption DEF RecordsTyped, Runs, RunTurns, CallStates, PostStates, Tools, StreamText
<1>2. CallsInOrder' /\ BudgetSplit' /\ ToldAtTheEnd'
  BY DEF RecordsTyped, Runs, CallsInOrder, BudgetSplit, ToldAtTheEnd, StreamText
<1>3. PartsCounted'
  BY DEF RecordsTyped, Runs, PartsCounted, Finished, StreamText
<1>4. Durable' /\ SavedAfterSettling'
  BY DEF RecordsTyped, Runs, Durable, SavedAfterSettling, Waiting, StreamText
<1> QED
  BY <1>1, <1>2, <1>3, <1>4

\* A step of the loop ends.
LEMMA StepEndsKeeps ==
    ASSUME RunInv, StepEnds
    PROVE  RunInv'
<1> USE DEF RunInv
<1>1. RecordsTyped'
  <2>1. run' \in Runs
    <3>1. CASE run' = [run EXCEPT !.stopped = TRUE]
      BY <3>1 DEF RecordsTyped, Runs
    <3>2. CASE run.step # MaxSteps /\ run' = [run EXCEPT !.step = @ + 1]
      BY <3>2, AgentRunAssumption DEF RecordsTyped, Runs
    <3> QED
      BY <3>1, <3>2 DEF StepEnds
  <2> QED
    BY <2>1 DEF StepEnds, RecordsTyped
<1>2. CallsInOrder' /\ BudgetSplit' /\ ToldAtTheEnd'
  BY DEF RecordsTyped, Runs, CallsInOrder, BudgetSplit, ToldAtTheEnd, StepEnds, Settled
<1>3. PartsCounted'
  BY DEF RecordsTyped, Runs, PartsCounted, Finished, StepEnds, Settled
<1>4. Durable' /\ SavedAfterSettling'
  BY DEF RecordsTyped, Runs, Durable, SavedAfterSettling, Waiting, StepEnds, Settled
<1> QED
  BY <1>1, <1>2, <1>3, <1>4

\* The source is read, or is not.
LEMMA SourceArrivesKeeps ==
    ASSUME RunInv, SourceArrives
    PROVE  RunInv'
<1> USE DEF RunInv
<1>1. RecordsTyped'
  BY AgentRunAssumption DEF RecordsTyped, Runs, RunTurns, CallStates, PostStates, Tools, SourceArrives
<1>2. CallsInOrder' /\ BudgetSplit' /\ ToldAtTheEnd'
  BY DEF RecordsTyped, Runs, CallsInOrder, BudgetSplit, ToldAtTheEnd, SourceArrives
<1>3. PartsCounted'
  BY DEF RecordsTyped, Runs, PartsCounted, Finished, SourceArrives
<1>4. Durable' /\ SavedAfterSettling'
  BY DEF RecordsTyped, Runs, Durable, SavedAfterSettling, Waiting, SourceArrives
<1> QED
  BY <1>1, <1>2, <1>3, <1>4

\* The signal is aborted.
LEMMA AbortKeeps ==
    ASSUME RunInv, Abort
    PROVE  RunInv'
<1> USE DEF RunInv
<1>1. RecordsTyped'
  BY AgentRunAssumption DEF RecordsTyped, Runs, RunTurns, CallStates, PostStates, Tools, Abort
<1>2. CallsInOrder' /\ BudgetSplit' /\ ToldAtTheEnd'
  BY DEF RecordsTyped, Runs, CallsInOrder, BudgetSplit, ToldAtTheEnd, Abort
<1>3. PartsCounted'
  BY DEF RecordsTyped, Runs, PartsCounted, Finished, Abort
<1>4. Durable' /\ SavedAfterSettling'
  BY DEF RecordsTyped, Runs, Durable, SavedAfterSettling, Waiting, Abort
<1> QED
  BY <1>1, <1>2, <1>3, <1>4

\* The model fails.
LEMMA ModelFailsKeeps ==
    ASSUME RunInv, ModelFails
    PROVE  RunInv'
<1> USE DEF RunInv
<1>1. RecordsTyped'
  BY AgentRunAssumption DEF RecordsTyped, Runs, RunTurns, CallStates, PostStates, Tools, ModelFails, Throw, ErrorCode
<1>2. CallsInOrder' /\ BudgetSplit' /\ ToldAtTheEnd'
  BY DEF RecordsTyped, Runs, CallsInOrder, BudgetSplit, ToldAtTheEnd, ModelFails, Throw, ErrorCode
<1>3. PartsCounted'
  BY DEF RecordsTyped, Runs, PartsCounted, Finished, ModelFails, Throw, ErrorCode
<1>4. Durable' /\ SavedAfterSettling'
  BY DEF RecordsTyped, Runs, Durable, SavedAfterSettling, Waiting, ModelFails, Throw, ErrorCode
<1> QED
  BY <1>1, <1>2, <1>3, <1>4

\* The model has finished.
LEMMA ModelEndsKeeps ==
    ASSUME RunInv, ModelEnds
    PROVE  RunInv'
<1> USE DEF RunInv
<1>1. RecordsTyped'
  <2>1. run' \in Runs /\ post' \in [{"save", "fail"} -> PostStates]
    <3>1. CASE Throw(post)
      BY <3>1, ThrowTyped DEF RecordsTyped
    <3>2. CASE run' = [run EXCEPT !.pc = "finish"] /\ post' = [post EXCEPT !["save"] = "sent"]
      BY <3>2 DEF RecordsTyped, Runs, PostStates
    <3> QED
      BY <3>1, <3>2 DEF ModelEnds
  <2> QED
    BY <2>1 DEF ModelEnds, RecordsTyped
<1>2. CallsInOrder' /\ BudgetSplit' /\ ToldAtTheEnd'
  BY DEF RecordsTyped, Runs, CallsInOrder, BudgetSplit, ToldAtTheEnd, ModelEnds, Throw, ErrorCode, Settled, Publishable
<1>3. PartsCounted'
  BY DEF RecordsTyped, Runs, PartsCounted, Finished, ModelEnds, Throw, ErrorCode, Settled, Publishable
<1>4. Durable' /\ SavedAfterSettling'
  BY DEF RecordsTyped, Runs, Durable, SavedAfterSettling, Waiting, ModelEnds, Throw, ErrorCode, Settled, Publishable
<1> QED
  BY <1>1, <1>2, <1>3, <1>4

\* The reply is stored, or refused.
LEMMA FinishSavesKeeps ==
    ASSUME RunInv, FinishSaves
    PROVE  RunInv'
<1> USE DEF RunInv
<1>1. RecordsTyped'
  BY AgentRunAssumption DEF RecordsTyped, Runs, RunTurns, CallStates, PostStates, Tools, FinishSaves, MayFinish, Answered
<1>2. CallsInOrder' /\ BudgetSplit' /\ ToldAtTheEnd'
  BY DEF RecordsTyped, Runs, CallsInOrder, BudgetSplit, ToldAtTheEnd, FinishSaves, MayFinish, Answered
<1>3. PartsCounted'
  BY DEF RecordsTyped, Runs, PartsCounted, Finished, FinishSaves, MayFinish, Answered
<1>4. Durable' /\ SavedAfterSettling'
  BY DEF RecordsTyped, Runs, Durable, SavedAfterSettling, Waiting, FinishSaves, MayFinish, Answered
<1> QED
  BY <1>1, <1>2, <1>3, <1>4

\* The failure is stored.
LEMMA FinishFailsKeeps ==
    ASSUME RunInv, FinishFails
    PROVE  RunInv'
<1> USE DEF RunInv
<1>1. RecordsTyped'
  BY AgentRunAssumption DEF RecordsTyped, Runs, RunTurns, CallStates, PostStates, Tools, FinishFails, MayFinish, Answered
<1>2. CallsInOrder' /\ BudgetSplit' /\ ToldAtTheEnd'
  BY DEF RecordsTyped, Runs, CallsInOrder, BudgetSplit, ToldAtTheEnd, FinishFails, MayFinish, Answered
<1>3. PartsCounted'
  BY DEF RecordsTyped, Runs, PartsCounted, Finished, FinishFails, MayFinish, Answered
<1>4. Durable' /\ SavedAfterSettling'
  BY DEF RecordsTyped, Runs, Durable, SavedAfterSettling, Waiting, FinishFails, MayFinish, Answered
<1> QED
  BY <1>1, <1>2, <1>3, <1>4

\* The saving call was answered.
LEMMA SavedKeeps ==
    ASSUME RunInv, Saved
    PROVE  RunInv'
<1> USE DEF RunInv
<1>1. RecordsTyped'
  <2>1. [post EXCEPT !["save"] = "done"] \in [{"save", "fail"} -> PostStates]
    BY DEF RecordsTyped, PostStates
  <2>2. run' \in Runs /\ post' \in [{"save", "fail"} -> PostStates]
    <3>1. CASE Throw([post EXCEPT !["save"] = "done"])
      BY <2>1, <3>1, ThrowTyped
    <3>2. CASE run' = [run EXCEPT !.pc = "over"] /\ post' = [post EXCEPT !["save"] = "done"]
      BY <2>1, <3>2 DEF RecordsTyped, Runs
    <3> QED
      BY <3>1, <3>2 DEF Saved
  <2>3. told' \in {"nothing", "completed", "waiting_task", "error", "quota"}
    BY DEF Saved, RecordsTyped
  <2> QED
    BY <2>2, <2>3 DEF Saved, RecordsTyped
<1>2. CallsInOrder' /\ BudgetSplit' /\ ToldAtTheEnd'
  BY DEF RecordsTyped, Runs, CallsInOrder, BudgetSplit, ToldAtTheEnd, Saved, Returns, Throw, ErrorCode
<1>3. PartsCounted'
  BY DEF RecordsTyped, Runs, PartsCounted, Finished, Saved, Returns, Throw, ErrorCode
<1>4. Durable' /\ SavedAfterSettling'
  <2>1. /\ post' = [save |-> "done", fail |-> post'["fail"]]
        /\ run'.pc \in {"fail", "over"} /\ run'.quota = run.quota /\ run'.waiting = run.waiting
    BY DEF Saved, Throw, RecordsTyped, Runs
  <2>2. UNCHANGED <<kept, call>> /\ post["save"] # "unsent" /\ post'["save"] = "done"
    BY <2>1 DEF Saved
  <2>3. Durable'
    BY <2>1, <2>2 DEF Durable
  <2> QED
    BY <2>1, <2>2, <2>3 DEF SavedAfterSettling
<1> QED
  BY <1>1, <1>2, <1>3, <1>4

\* The saving call was refused or not answered.
LEMMA SaveLostKeeps ==
    ASSUME RunInv, SaveLost
    PROVE  RunInv'
<1> USE DEF RunInv
<1>1. RecordsTyped'
  <2> DEFINE posts == [post EXCEPT !["save"] = IF @ = "sent" THEN "late" ELSE "done"]
  <2>1. posts \in [{"save", "fail"} -> PostStates]
    BY DEF RecordsTyped, PostStates
  <2>2. run' \in Runs /\ post' \in [{"save", "fail"} -> PostStates]
    BY <2>1, ThrowTyped DEF SaveLost
  <2> QED
    BY <2>2 DEF SaveLost, RecordsTyped
<1>2. CallsInOrder' /\ BudgetSplit' /\ ToldAtTheEnd'
  BY DEF RecordsTyped, Runs, CallsInOrder, BudgetSplit, ToldAtTheEnd, SaveLost, Throw, ErrorCode
<1>3. PartsCounted'
  BY DEF RecordsTyped, Runs, PartsCounted, Finished, SaveLost, Throw, ErrorCode
<1>4. Durable' /\ SavedAfterSettling'
  BY DEF RecordsTyped, Runs, Durable, SavedAfterSettling, Waiting, SaveLost, Throw, ErrorCode
<1> QED
  BY <1>1, <1>2, <1>3, <1>4

\* The failing run ends.
LEMMA FailedKeeps ==
    ASSUME RunInv, Failed
    PROVE  RunInv'
<1> USE DEF RunInv
<1>1. RecordsTyped'
  BY AgentRunAssumption DEF RecordsTyped, Runs, RunTurns, CallStates, PostStates, Tools, Failed
<1>2. CallsInOrder' /\ BudgetSplit' /\ ToldAtTheEnd'
  BY DEF RecordsTyped, Runs, CallsInOrder, BudgetSplit, ToldAtTheEnd, Failed
<1>3. PartsCounted'
  BY DEF RecordsTyped, Runs, PartsCounted, Finished, Failed
<1>4. Durable' /\ SavedAfterSettling'
  BY DEF RecordsTyped, Runs, Durable, SavedAfterSettling, Waiting, Failed
<1> QED
  BY <1>1, <1>2, <1>3, <1>4

\* The model calls a tool.
LEMMA StartCallKeeps ==
    ASSUME RunInv, NEW tool \in Tools, StartCall(tool)
    PROVE  RunInv'
<1> USE DEF RunInv
<1>1. RecordsTyped'
  <2>1. run' \in Runs
    BY AgentRunAssumption DEF StartCall, RecordsTyped, Runs
  <2>2. call' \in [Calls -> [tool : Tools, state : CallStates]]
    BY DEF StartCall, RecordsTyped, CallStates
  <2>3. cache' \in {"none", "reading", "ready", "rejected"}
    BY DEF StartCall, RecordsTyped
  <2> QED
    BY <2>1, <2>2, <2>3 DEF StartCall, RecordsTyped
<1>2. CallsInOrder' /\ BudgetSplit' /\ ToldAtTheEnd'
  BY DEF RecordsTyped, Runs, CallsInOrder, BudgetSplit, ToldAtTheEnd, StartCall, Calls
<1>3. PartsCounted'
  <2>1. run.calls + 1 \in Calls /\ call[run.calls + 1].state = "idle"
    BY AgentRunAssumption DEF StartCall, RecordsTyped, Runs, CallsInOrder, Calls
  <2>2. Finished' = Finished
    BY <2>1 DEF StartCall, RecordsTyped, Finished
  <2>3. run'.receipts = run.receipts /\ run'.chips = run.chips
    BY DEF StartCall, RecordsTyped, Runs
  <2> QED
    BY <2>2, <2>3 DEF PartsCounted
<1>4. Durable' /\ SavedAfterSettling'
  BY DEF RecordsTyped, Runs, Durable, SavedAfterSettling, Waiting, StartCall, Calls
<1> QED
  BY <1>1, <1>2, <1>3, <1>4

\* A call finds the rejected source.
LEMMA ReadRejectedKeeps ==
    ASSUME RunInv, NEW i \in Calls, ReadRejected(i)
    PROVE  RunInv'
<1> USE DEF RunInv
<1>1. RecordsTyped'
  BY AgentRunAssumption DEF RecordsTyped, Runs, RunTurns, CallStates, PostStates, Tools, ReadRejected, Calls
<1>2. CallsInOrder' /\ BudgetSplit' /\ ToldAtTheEnd'
  BY DEF RecordsTyped, Runs, CallsInOrder, BudgetSplit, ToldAtTheEnd, ReadRejected, Calls
<1>3. PartsCounted'
  <2>1. call[i].state # "done" /\ call' = [call EXCEPT ![i].state = "done"]
    BY DEF ReadRejected
  <2>2. Cardinality(Finished') = Cardinality(Finished) + 1
    BY <2>1, FinishedGrows
  <2> QED
    BY <2>2, FinishedBounded DEF ReadRejected, PartsCounted, RecordsTyped, Runs
<1>4. Durable' /\ SavedAfterSettling'
  BY DEF RecordsTyped, Runs, Durable, SavedAfterSettling, Waiting, ReadRejected, Calls
<1> QED
  BY <1>1, <1>2, <1>3, <1>4

\* The backend carries out a command.
LEMMA ActKeeps ==
    ASSUME RunInv, NEW i \in Calls, Act(i)
    PROVE  RunInv'
<1> USE DEF RunInv
<1>1. RecordsTyped'
  <2>1. PICK answer \in {"handoff", "quota", "refused"} :
          /\ runTurn' = IF answer = "handoff" THEN [runTurn EXCEPT !.status = "waiting_task"]
                       ELSE runTurn
          /\ kept' = IF answer = "handoff" THEN kept \cup {"handoff"} ELSE kept
          /\ call' = [call EXCEPT ![i].state = IF @ = "late" THEN "done" ELSE answer]
    BY DEF Act
  <2>2. runTurn' \in RunTurns
    BY <2>1 DEF RecordsTyped, RunTurns
  <2>3. call' \in [Calls -> [tool : Tools, state : CallStates]]
    BY <2>1 DEF RecordsTyped, CallStates
  <2>4. kept' \subseteq {"handoff", "reply"}
    BY <2>1 DEF RecordsTyped
  <2> QED
    BY <2>2, <2>3, <2>4 DEF Act, RecordsTyped
<1>2. CallsInOrder' /\ BudgetSplit' /\ ToldAtTheEnd'
  BY DEF RecordsTyped, Runs, CallsInOrder, BudgetSplit, ToldAtTheEnd, Act, Calls
<1>3. PartsCounted'
  <2>1. PICK s : call' = [call EXCEPT ![i].state = s]
    BY DEF Act
  <2>2. call[i].state # "done" /\ UNCHANGED run
    BY DEF Act
  <2>3. Cardinality(Finished') \in {Cardinality(Finished), Cardinality(Finished) + 1}
    BY <2>1, <2>2, FinishedGrows
  <2> QED
    BY <2>2, <2>3, FinishedBounded DEF PartsCounted, RecordsTyped, Runs
<1>4. Durable' /\ SavedAfterSettling'
  BY DEF RecordsTyped, Runs, Durable, SavedAfterSettling, Waiting, Act, Calls
<1> QED
  BY <1>1, <1>2, <1>3, <1>4

\* The run sees the answer of a command.
LEMMA ActAnsweredKeeps ==
    ASSUME RunInv, NEW i \in Calls, ActAnswered(i)
    PROVE  RunInv'
<1> USE DEF RunInv
<1>1. RecordsTyped'
  <2>1. run' \in Runs
    <3>1. CASE call[i].state = "handoff"
      <4>1. run' = [run EXCEPT !.waiting = TRUE, !.receipts = @ + 1]
        BY <3>1 DEF ActAnswered
      <4>2. run.receipts + 1 \in Nat
        BY DEF RecordsTyped, Runs
      <4> QED
        BY <4>1, <4>2 DEF RecordsTyped, Runs
    <3>2. CASE call[i].state = "quota"
      BY <3>2 DEF ActAnswered, RecordsTyped, Runs
    <3>3. CASE call[i].state = "refused"
      BY <3>3 DEF ActAnswered, RecordsTyped
    <3> QED
      BY <3>1, <3>2, <3>3 DEF ActAnswered
  <2>2. call' \in [Calls -> [tool : Tools, state : CallStates]]
    BY DEF ActAnswered, RecordsTyped, CallStates
  <2> QED
    BY <2>1, <2>2 DEF ActAnswered, RecordsTyped
<1>2. CallsInOrder' /\ BudgetSplit' /\ ToldAtTheEnd'
  BY DEF RecordsTyped, Runs, CallsInOrder, BudgetSplit, ToldAtTheEnd, ActAnswered, Calls
<1>3. PartsCounted'
  <2>1. Cardinality(Finished') = Cardinality(Finished) + 1
    BY FinishedGrows DEF ActAnswered
  <2>2. run'.receipts \in {run.receipts, run.receipts + 1} /\ run'.chips = run.chips
    BY DEF ActAnswered, RecordsTyped, Runs
  <2> QED
    BY <2>1, <2>2, FinishedBounded DEF PartsCounted, RecordsTyped, Runs
<1>4. Durable'
  BY DEF RecordsTyped, Runs, Durable, ActAnswered
<1>5. SavedAfterSettling'
  BY DEF RecordsTyped, Runs, SavedAfterSettling, Waiting, ActAnswered
<1> QED
  BY <1>1, <1>2, <1>3, <1>4, <1>5

\* The wait for a call ends.
LEMMA CallLostKeeps ==
    ASSUME RunInv, NEW i \in Calls, CallLost(i)
    PROVE  RunInv'
<1> USE DEF RunInv
<1>1. RecordsTyped'
  BY AgentRunAssumption DEF RecordsTyped, Runs, RunTurns, CallStates, PostStates, Tools, CallLost, Calls
<1>2. CallsInOrder' /\ BudgetSplit' /\ ToldAtTheEnd'
  BY DEF RecordsTyped, Runs, CallsInOrder, BudgetSplit, ToldAtTheEnd, CallLost, Waiting
<1>3. PartsCounted'
  <2>1. PICK s : call' = [call EXCEPT ![i].state = s]
    BY DEF CallLost
  <2>2. call[i].state # "done" /\ UNCHANGED run
    BY DEF CallLost, Waiting
  <2>3. Cardinality(Finished') \in {Cardinality(Finished), Cardinality(Finished) + 1}
    BY <2>1, <2>2, FinishedGrows
  <2> QED
    BY <2>2, <2>3, FinishedBounded DEF PartsCounted, RecordsTyped, Runs
<1>4. Durable' /\ SavedAfterSettling'
  BY DEF RecordsTyped, Runs, Durable, SavedAfterSettling, Waiting, CallLost, Calls
<1> QED
  BY <1>1, <1>2, <1>3, <1>4

\* A call gets references and material: no more than the budget has left.
LEMMA DeliverKeeps ==
    ASSUME RunInv, NEW i \in Calls, NEW length \in Lengths, NEW n \in Nat,
           call[i].state = "asking", Deliver(i, length, n)
    PROVE  RunInv'
<1> USE DEF RunInv
<1> DEFINE part == Min({length, Allowance})
<1>1. part \in Nat /\ part <= run.left
  <2>1. run.left \in Int /\ PerCall \in Int /\ length \in Int
    BY AgentRunAssumption DEF RecordsTyped, Runs
  <2>2. run.left >= 0 /\ PerCall >= 0 /\ length >= 0
    BY AgentRunAssumption DEF BudgetSplit
  <2>3. /\ Allowance \in Int /\ Allowance <= run.left
        /\ Allowance \in {run.left, PerCall}
    BY <2>1, MinPair DEF Allowance
  <2>4. part \in Int /\ part <= Allowance /\ part \in {length, Allowance}
    BY <2>1, <2>3, MinPair
  <2> HIDE DEF part
  <2> QED
    BY <2>1, <2>2, <2>3, <2>4
<1> DEFINE shown == Public(run.sources, run.chips, n)
<1>2. shown \in Nat /\ shown <= PublicSources
  <2>1. run.sources + n \in Int /\ run.sources + n >= 0 /\ PublicSources \in Int /\ PublicSources >= 0
    BY AgentRunAssumption DEF RecordsTyped, Runs
  <2>2. shown \in Int /\ shown <= PublicSources /\ shown \in {run.sources + n, PublicSources}
    BY <2>1, MinPair DEF Public
  <2> HIDE DEF shown
  <2> QED
    BY <2>1, <2>2
<1>3. /\ run' = [run EXCEPT !.left = @ - part, !.sources = @ + n, !.chips = shown]
      /\ given' = given + part
      /\ call' = [call EXCEPT ![i].state = "done"]
      /\ UNCHANGED <<runTurn, kept, cache, post, aborted, told>>
  BY DEF Deliver
<1> HIDE DEF part, shown
<1>4. run' \in Runs
  <2>1. run.left - part \in Int /\ run.sources + n \in Nat
    BY <1>1 DEF RecordsTyped, Runs
  <2> DEFINE left == run.left - part
             read == run.sources + n
  <2>2. run' = [run EXCEPT !.left = left, !.sources = read, !.chips = shown]
    BY <1>3
  <2> HIDE DEF left, read
  <2> QED
    BY <1>2, <2>1, <2>2 DEF RecordsTyped, Runs, left, read
<1>5. /\ run'.left = run.left - part /\ run'.chips <= PublicSources
      /\ run'.receipts = run.receipts /\ run'.calls = run.calls /\ run'.pc = run.pc
      /\ run'.waiting = run.waiting /\ run'.quota = run.quota
  BY <1>1, <1>2, <1>3 DEF RecordsTyped, Runs
<1>6. RecordsTyped'
  BY <1>1, <1>3, <1>4 DEF RecordsTyped, CallStates
<1>7. CallsInOrder' /\ ToldAtTheEnd'
  BY <1>3, <1>5 DEF RecordsTyped, CallsInOrder, ToldAtTheEnd
<1>8. BudgetSplit'
  BY <1>1, <1>3, <1>5 DEF RecordsTyped, Runs, BudgetSplit
<1>9. PartsCounted'
  <2>1. Cardinality(Finished') = Cardinality(Finished) + 1
    BY <1>3, FinishedGrows
  <2> QED
    BY <1>5, <2>1, FinishedBounded DEF RecordsTyped, Runs, PartsCounted
<1>10. Durable' /\ SavedAfterSettling'
  BY <1>3, <1>5 DEF RecordsTyped, Durable, SavedAfterSettling, Waiting
<1> QED
  BY <1>6, <1>7, <1>8, <1>9, <1>10

\* The steps of the other actors: a lapse of the lease, a cancellation, another claim.
LEMMA TurnActionsKeep ==
    ASSUME RunInv, LeaseLapses \/ TurnCancelled \/ ClaimedElsewhere
    PROVE  RunInv'
<1>1. \E t \in RunTurns : Others(t)
  <2>1. CASE LeaseLapses
    BY <2>1 DEF LeaseLapses, RunInv, RecordsTyped, RunTurns
  <2>2. CASE TurnCancelled
    BY <2>2 DEF TurnCancelled, RunInv, RecordsTyped, RunTurns
  <2>3. CASE ClaimedElsewhere
    BY <2>3 DEF ClaimedElsewhere, RunInv, RecordsTyped, RunTurns
  <2> QED
    BY <2>1, <2>2, <2>3
<1> QED
  BY <1>1, OthersKeep

\* The invariant is inductive.
LEMMA RunStep == RunInv /\ [AgentRunNext]_runVars => RunInv'
<1> SUFFICES ASSUME RunInv, [AgentRunNext]_runVars PROVE RunInv'
  OBVIOUS
<1>1. CASE LeaseLapses \/ TurnCancelled \/ ClaimedElsewhere
  BY <1>1, TurnActionsKeep
<1>2. CASE ReadHistory
  BY <1>2, ReadHistoryKeeps
<1>3. CASE StreamText
  BY <1>3, StreamTextKeeps
<1>4. CASE StepEnds
  BY <1>4, StepEndsKeeps
<1>5. CASE SourceArrives
  BY <1>5, SourceArrivesKeeps
<1>6. ASSUME NEW tool \in Tools, StartCall(tool) PROVE RunInv'
  BY <1>6, StartCallKeeps
<1>7. ASSUME NEW i \in Calls, NEW length \in Lengths, NEW n \in 0..Segments,
             ReadContext(i, length, n) \/ ReadSegments(i, length, n)
      PROVE  RunInv'
  <2>1. n \in Nat
    BY AgentRunAssumption
  <2>2. call[i].state = "asking" /\ Deliver(i, length, n)
    BY <1>7 DEF ReadContext, ReadSegments
  <2> QED
    BY <2>1, <2>2, DeliverKeeps
<1>8. ASSUME NEW i \in Calls, ReadRejected(i) PROVE RunInv'
  BY <1>8, ReadRejectedKeeps
<1>9. ASSUME NEW i \in Calls, Act(i) PROVE RunInv'
  BY <1>9, ActKeeps
<1>10. ASSUME NEW i \in Calls, ActAnswered(i) PROVE RunInv'
  BY <1>10, ActAnsweredKeeps
<1>11. ASSUME NEW i \in Calls, CallLost(i) PROVE RunInv'
  BY <1>11, CallLostKeeps
<1>12. CASE Abort
  BY <1>12, AbortKeeps
<1>13. CASE ModelFails
  BY <1>13, ModelFailsKeeps
<1>14. CASE ModelEnds
  BY <1>14, ModelEndsKeeps
<1>15. CASE FinishSaves
  BY <1>15, FinishSavesKeeps
<1>16. CASE FinishFails
  BY <1>16, FinishFailsKeeps
<1>17. CASE Saved
  BY <1>17, SavedKeeps
<1>18. CASE SaveLost
  BY <1>18, SaveLostKeeps
<1>19. CASE Failed
  BY <1>19, FailedKeeps
<1>20. CASE UNCHANGED runVars
  BY <1>20 DEF runVars, RunInv, RecordsTyped, CallsInOrder, BudgetSplit, PartsCounted, Finished,
               ToldAtTheEnd, Durable, SavedAfterSettling
<1> QED
  BY <1>1, <1>2, <1>3, <1>4, <1>5, <1>6, <1>7, <1>8, <1>9, <1>10, <1>11, <1>12, <1>13,
     <1>14, <1>15, <1>16, <1>17, <1>18, <1>19, <1>20 DEF AgentRunNext

\* The invariant holds in every state of every behaviour.
LEMMA RunInvariant == AgentRunSpec => []RunInv
<1> QED
  BY InitRun, RunStep, PTL DEF AgentRunSpec

-----------------------------------------------------------------------------
(* The budget, the size of the reply, and an exhausted allowance.               *)

\* In a state of the invariant the run is within its allowance.
LEMMA WithinAllowance == RunInv => AnswersWithinAllowance
<1> SUFFICES ASSUME RunInv PROVE AnswersWithinAllowance
  OBVIOUS
<1> USE DEF RunInv
<1>1. run.receipts \in 0..MaxCalls
  BY FinishedBounded, AgentRunAssumption DEF RecordsTyped, Runs, PartsCounted
<1>2. AgentRunTypeOK
  <2>1. /\ run.pc \in {"history", "loop", "finish", "fail", "over"}
        /\ run.calls \in 0..MaxCalls /\ run.step \in 1..MaxSteps
        /\ run.left \in Int /\ run.sources \in Nat /\ run.chips \in Nat
        /\ run.error \in {"none", "cancelled", "quota_exceeded", "model_unavailable"}
    BY DEF RecordsTyped, Runs
  <2>2. /\ runTurn.status \in {"running", "waiting_task", "finalizing",
                               "completed", "failed", "cancelled"}
        /\ runTurn.leased \in BOOLEAN /\ runTurn.mine \in BOOLEAN
    BY DEF RecordsTyped, RunTurns
  <2> QED
    BY <1>1, <2>1, <2>2 DEF AgentRunTypeOK, RecordsTyped
<1>3. EvidenceWithinBudget
  BY AgentRunAssumption DEF EvidenceWithinBudget, BudgetSplit, RecordsTyped, Runs
<1>4. AnswerFits
  <2>1. Parts <= PublicSources + MaxCalls + 1
    BY <1>1, AgentRunAssumption DEF Parts, PartsCounted, RecordsTyped, Runs
  <2>2. Parts \in Int
    BY DEF Parts, RecordsTyped, Runs
  <2> QED
    BY <2>1, <2>2, AgentRunAssumption DEF AnswerFits
<1>5. NoAnswerWithoutAllowance
  BY DEF NoAnswerWithoutAllowance, Durable, SavedAfterSettling
<1> QED
  BY <1>2, <1>3, <1>4, <1>5 DEF AnswersWithinAllowance

\* However many calls run beside each other, the model gets no more of the source than the
\* budget, the reply has no more parts than the database accepts, and a run that met an
\* exhausted allowance publishes nothing (tools.ts:70-80, task-agent.ts:121-180).
THEOREM AllowanceKept == AgentRunSpec => []AnswersWithinAllowance
<1> QED
  BY RunInvariant, WithinAllowance, PTL

-----------------------------------------------------------------------------
(* The run implements TurnOutcome.                                              *)

\* The state of the turn as the abstract specification sees it.
Outcome == IF ~runTurn.mine \/ runTurn.status = "cancelled" THEN "elsewhere"
           ELSE CASE runTurn.status \in {"running", "finalizing"} -> "open"
                  [] runTurn.status = "waiting_task" -> "handedOff"
                  [] runTurn.status = "completed" -> "answered"
                  [] runTurn.status = "failed" -> "failed"

\* The five outcomes, as the turn's row tells them.
LEMMA OutcomeOf ==
    /\ ~runTurn.mine \/ runTurn.status = "cancelled" => Outcome = "elsewhere"
    /\ runTurn.mine /\ runTurn.status \in {"running", "finalizing"} => Outcome = "open"
    /\ runTurn.mine /\ runTurn.status = "waiting_task" => Outcome = "handedOff"
    /\ runTurn.mine /\ runTurn.status = "completed" => Outcome = "answered"
    /\ runTurn.mine /\ runTurn.status = "failed" => Outcome = "failed"
BY DEF Outcome

\* The same of the state after a step.
LEMMA OutcomeAfter ==
    /\ ~runTurn'.mine \/ runTurn'.status = "cancelled" => Outcome' = "elsewhere"
    /\ runTurn'.mine /\ runTurn'.status \in {"running", "finalizing"} => Outcome' = "open"
    /\ runTurn'.mine /\ runTurn'.status = "waiting_task" => Outcome' = "handedOff"
    /\ runTurn'.mine /\ runTurn'.status = "completed" => Outcome' = "answered"
    /\ runTurn'.mine /\ runTurn'.status = "failed" => Outcome' = "failed"
BY DEF Outcome

\* The actions of TurnOutcome under the mapping.
LEMMA PromisedActions ==
    /\ /\ Outcome \in {"open", "handedOff"} /\ Outcome' = "handedOff"
       /\ kept' = kept \cup {"handoff"} /\ told' = told
       => Promise!HandOff
    /\ /\ Outcome \in {"open", "handedOff"}
       /\ Outcome' = IF Outcome = "open" THEN "answered" ELSE Outcome
       /\ kept' = kept \cup {"reply"} /\ told' = told
       => Promise!Save
    /\ Outcome = "open" /\ Outcome' = "failed" /\ kept' = kept /\ told' = told
       => Promise!Fail
    /\ /\ Outcome \in {"open", "handedOff", "failed"} /\ Outcome' = "elsewhere"
       /\ kept' = kept /\ told' = told
       => Promise!TakenOver
    /\ /\ told = "nothing"
       /\ \/ told' \in {"error", "quota"}
          \/ "reply" \in kept /\ told' = "completed"
          \/ "handoff" \in kept /\ told' = "waiting_task"
       /\ Outcome' = Outcome /\ kept' = kept
       => Promise!Tell
<1>1. /\ Outcome \in {"open", "handedOff"} /\ Outcome' = "handedOff"
      /\ kept' = kept \cup {"handoff"} /\ told' = told
      => Promise!HandOff
  BY DEF Outcome, Promise!HandOff
<1>2. /\ Outcome \in {"open", "handedOff"}
      /\ Outcome' = IF Outcome = "open" THEN "answered" ELSE Outcome
      /\ kept' = kept \cup {"reply"} /\ told' = told
      => Promise!Save
  BY DEF Outcome, Promise!Save
<1>3. Outcome = "open" /\ Outcome' = "failed" /\ kept' = kept /\ told' = told => Promise!Fail
  BY DEF Outcome, Promise!Fail
<1>4. /\ Outcome \in {"open", "handedOff", "failed"} /\ Outcome' = "elsewhere"
      /\ kept' = kept /\ told' = told
      => Promise!TakenOver
  BY DEF Outcome, Promise!TakenOver
<1>5. /\ told = "nothing"
      /\ \/ told' \in {"error", "quota"}
         \/ "reply" \in kept /\ told' = "completed"
         \/ "handoff" \in kept /\ told' = "waiting_task"
      /\ Outcome' = Outcome /\ kept' = kept
      => Promise!Tell
  BY DEF Outcome, Promise!Tell
<1> QED
  BY <1>1, <1>2, <1>3, <1>4, <1>5

\* A step that leaves the turn, the database and the caller alone is a stutter.
LEMMA Stutters ==
    ASSUME UNCHANGED <<runTurn, kept, told>>
    PROVE  [Promise!TurnNext]_(Promise!outcomeVars)
BY DEF Promise!outcomeVars

\* At first the turn is open, nothing is kept and nothing is told.
LEMMA InitPromised == AgentRunInit => Promise!TurnInit
<1> SUFFICES ASSUME AgentRunInit PROVE Promise!TurnInit
  OBVIOUS
<1>1. runTurn.mine /\ runTurn.status \in {"running", "finalizing"}
  BY DEF AgentRunInit
<1>2. Outcome = "open" /\ kept = {} /\ told = "nothing"
  BY <1>1, OutcomeOf DEF AgentRunInit
<1> QED
  BY <1>2 DEF Outcome, Promise!TurnInit

\* Every step of the run, of its late requests and of the other actors is a step of
\* TurnOutcome or a stutter.
LEMMA StepPromised ==
    RunInv /\ [AgentRunNext]_runVars => [Promise!TurnNext]_(Promise!outcomeVars)
<1> SUFFICES ASSUME RunInv, [AgentRunNext]_runVars
             PROVE  [Promise!TurnNext]_(Promise!outcomeVars)
  OBVIOUS
<1> USE DEF RunInv
<1>1. CASE LeaseLapses
  <2>1. /\ runTurn'.status = runTurn.status /\ runTurn'.mine = runTurn.mine
        /\ UNCHANGED <<kept, told>>
    BY <1>1 DEF LeaseLapses, Others, RecordsTyped, RunTurns
  <2> QED
    BY <2>1 DEF Promise!outcomeVars
<1>2. CASE TurnCancelled
  <2>1. runTurn.mine /\ runTurn.status \in {"running", "waiting_task", "finalizing"}
    BY <1>2 DEF TurnCancelled
  <2>2. runTurn'.status = "cancelled" /\ kept' = kept /\ told' = told
    BY <1>2 DEF TurnCancelled, Others, RecordsTyped, RunTurns
  <2>3. Promise!TakenOver
    BY <2>1, <2>2, OutcomeOf, OutcomeAfter, PromisedActions
  <2> QED
    BY <2>3 DEF Promise!TurnNext
<1>3. CASE ClaimedElsewhere
  <2>1. runTurn.mine /\ runTurn.status \in {"running", "waiting_task", "finalizing", "failed"}
    BY <1>3 DEF ClaimedElsewhere
  <2>2. ~runTurn'.mine /\ kept' = kept /\ told' = told
    BY <1>3 DEF ClaimedElsewhere, Others, RecordsTyped, RunTurns
  <2>3. Promise!TakenOver
    BY <2>1, <2>2, OutcomeOf, OutcomeAfter, PromisedActions
  <2> QED
    BY <2>3 DEF Promise!TurnNext
<1>4. ASSUME NEW i \in Calls, Act(i)
      PROVE  [Promise!TurnNext]_(Promise!outcomeVars)
  <2>1. CASE UNCHANGED <<runTurn, kept>>
    BY <1>4, <2>1, Stutters DEF Act
  <2>2. CASE /\ MayAct /\ runTurn' = [runTurn EXCEPT !.status = "waiting_task"]
             /\ kept' = kept \cup {"handoff"}
    <3>1. runTurn.mine /\ runTurn.status \in {"running", "waiting_task"}
      BY <2>2 DEF MayAct
    <3>2. runTurn'.mine /\ runTurn'.status = "waiting_task" /\ told' = told
      BY <1>4, <2>2, <3>1 DEF Act, RecordsTyped, RunTurns
    <3>3. Promise!HandOff
      BY <2>2, <3>1, <3>2, OutcomeOf, OutcomeAfter, PromisedActions
    <3> QED
      BY <3>3 DEF Promise!TurnNext
  <2> QED
    BY <1>4, <2>1, <2>2 DEF Act
<1>5. CASE FinishSaves
  <2>1. CASE ~MayFinish
    BY <1>5, <2>1, Stutters DEF FinishSaves
  <2>2. CASE MayFinish
    <3>1. /\ runTurn.mine /\ runTurn.status \in {"running", "waiting_task", "finalizing"}
          /\ kept' = kept \cup {"reply"} /\ told' = told
      BY <1>5, <2>2 DEF FinishSaves, MayFinish
    <3>2. /\ runTurn'.mine
          /\ runTurn.status = "waiting_task" => runTurn'.status = "waiting_task"
          /\ runTurn.status # "waiting_task" => runTurn'.status = "completed"
      BY <1>5, <2>2, <3>1 DEF FinishSaves, RecordsTyped, RunTurns
    <3>3. Promise!Save
      <4>1. CASE runTurn.status = "waiting_task"
        <5>1. Outcome = "handedOff" /\ Outcome' = "handedOff"
          BY <3>1, <3>2, <4>1, OutcomeOf, OutcomeAfter
        <5> QED
          BY <3>1, <5>1, PromisedActions
      <4>2. CASE runTurn.status # "waiting_task"
        <5>1. Outcome = "open" /\ Outcome' = "answered"
          BY <3>1, <3>2, <4>2, OutcomeOf, OutcomeAfter
        <5> QED
          BY <3>1, <5>1, PromisedActions
      <4> QED
        BY <4>1, <4>2
    <3> QED
      BY <3>3 DEF Promise!TurnNext
  <2> QED
    BY <2>1, <2>2
<1>6. CASE FinishFails
  <2>1. CASE ~(MayFinish /\ runTurn.status # "waiting_task")
    BY <1>6, <2>1, Stutters DEF FinishFails
  <2>2. CASE MayFinish /\ runTurn.status # "waiting_task"
    <3>1. /\ runTurn.mine /\ runTurn.status \in {"running", "finalizing"}
          /\ kept' = kept /\ told' = told
      BY <1>6, <2>2 DEF FinishFails, MayFinish
    <3>2. runTurn'.mine /\ runTurn'.status = "failed"
      BY <1>6, <2>2, <3>1 DEF FinishFails, RecordsTyped, RunTurns
    <3>3. Promise!Fail
      BY <3>1, <3>2, OutcomeOf, OutcomeAfter, PromisedActions
    <3> QED
      BY <3>3 DEF Promise!TurnNext
  <2> QED
    BY <2>1, <2>2
<1>7. CASE Saved
  <2>1. UNCHANGED <<runTurn, kept>> /\ Outcome' = Outcome
    BY <1>7 DEF Saved, Outcome
  <2>2. CASE ~Returns
    BY <1>7, <2>1, <2>2, Stutters DEF Saved
  <2>3. CASE Returns
    <3>1. told = "nothing" /\ told' = IF run.waiting THEN "waiting_task" ELSE "completed"
      BY <1>7, <2>3 DEF Saved, ToldAtTheEnd
    <3>2. IF run.waiting THEN "handoff" \in kept ELSE "reply" \in kept
      BY <2>3 DEF Returns, Durable
    <3>3. Promise!Tell
      BY <2>1, <3>1, <3>2, PromisedActions
    <3> QED
      BY <3>3 DEF Promise!TurnNext
  <2> QED
    BY <2>2, <2>3
<1>8. CASE Failed
  <2>1. UNCHANGED <<runTurn, kept>> /\ Outcome' = Outcome
    BY <1>8 DEF Failed, Outcome
  <2>2. told = "nothing" /\ told' \in {"error", "quota"}
    BY <1>8 DEF Failed, ToldAtTheEnd
  <2>3. Promise!Tell
    BY <2>1, <2>2, PromisedActions
  <2> QED
    BY <2>3 DEF Promise!TurnNext
<1>9. ASSUME NEW i \in Calls, NEW length \in Lengths, NEW n \in 0..Segments,
             ReadContext(i, length, n) \/ ReadSegments(i, length, n)
      PROVE  [Promise!TurnNext]_(Promise!outcomeVars)
  BY <1>9, Stutters DEF ReadContext, ReadSegments, Deliver
<1>10. ASSUME NEW i \in Calls, ReadRejected(i) \/ ActAnswered(i) \/ CallLost(i)
       PROVE  [Promise!TurnNext]_(Promise!outcomeVars)
  BY <1>10, Stutters DEF ReadRejected, ActAnswered, CallLost
<1>11. ASSUME NEW tool \in Tools, StartCall(tool)
       PROVE  [Promise!TurnNext]_(Promise!outcomeVars)
  BY <1>11, Stutters DEF StartCall
<1>12. CASE \/ ReadHistory \/ StreamText \/ StepEnds \/ SourceArrives \/ Abort
            \/ ModelFails \/ ModelEnds \/ SaveLost
  BY <1>12, Stutters
     DEF ReadHistory, StreamText, StepEnds, SourceArrives, Abort, ModelFails, ModelEnds, SaveLost
<1>13. CASE UNCHANGED runVars
  BY <1>13, Stutters DEF runVars
<1> QED
  BY <1>1, <1>2, <1>3, <1>4, <1>5, <1>6, <1>7, <1>8, <1>9, <1>10, <1>11, <1>12, <1>13
     DEF AgentRunNext

\* The run implements TurnOutcome: its turn ends at most once, a task handed over is never
\* failed or answered over, and what the caller is told was durable when it was told, also
\* when requests are carried out after the run stopped waiting for them.
THEOREM PromiseKept == AgentRunSpec => KeepsPromise
<1>1. AgentRunInit => Promise!TurnInit
  BY InitPromised
<1>2. RunInv /\ [AgentRunNext]_runVars => [Promise!TurnNext]_(Promise!outcomeVars)
  BY StepPromised
<1> QED
  BY <1>1, <1>2, RunInvariant, PTL DEF AgentRunSpec, KeepsPromise, Promise!TurnSpec
=============================================================================
