---------------------------- MODULE TaskLiveProofs ----------------------------
(***************************************************************************)
(* The cards and the page of a task come to show what is stored and never  *)
(* go back, for any number of cards, commits, lost channels, failed reads  *)
(* and retries.  The argument: a row's version tells rows apart; while the *)
(* listener is up the last event on its way is the committed row, and a    *)
(* read made since makes up for what was missed before.                    *)
(***************************************************************************)
EXTENDS TaskLive, FiniteSetTheorems, TLAPS

AtMostOne(S) == \A x, y \in S : x = y

Posts == [card : Cards, id : 1..MaxRetries, ver : 0..MaxVer, answer : {"none", "ok", "rejected"}]

Typed ==
    /\ watching \in Channels
    /\ row \in Rows /\ out \in 0..MaxOut
    /\ chan \in [Channels -> {"off", "joined", "ready"}]
    /\ events \in Seq(Rows) /\ ticks \in [{"outputs", "page"} -> Nat]
    /\ seed \in Rows /\ mounted \subseteq Cards
    /\ snap \subseteq Rows
    /\ prime \in [on : BOOLEAN, read : SUBSET Rows, up : BOOLEAN]
    /\ live \in [Cards -> SUBSET Rows]
    /\ asked \in Nat /\ got \subseteq 0..MaxOut /\ summary \in 0..MaxOut
    /\ timer \in BOOLEAN /\ fetch \in [on : BOOLEAN, read : SUBSET (Rows \X (0..MaxOut)), up : BOOLEAN]
    /\ attempt \in [Cards -> [id : 0..MaxRetries, ver : 0..MaxVer]]
    /\ posts \subseteq Posts
    /\ closed \subseteq Channels
    /\ faults \in 0..MaxFaults /\ retries \in 0..MaxRetries /\ moves \in 0..MaxMoves

-----------------------------------------------------------------------------
(* The rows: those on their way, those kept and the committed one.         *)

Known(r) ==
    r = row \/ r \in snap \/ r \in prime.read \/ (\E c \in Cards : r \in live[c]) \/ \E i \in DOMAIN events : r = events[i]

\* A version stands for one row, and none is newer than the committed one.
RowsInv ==
    /\ seed.ver = 0
    /\ \A r \in Rows : Known(r) => 1 <= r.ver /\ r.ver <= row.ver
    /\ \A r, s \in Rows : Known(r) /\ Known(s) /\ r.ver = s.ver => r = s

\* The shared subscription.
SharedInv ==
    /\ AtMostOne(snap) /\ AtMostOne(prime.read) /\ \A c \in Cards : AtMostOne(live[c])
    /\ prime.up => prime.read # {} /\ chan["task"] = "ready"
    /\ "task" \in closed => chan["task"] = "ready"
    /\ chan["task"] # "ready" => events = << >>
    /\ events # << >> => events[Len(events)] = row
    /\ "task" \in closed /\ events = << >> => row \in snap
    /\ prime.up /\ events = << >> => row \in prime.read \/ row \in snap
    /\ snap # {} => \A c \in mounted : live[c] = snap
    /\ \A s \in snap : \A c \in Cards : \A l \in live[c] : l.ver <= s.ver
    /\ snap = {} => \A c \in Cards : \A l \in live[c] :
                        /\ \A r \in prime.read : l.ver <= r.ver
                        /\ \A i \in DOMAIN events : l.ver <= events[i].ver

\* A card's attempt is that of the failure it shows; a retry on its way is shown unless the card
\* shows something newer.
RetryOf(p) ==
    LET v == View(p.card, live)  a == attempt[p.card]
    IN  /\ p.ver <= v.ver
        /\ a.id = p.id => a.ver = p.ver
        /\ p.answer = "none" => a.id = p.id \/ v.st # "failed" \/ p.ver < v.ver

AttemptOf(c) ==
    LET v == View(c, live)  a == attempt[c]
    IN  /\ a.id <= retries
        /\ a.id = 0 => a = NoTry
        /\ a.id # 0 => v.st = "failed" /\ a.ver <= v.ver /\ (a.ver # 0 => v.ver <= a.ver)

RetryInv ==
    /\ \A p \in posts : p.id <= retries /\ RetryOf(p)
    /\ \A p, q \in posts : p.id = q.id => p = q
    /\ \A c \in Cards : AttemptOf(c)

\* The page: a change not yet rendered is counted, awaits its timer, or is not read yet.
PageInv ==
    /\ fetch.up => fetch.read # {} /\ chan["page"] = "ready"
    /\ "page" \in closed => chan["page"] = "ready"
    /\ ~timer /\ ticks["page"] = 0 =>
          /\ fetch.up => fetch.read = {<<row, out>>}
          /\ "page" \in closed => IF fetch.on THEN fetch.read \subseteq {<<row, out>>} ELSE page = <<row, out>>

LiveInv == Typed /\ RowsInv /\ SharedInv /\ RetryInv /\ PageInv

-----------------------------------------------------------------------------
(* What the invariant says of the properties. *)

LEMMA FewElements ==
    ASSUME NEW S, AtMostOne(S)
    PROVE  Cardinality(S) <= 1
<1>1. CASE S = {}
  BY <1>1, FS_EmptySet
<1>2. CASE S # {}
  <2>1. PICK x \in S : TRUE
    BY <1>2
  <2>2. S = {x}
    BY <2>1 DEF AtMostOne
  <2>3. Cardinality(S) = 1
    BY <2>2, FS_Singleton
  <2> QED BY <2>3
<1> QED BY <1>1, <1>2

\* What a card shows is the live row, or the seed.
LEMMA ViewIs ==
    ASSUME NEW l, NEW c, AtMostOne(l[c])
    PROVE  /\ l[c] = {} => View(c, l) = seed
           /\ \A r \in l[c] : View(c, l) = r
BY DEF View, AtMostOne

LEMMA InvariantIsEnough ==
    ASSUME LiveInv
    PROVE  ViewsConverge
<1>1. TypeOK
  <2>1. Cardinality(snap) <= 1 /\ \A c \in Cards : Cardinality(live[c]) <= 1
    BY FewElements DEF LiveInv, SharedInv
  <2>2. /\ prime.on \in BOOLEAN /\ prime.read \subseteq Rows /\ prime.up \in BOOLEAN
        /\ fetch.on \in BOOLEAN /\ fetch.up \in BOOLEAN
    BY DEF LiveInv, Typed
  <2>3. \A p \in posts : p.card \in Cards /\ p.id \in 1..MaxRetries /\ p.ver \in 0..MaxVer
                         /\ p.answer \in {"none", "ok", "rejected"}
    BY DEF LiveInv, Typed, Posts
  <2> QED BY <2>1, <2>2, <2>3 DEF LiveInv, Typed, TypeOK
<1>2. TaskQuiet /\ "task" \in closed => \A c \in mounted : live[c] = {row}
  <2> SUFFICES ASSUME TaskQuiet, "task" \in closed, NEW c \in mounted
               PROVE  live[c] = {row}
    OBVIOUS
  <2>1. row \in snap
    BY DEF LiveInv, SharedInv, TaskQuiet
  <2>2. snap = {row}
    BY <2>1 DEF LiveInv, SharedInv, AtMostOne
  <2> QED BY <2>2 DEF LiveInv, SharedInv
<1>3. RetryEnds
  <2> SUFFICES ASSUME TaskQuiet, "task" \in closed, NEW c \in mounted, attempt[c].ver # 0
               PROVE  row.st = "failed" /\ row.ver = attempt[c].ver
    BY DEF RetryEnds
  <2>1. c \in Cards /\ attempt[c] \in [id : 0..MaxRetries, ver : 0..MaxVer]
    BY DEF LiveInv, Typed
  <2>2. View(c, live) = row
    BY <1>2, <2>1, ViewIs DEF LiveInv, SharedInv
  <2>3. attempt[c].id # 0
    BY <2>1 DEF LiveInv, RetryInv, AttemptOf, NoTry
  <2>4. row.st = "failed" /\ attempt[c].ver <= row.ver /\ row.ver <= attempt[c].ver
    BY <2>1, <2>2, <2>3 DEF LiveInv, RetryInv, AttemptOf
  <2>5. row.ver \in Nat /\ attempt[c].ver \in Nat
    BY <2>1, TaskLiveAssumption DEF LiveInv, Typed, Rows
  <2> QED BY <2>4, <2>5
<1>4. InFlightIsShown
  <2> SUFFICES ASSUME NEW p \in posts, View(p.card, live).st = "failed", View(p.card, live).ver = p.ver
               PROVE  attempt[p.card].id = p.id \/ p.answer # "none"
    BY DEF InFlightIsShown
  <2>1. p.ver \in Nat
    BY TaskLiveAssumption DEF LiveInv, Typed, Posts
  <2> QED BY <2>1 DEF LiveInv, RetryInv, RetryOf
<1>5. PageConverges
  BY DEF PageConverges, LiveInv, PageInv
<1> QED BY <1>1, <1>2, <1>3, <1>4, <1>5 DEF ViewsConverge, CardsConverge

-----------------------------------------------------------------------------
(* Frames: what a step leaves alone stays as it was. *)

LEMMA RowsFrame ==
    ASSUME RowsInv, UNCHANGED <<row, seed, events, snap, prime, live>>
    PROVE  RowsInv'
BY DEF RowsInv, Known

LEMMA SharedFrame ==
    ASSUME SharedInv, UNCHANGED <<row, events, mounted, snap, prime, live>>,
           chan'["task"] = chan["task"], "task" \in closed' <=> "task" \in closed
    PROVE  SharedInv'
BY DEF SharedInv, AtMostOne

LEMMA RetryFrame ==
    ASSUME RetryInv, UNCHANGED <<seed, live, attempt, posts, retries>>
    PROVE  RetryInv'
BY DEF RetryInv, RetryOf, AttemptOf, View

LEMMA PageFrame ==
    ASSUME PageInv, UNCHANGED <<row, out, timer, fetch, page>>,
           chan'["page"] = chan["page"], ticks'["page"] = ticks["page"],
           "page" \in closed' <=> "page" \in closed
    PROVE  PageInv'
BY DEF PageInv

\* Rows that were known before do not disagree.
LEMMA RowsKept ==
    ASSUME RowsInv, \A r \in Rows : Known(r)' => Known(r), UNCHANGED <<row, seed>>
    PROVE  RowsInv'
BY DEF RowsInv

-----------------------------------------------------------------------------
(* The database. *)

LEMMA RowIsKnown ==
    ASSUME LiveInv
    PROVE  /\ row \in Rows /\ Known(row) /\ row.ver \in 1..MaxVer
           /\ \A r \in Rows : r.ver \in Nat
           /\ \A r : Known(r) => r \in Rows
<1>1. row \in Rows /\ Known(row)
  BY DEF Known, LiveInv, Typed
<1>2. \A r \in Rows : r.ver \in Nat /\ r.ver \in 0..MaxVer
  BY TaskLiveAssumption DEF Rows
<1>3. \A i \in DOMAIN events : events[i] \in Rows
  BY DEF LiveInv, Typed
<1>4. \A r : Known(r) => r \in Rows
  BY <1>1, <1>3 DEF Known, LiveInv, Typed
<1> QED BY <1>1, <1>2, <1>4 DEF LiveInv, RowsInv

LEMMA CommitKeeps ==
    ASSUME LiveInv, NEW st \in Statuses, Commit(st),
           UNCHANGED <<out, chan, seed, entryVars, pageVars, closed>>
    PROVE  /\ row' \in Rows /\ events' \in Seq(Rows) /\ ticks' \in [{"outputs", "page"} -> Nat]
           /\ RowsInv' /\ SharedInv' /\ PageInv'
<1>1. /\ row' = [ver |-> row.ver + 1, st |-> st] /\ row.ver < MaxVer
      /\ events' = IF chan["task"] = "ready" THEN Append(events, row') ELSE events
      /\ ticks' = [ticks EXCEPT !["page"] = Tick("page")]
      /\ UNCHANGED <<out, chan, seed, mounted, snap, prime, live, timer, fetch, page, closed>>
  BY DEF Commit, entryVars, pageVars
<1>2. row.ver \in Nat /\ \A r \in Rows : r.ver \in Nat /\ (Known(r) => r.ver <= row.ver)
  BY RowIsKnown DEF LiveInv, RowsInv
<1>3. row' \in Rows /\ row'.ver = row.ver + 1
  BY <1>1, <1>2, TaskLiveAssumption DEF Rows
<1>4. events \in Seq(Rows) /\ events' \in Seq(Rows)
  BY <1>1, <1>3 DEF LiveInv, Typed
<1>5. Tick("page") \in Nat /\ (chan["page"] = "ready" => Tick("page") # 0) /\ ticks'["page"] = Tick("page")
  BY <1>1 DEF Tick, LiveInv, Typed
<1>6. ticks' \in [{"outputs", "page"} -> Nat]
  BY <1>1, <1>5 DEF LiveInv, Typed
<1>7. \A i \in DOMAIN events' : (i \in DOMAIN events /\ events'[i] = events[i]) \/ events'[i] = row'
  BY <1>1, <1>3, <1>4
<1>8. \A r : Known(r)' => Known(r) \/ r = row'
  BY <1>1, <1>7 DEF Known
<1>9. RowsInv'
  BY <1>1, <1>2, <1>3, <1>8 DEF LiveInv, RowsInv
<1>10. \A c \in Cards : \A l \in live[c] : l \in Rows /\ Known(l)
  BY DEF Known, LiveInv, Typed
<1>11. events' # << >> => events'[Len(events')] = row'
  BY <1>1, <1>3, <1>4 DEF LiveInv, SharedInv
<1>12. chan["task"] = "ready" => events' # << >>
  BY <1>1, <1>3, <1>4
<1>13. snap = {} => \A c \in Cards : \A l \in live[c] : \A i \in DOMAIN events' : l.ver <= events'[i].ver
  BY <1>2, <1>3, <1>7, <1>10 DEF LiveInv, SharedInv
<1>14. SharedInv'
  BY <1>1, <1>11, <1>12, <1>13 DEF LiveInv, SharedInv, AtMostOne
<1>15. PageInv'
  BY <1>1, <1>5 DEF LiveInv, PageInv
<1> QED BY <1>3, <1>4, <1>6, <1>9, <1>14, <1>15

LEMMA StepWorker ==
    ASSUME LiveInv, WorkerStep
    PROVE  LiveInv' /\ live' = live
<1>1. PICK st \in Statuses : Commit(st)
  BY DEF WorkerStep, Statuses
<1>2. UNCHANGED <<watching, out, chan, seed, entryVars, outVars, pageVars, retryVars, closed, bounds>>
  BY DEF WorkerStep
<1>3. /\ row' \in Rows /\ events' \in Seq(Rows) /\ ticks' \in [{"outputs", "page"} -> Nat]
      /\ RowsInv' /\ SharedInv' /\ PageInv'
  BY <1>1, <1>2, CommitKeeps
<1>4. Typed'
  BY <1>2, <1>3 DEF LiveInv, Typed, entryVars, outVars, pageVars, retryVars, bounds
<1>5. RetryInv'
  BY <1>2, RetryFrame DEF LiveInv, entryVars, retryVars, bounds
<1> QED BY <1>2, <1>3, <1>4, <1>5 DEF LiveInv, entryVars

LEMMA StepSaveSummary ==
    ASSUME LiveInv, SaveSummary
    PROVE  LiveInv' /\ live' = live
<1>1. /\ out' = out + 1 /\ out < MaxOut
      /\ ticks' = [x \in DOMAIN ticks |-> Tick(x)]
      /\ UNCHANGED <<watching, row, chan, events, seed, mounted, snap, prime, live, asked, got, summary,
                     timer, fetch, page, attempt, posts, closed, faults, retries, moves>>
  BY DEF SaveSummary, entryVars, outVars, pageVars, retryVars, bounds
<1>2. out' \in 0..MaxOut
  BY <1>1, TaskLiveAssumption DEF LiveInv, Typed
<1>3. ticks' \in [{"outputs", "page"} -> Nat] /\ (chan["page"] = "ready" => ticks'["page"] # 0)
  BY <1>1 DEF LiveInv, Typed, Tick
<1>4. Typed'
  BY <1>1, <1>2, <1>3 DEF LiveInv, Typed
<1>5. RowsInv' /\ SharedInv' /\ RetryInv'
  BY <1>1, RowsFrame, SharedFrame, RetryFrame DEF LiveInv
<1>6. PageInv'
  BY <1>1, <1>3 DEF LiveInv, PageInv
<1> QED BY <1>1, <1>4, <1>5, <1>6 DEF LiveInv

-----------------------------------------------------------------------------
(* The summary and the page. *)

LEMMA StepOutputs ==
    ASSUME LiveInv, OutputsRead \/ OutputsArrive \/ OutputsEvent
    PROVE  LiveInv' /\ live' = live
<1>1. /\ UNCHANGED <<watching, row, out, chan, events, seed, mounted, snap, prime, live,
                     timer, fetch, page, attempt, posts, closed, faults, retries, moves>>
      /\ ticks'["page"] = ticks["page"]
  BY DEF OutputsRead, OutputsArrive, OutputsEvent, entryVars, outVars, pageVars, retryVars, bounds, LiveInv, Typed
<1>2. asked' \in Nat /\ got' \subseteq 0..MaxOut /\ summary' \in 0..MaxOut
      /\ ticks' \in [{"outputs", "page"} -> Nat]
  <2>1. CASE OutputsRead
    BY <2>1 DEF OutputsRead, LiveInv, Typed
  <2>2. CASE OutputsArrive
    BY <2>2 DEF OutputsArrive, LiveInv, Typed
  <2>3. CASE OutputsEvent
    BY <2>3 DEF OutputsEvent, LiveInv, Typed
  <2> QED BY <2>1, <2>2, <2>3
<1>3. Typed'
  BY <1>1, <1>2 DEF LiveInv, Typed
<1> QED BY <1>1, <1>3, RowsFrame, SharedFrame, RetryFrame, PageFrame DEF LiveInv

LEMMA StepPage ==
    ASSUME LiveInv, PageEvent \/ TimerFires \/ PageReads \/ PageArrives
    PROVE  LiveInv' /\ live' = live
<1>1. /\ UNCHANGED <<watching, row, out, chan, events, seed, mounted, snap, prime, live, asked, got, summary,
                     attempt, posts, faults, retries, moves>>
      /\ "task" \in closed' <=> "task" \in closed
  BY DEF PageEvent, TimerFires, PageReads, PageArrives, entryVars, outVars, retryVars, bounds
<1>2. /\ timer' \in BOOLEAN /\ ticks' \in [{"outputs", "page"} -> Nat] /\ closed' \subseteq Channels
      /\ fetch' \in [on : BOOLEAN, read : SUBSET (Rows \X (0..MaxOut)), up : BOOLEAN]
  <2>1. CASE PageEvent
    BY <2>1 DEF PageEvent, Refresh, pageVars, LiveInv, Typed
  <2>2. CASE TimerFires
    BY <2>2 DEF TimerFires, NoRead, LiveInv, Typed
  <2>3. CASE PageReads
    <3>1. fetch' = [fetch EXCEPT !.read = {<<row, out>>}, !.up = chan["page"] = "ready"]
          /\ UNCHANGED <<timer, ticks, closed>>
      BY <2>3 DEF PageReads
    <3>2. {<<row, out>>} \in SUBSET (Rows \X (0..MaxOut))
      BY DEF LiveInv, Typed
    <3> QED BY <3>1, <3>2 DEF LiveInv, Typed
  <2>4. CASE PageArrives
    BY <2>4 DEF PageArrives, NoRead, LiveInv, Typed, Channels
  <2> QED BY <2>1, <2>2, <2>3, <2>4
<1>3. Typed'
  BY <1>1, <1>2 DEF LiveInv, Typed
<1>4. PageInv'
  <2>1. CASE PageEvent
    BY <2>1 DEF PageEvent, Refresh, pageVars, LiveInv, PageInv
  <2>2. CASE TimerFires
    BY <2>2 DEF TimerFires, NoRead, LiveInv, PageInv
  <2>3. CASE PageReads
    <3>1. /\ fetch'.on /\ fetch'.read = {<<row, out>>} /\ fetch'.up = (chan["page"] = "ready")
          /\ UNCHANGED <<row, out, chan, ticks, timer, page, closed>>
      BY <2>3 DEF PageReads, LiveInv, Typed
    <3> QED BY <3>1 DEF LiveInv, PageInv
  <2>4. CASE PageArrives
    <3>1. /\ fetch.on /\ page' \in fetch.read /\ fetch' = NoRead
          /\ closed' = IF fetch.up THEN closed \cup {"page"} ELSE closed
          /\ UNCHANGED <<row, out, chan, ticks, timer>>
      BY <2>4 DEF PageArrives
    <3>2. fetch'.on = FALSE /\ fetch'.up = FALSE
      BY <3>1 DEF NoRead
    <3> QED BY <3>1, <3>2 DEF LiveInv, PageInv
  <2> QED BY <2>1, <2>2, <2>3, <2>4
<1> QED BY <1>1, <1>3, <1>4, RowsFrame, SharedFrame, RetryFrame DEF LiveInv

-----------------------------------------------------------------------------
(* What the cards show only moves on. *)

LEMMA ViewMovesOn ==
    ASSUME LiveInv, NEW c \in Cards,
           live' \in [Cards -> SUBSET Rows], AtMostOne(live'[c]), \A s \in live'[c] : Known(s),
           \A l \in live[c] : \A s \in live'[c] : l.ver <= s.ver,
           live'[c] = {} => live[c] = {}
    PROVE  /\ View(c, live) \in Rows /\ View(c, live') \in Rows
           /\ View(c, live).ver <= View(c, live').ver
           /\ View(c, live).ver = View(c, live').ver => View(c, live) = View(c, live')
<1>1. AtMostOne(live[c])
  BY DEF LiveInv, SharedInv
<1>2. /\ live[c] = {} => View(c, live) = seed
      /\ \A r \in live[c] : View(c, live) = r
  BY <1>1, ViewIs
<1>3. /\ live'[c] = {} => View(c, live') = seed
      /\ \A r \in live'[c] : View(c, live') = r
  BY ViewIs
<1>4. seed \in Rows /\ seed.ver = 0 /\ live[c] \subseteq Rows /\ live'[c] \subseteq Rows
  BY DEF LiveInv, Typed, RowsInv
<1>5. \A r \in Rows : r.ver \in Nat
  BY RowIsKnown
<1>6. CASE live'[c] = {}
  BY <1>2, <1>3, <1>4, <1>5, <1>6
<1>7. CASE live'[c] # {}
  <2>1. PICK w \in live'[c] : View(c, live') = w
    BY <1>3, <1>7
  <2>2. w \in Rows /\ Known(w) /\ 1 <= w.ver /\ w.ver \in Nat
    BY <1>4, <1>5 DEF LiveInv, RowsInv
  <2>3. CASE live[c] = {}
    BY <1>2, <1>4, <2>1, <2>2, <2>3
  <2>4. CASE live[c] # {}
    <3>1. PICK v \in live[c] : View(c, live) = v
      BY <1>2, <2>4
    <3>2. v \in Rows /\ Known(v) /\ v.ver <= w.ver
      BY <1>4 DEF Known
    <3> QED BY <2>1, <2>2, <3>1, <3>2 DEF LiveInv, RowsInv
  <2> QED BY <2>3, <2>4
<1> QED BY <1>6, <1>7

\* Rendering ends the attempts that what is shown has moved past, and no other.
LEMMA RenderKeeps ==
    ASSUME LiveInv, live' \in [Cards -> SUBSET Rows], \A c \in Cards : AtMostOne(live'[c]),
           \A c \in Cards : \A s \in live'[c] : Known(s),
           \A c \in Cards : \A l \in live[c] : \A s \in live'[c] : l.ver <= s.ver,
           \A c \in Cards : live'[c] = {} => live[c] = {},
           Render(live'), UNCHANGED <<seed, posts, retries>>
    PROVE  attempt' \in [Cards -> [id : 0..MaxRetries, ver : 0..MaxVer]] /\ RetryInv'
<1>1. \A c \in Cards : attempt'[c] = Settled(attempt[c], View(c, live'))
  BY DEF Render
<1>2. NoTry \in [id : 0..MaxRetries, ver : 0..MaxVer]
  BY TaskLiveAssumption DEF NoTry
<1>3. attempt' \in [Cards -> [id : 0..MaxRetries, ver : 0..MaxVer]]
  BY <1>2 DEF Render, Settled, LiveInv, Typed
<1>4. \A c \in Cards : attempt[c] \in [id : 0..MaxRetries, ver : 0..MaxVer] /\ attempt[c].id \in Nat
                         /\ attempt[c].ver \in Nat
  BY TaskLiveAssumption DEF LiveInv, Typed
<1>5. \A c \in Cards : View(c, live)' = View(c, live')
  BY DEF View
<1>6. \A c \in Cards : AttemptOf(c)'
  <2> SUFFICES ASSUME NEW c \in Cards
               PROVE  AttemptOf(c)'
    OBVIOUS
  <2>1. PICK v \in Rows : v = View(c, live)
    BY ViewMovesOn
  <2>2. PICK w \in Rows : w = View(c, live')
    BY ViewMovesOn
  <2>3. v.ver <= w.ver /\ (v.ver = w.ver => v = w) /\ v.ver \in Nat /\ w.ver \in Nat
    BY <2>1, <2>2, ViewMovesOn, RowIsKnown
  <2>4. /\ attempt[c].id <= retries /\ (attempt[c].id = 0 => attempt[c] = NoTry)
        /\ attempt[c].id # 0 => v.st = "failed" /\ attempt[c].ver <= v.ver /\ (attempt[c].ver # 0 => v.ver <= attempt[c].ver)
    BY <2>1 DEF LiveInv, RetryInv, AttemptOf
  <2>5. attempt'[c] = IF attempt[c].id # 0 /\ (w.st # "failed" \/ HasNewFailure(attempt[c], w)) THEN NoTry ELSE attempt[c]
    BY <1>1, <2>2 DEF Settled
  <2>6. CASE attempt'[c] = NoTry
    <3>1. attempt'[c].id = 0 /\ 0 <= retries
      BY <2>6, TaskLiveAssumption DEF NoTry, LiveInv, Typed
    <3> QED BY <2>6, <3>1 DEF AttemptOf
  <2>7. CASE attempt'[c] # NoTry
    <3>1. attempt'[c] = attempt[c] /\ attempt[c].id # 0 /\ w.st = "failed" /\ ~HasNewFailure(attempt[c], w)
      BY <2>4, <2>5, <2>7
    <3>2. attempt[c].ver # 0 => w.ver <= attempt[c].ver
      BY <1>4, <2>3, <3>1 DEF HasNewFailure
    <3>3. attempt[c].ver <= w.ver
      BY <1>4, <2>3, <2>4, <3>1
    <3> QED BY <1>5, <2>2, <2>4, <3>1, <3>2, <3>3 DEF AttemptOf
  <2> QED BY <2>6, <2>7
<1>7. \A p \in posts : RetryOf(p)'
  <2> SUFFICES ASSUME NEW p \in posts
               PROVE  RetryOf(p)'
    OBVIOUS
  <2>0. PICK c \in Cards : c = p.card
    BY DEF LiveInv, Typed, Posts
  <2>1. PICK v \in Rows : v = View(c, live)
    BY ViewMovesOn
  <2>2. PICK w \in Rows : w = View(c, live')
    BY ViewMovesOn
  <2>3. v.ver <= w.ver /\ (v.ver = w.ver => v = w) /\ v.ver \in Nat /\ w.ver \in Nat
    BY <2>1, <2>2, ViewMovesOn, RowIsKnown
  <2>4. p.ver \in Nat /\ p.id \in Nat /\ p.id # 0
    BY TaskLiveAssumption DEF LiveInv, Typed, Posts
  <2>5. /\ p.ver <= v.ver
        /\ attempt[c].id = p.id => attempt[c].ver = p.ver
        /\ p.answer = "none" => attempt[c].id = p.id \/ v.st # "failed" \/ p.ver < v.ver
    BY <2>0, <2>1 DEF LiveInv, RetryInv, RetryOf
  <2>6. attempt'[c] = IF attempt[c].id # 0 /\ (w.st # "failed" \/ HasNewFailure(attempt[c], w)) THEN NoTry ELSE attempt[c]
    BY <1>1, <2>2 DEF Settled
  <2>7. p.ver <= w.ver
    BY <2>3, <2>4, <2>5
  <2>8. attempt'[c].id = p.id => attempt'[c].ver = p.ver
    BY <2>4, <2>5, <2>6 DEF NoTry
  <2>9. p.answer = "none" => attempt'[c].id = p.id \/ w.st # "failed" \/ p.ver < w.ver
    <3> SUFFICES ASSUME p.answer = "none", w.st = "failed", ~(p.ver < w.ver)
                 PROVE  attempt'[c].id = p.id
      OBVIOUS
    <3>1. w = v /\ w.ver = p.ver
      BY <2>3, <2>4, <2>5, <2>7
    <3>2. attempt[c].id = p.id /\ attempt[c].ver = p.ver
      BY <2>3, <2>4, <2>5, <3>1
    <3>3. ~HasNewFailure(attempt[c], w)
      BY <2>4, <3>1, <3>2 DEF HasNewFailure
    <3> QED BY <2>6, <3>2, <3>3
  <2> QED BY <1>5, <2>0, <2>2, <2>7, <2>8, <2>9 DEF RetryOf
<1>8. /\ \A p \in posts' : p.id <= retries' /\ RetryOf(p)'
      /\ \A p, q \in posts' : p.id = q.id => p = q
  BY <1>7 DEF LiveInv, RetryInv
<1> QED BY <1>3, <1>6, <1>8 DEF RetryInv

-----------------------------------------------------------------------------
(* The shared entry. *)

\* A row that is published takes the place of the snapshot and of what the live cards show, or is
\* older than the snapshot.
LEMMA PublishKeeps ==
    ASSUME LiveInv, NEW r \in Rows, Known(r), PublishTask(r), UNCHANGED <<seed, posts, retries, mounted>>,
           snap = {} => \A c \in Cards : \A l \in live[c] : l.ver <= r.ver
    PROVE  /\ snap' \subseteq Rows /\ live' \in [Cards -> SUBSET Rows]
           /\ attempt' \in [Cards -> [id : 0..MaxRetries, ver : 0..MaxVer]]
           /\ RetryInv'
           /\ AtMostOne(snap') /\ \A c \in Cards : AtMostOne(live'[c])
           /\ snap' # {} /\ \A c \in mounted : live'[c] = snap'
           /\ \A s \in snap' : \A c \in Cards : \A l \in live'[c] : l.ver <= s.ver
           /\ \A x \in snap' : Known(x)
           /\ \A c \in Cards : \A x \in live'[c] : Known(x)
           /\ r = row \/ row \in snap => row \in snap'
           /\ \A c \in Cards : \A l \in live[c] : \A x \in live'[c] : l.ver <= x.ver
<1>1. /\ live \in [Cards -> SUBSET Rows] /\ snap \subseteq Rows
      /\ attempt \in [Cards -> [id : 0..MaxRetries, ver : 0..MaxVer]]
  BY DEF LiveInv, Typed
<1>2. /\ AtMostOne(snap) /\ \A c \in Cards : AtMostOne(live[c])
      /\ snap # {} => \A c \in mounted : live[c] = snap
      /\ \A s \in snap : \A c \in Cards : \A l \in live[c] : l.ver <= s.ver
  BY DEF LiveInv, SharedInv
<1>3. \A x \in Rows : x.ver \in Nat
  BY RowIsKnown
<1>4. /\ \A x \in snap : Known(x)
      /\ \A c \in Cards : \A x \in live[c] : Known(x)
  BY DEF Known
<1>5. \A c \in Cards : \A l, x \in live[c] : l.ver <= x.ver
  BY <1>1, <1>2, <1>3 DEF AtMostOne
<1>6. CASE Stale(r)
  <2>1. UNCHANGED <<snap, live, attempt>>
    BY <1>6 DEF PublishTask
  <2>2. snap # {}
    BY <1>6 DEF Stale
  <2>3. RetryInv'
    BY <2>1, RetryFrame DEF LiveInv
  <2>4. r = row \/ row \in snap => row \in snap
    <3>1. PICK s \in snap : r.ver < s.ver
      BY <1>6 DEF Stale
    <3>2. s \in Rows /\ s.ver <= row.ver /\ s.ver \in Nat /\ r.ver \in Nat /\ row.ver \in Nat
      BY <1>1, <1>3, <1>4, <3>1, RowIsKnown DEF LiveInv, RowsInv
    <3> QED BY <3>1, <3>2
  <2> QED BY <1>1, <1>2, <1>4, <1>5, <2>1, <2>2, <2>3, <2>4
<1>7. CASE ~Stale(r)
  <2>1. /\ snap' = {r}
        /\ live' = [c \in Cards |-> IF c \in mounted THEN {r} ELSE live[c]]
        /\ Render(live')
    BY <1>7 DEF PublishTask, Snapshot
  <2>2. \A c \in Cards : \A l \in live[c] : l.ver <= r.ver
    <3>1. CASE snap = {}
      BY <3>1
    <3>2. CASE snap # {}
      <4>1. PICK s \in snap : TRUE
        BY <3>2
      <4>2. s.ver \in Nat /\ r.ver \in Nat /\ s.ver <= r.ver
        BY <1>1, <1>3, <1>7, <4>1 DEF Stale
      <4>3. \A c \in Cards : \A l \in live[c] : l.ver \in Nat /\ l.ver <= s.ver
        BY <1>1, <1>2, <1>3, <4>1
      <4> QED BY <4>2, <4>3
    <3> QED BY <3>1, <3>2
  <2>3. live' \in [Cards -> SUBSET Rows] /\ \A c \in Cards : live'[c] = {r} \/ live'[c] = live[c]
    BY <1>1, <2>1
  <2>4. \A c \in Cards : AtMostOne(live'[c])
    BY <1>2, <2>3 DEF AtMostOne
  <2>5. \A c \in Cards : \A x \in live'[c] : Known(x)
    BY <1>4, <2>3
  <2>6. \A c \in Cards : \A l \in live[c] : \A x \in live'[c] : l.ver <= x.ver
    BY <1>5, <2>2, <2>3
  <2>7. \A c \in Cards : live'[c] = {} => live[c] = {}
    BY <2>3
  <2>8. attempt' \in [Cards -> [id : 0..MaxRetries, ver : 0..MaxVer]] /\ RetryInv'
    BY <2>1, <2>3, <2>4, <2>5, <2>6, <2>7, RenderKeeps
  <2>9. \A c \in mounted : live'[c] = {r}
    BY <2>1 DEF LiveInv, Typed
  <2>10. r = row \/ row \in snap => r = row
    <3> SUFFICES ASSUME row \in snap
                 PROVE  r = row
      OBVIOUS
    <3>1. row.ver <= r.ver /\ r.ver <= row.ver /\ row.ver \in Nat /\ r.ver \in Nat
      BY <1>3, <1>7, RowIsKnown DEF Stale, LiveInv, RowsInv
    <3> QED BY <3>1, RowIsKnown DEF LiveInv, RowsInv
  <2>11. \A c \in Cards : \A l \in live'[c] : l.ver <= r.ver
    BY <1>3, <2>2, <2>3
  <2> QED BY <2>1, <2>3, <2>4, <2>5, <2>6, <2>8, <2>9, <2>10, <2>11 DEF AtMostOne
<1> QED BY <1>6, <1>7

LEMMA StepPrimeArrives ==
    ASSUME LiveInv, PrimeArrives
    PROVE  /\ LiveInv'
           /\ \A c \in Cards : \A l \in live[c] : \A x \in live'[c] : l.ver <= x.ver
<1>1. /\ prime' = NoRead /\ closed' = IF prime.up THEN closed \cup {"task"} ELSE closed
      /\ UNCHANGED <<watching, row, out, chan, events, ticks, seed, mounted, asked, got, summary, timer, fetch, page,
                     posts, faults, retries, moves>>
  BY DEF PrimeArrives, outVars, pageVars, bounds
<1>2. PICK r \in prime.read : PublishTask(r)
  BY DEF PrimeArrives
<1>3. r \in Rows /\ Known(r)
  BY DEF LiveInv, Typed, Known
<1>4. snap = {} => \A c \in Cards : \A l \in live[c] : l.ver <= r.ver
  BY DEF LiveInv, SharedInv
<1>5. /\ snap' \subseteq Rows /\ live' \in [Cards -> SUBSET Rows]
      /\ attempt' \in [Cards -> [id : 0..MaxRetries, ver : 0..MaxVer]]
      /\ RetryInv'
      /\ AtMostOne(snap') /\ \A c \in Cards : AtMostOne(live'[c])
      /\ snap' # {} /\ \A c \in mounted : live'[c] = snap'
      /\ \A s \in snap' : \A c \in Cards : \A l \in live'[c] : l.ver <= s.ver
      /\ \A x \in snap' : Known(x)
      /\ \A c \in Cards : \A x \in live'[c] : Known(x)
      /\ r = row \/ row \in snap => row \in snap'
      /\ \A c \in Cards : \A l \in live[c] : \A x \in live'[c] : l.ver <= x.ver
  BY <1>1, <1>2, <1>3, <1>4, PublishKeeps
<1>6. NoRead \in [on : BOOLEAN, read : SUBSET Rows, up : BOOLEAN] /\ NoRead.read = {} /\ NoRead.up = FALSE
  BY DEF NoRead
<1>7. Typed'
  BY <1>1, <1>5, <1>6 DEF LiveInv, Typed, Channels
<1>8. RowsInv'
  <2>1. \A x \in Rows : Known(x)' => Known(x)
    BY <1>1, <1>5, <1>6 DEF Known
  <2> QED BY <1>1, <2>1, RowsKept DEF LiveInv
<1>9. "task" \in closed' /\ events' = << >> => row' \in snap'
  <2>1. "task" \in closed /\ events = << >> => row \in snap
    BY DEF LiveInv, SharedInv
  <2>2. prime.up /\ events = << >> => r = row \/ row \in snap
    BY DEF LiveInv, SharedInv, AtMostOne
  <2> QED BY <1>1, <1>5, <2>1, <2>2
<1>10. "task" \in closed' => chan'["task"] = "ready"
  BY <1>1 DEF LiveInv, SharedInv
<1>11. SharedInv'
  BY <1>1, <1>5, <1>6, <1>9, <1>10 DEF LiveInv, SharedInv, AtMostOne
<1>12. "page" \in closed' <=> "page" \in closed
  BY <1>1
<1>13. PageInv'
  BY <1>1, <1>12, PageFrame DEF LiveInv
<1> QED BY <1>5, <1>7, <1>8, <1>11, <1>13 DEF LiveInv

LEMMA StepTaskEvent ==
    ASSUME LiveInv, TaskEvent
    PROVE  /\ LiveInv'
           /\ \A c \in Cards : \A l \in live[c] : \A x \in live'[c] : l.ver <= x.ver
<1>1. /\ events # << >> /\ events' = Tail(events)
      /\ UNCHANGED <<watching, row, out, chan, ticks, seed, mounted, prime, asked, got, summary, timer, fetch, page,
                     posts, closed, faults, retries, moves>>
  BY DEF TaskEvent, outVars, pageVars, bounds
<1>2. events \in Seq(Rows)
  BY DEF LiveInv, Typed
<1>3. PICK r \in Rows : r = Head(events) /\ r = events[1] /\ 1 \in DOMAIN events
  BY <1>1, <1>2
<1>4. PublishTask(r) /\ Known(r)
  BY <1>3 DEF TaskEvent, Known
<1>5. snap = {} => \A c \in Cards : \A l \in live[c] : l.ver <= r.ver
  BY <1>3 DEF LiveInv, SharedInv
<1>6. /\ snap' \subseteq Rows /\ live' \in [Cards -> SUBSET Rows]
      /\ attempt' \in [Cards -> [id : 0..MaxRetries, ver : 0..MaxVer]]
      /\ RetryInv'
      /\ AtMostOne(snap') /\ \A c \in Cards : AtMostOne(live'[c])
      /\ snap' # {} /\ \A c \in mounted : live'[c] = snap'
      /\ \A s \in snap' : \A c \in Cards : \A l \in live'[c] : l.ver <= s.ver
      /\ \A x \in snap' : Known(x)
      /\ \A c \in Cards : \A x \in live'[c] : Known(x)
      /\ r = row \/ row \in snap => row \in snap'
      /\ \A c \in Cards : \A l \in live[c] : \A x \in live'[c] : l.ver <= x.ver
  BY <1>1, <1>4, <1>5, PublishKeeps
<1>7. /\ events' \in Seq(Rows) /\ Len(events') = Len(events) - 1
      /\ \A i \in DOMAIN events' : i + 1 \in DOMAIN events /\ events'[i] = events[i + 1]
  BY <1>1, <1>2
<1>8. Typed'
  BY <1>1, <1>6, <1>7 DEF LiveInv, Typed
<1>9. RowsInv'
  <2>1. \A x \in Rows : Known(x)' => Known(x)
    BY <1>1, <1>6, <1>7 DEF Known
  <2> QED BY <1>1, <2>1, RowsKept DEF LiveInv
<1>10. events[Len(events)] = row
  BY <1>1 DEF LiveInv, SharedInv
<1>11. events' # << >> => events'[Len(events')] = row
  <2> SUFFICES ASSUME events' # << >>
               PROVE  events'[Len(events')] = row
    OBVIOUS
  <2>1. Len(events') \in DOMAIN events' /\ Len(events') + 1 = Len(events)
    BY <1>2, <1>7
  <2> QED BY <1>7, <1>10, <2>1
<1>12. events' = << >> => row \in snap'
  <2> SUFFICES ASSUME events' = << >>
               PROVE  r = row
    BY <1>6
  <2>1. Len(events) = 1
    BY <1>2, <1>7
  <2> QED BY <1>3, <1>10, <2>1
<1>13. chan["task"] = "ready"
  BY <1>1 DEF LiveInv, SharedInv
<1>14. SharedInv'
  BY <1>1, <1>6, <1>11, <1>12, <1>13 DEF LiveInv, SharedInv, AtMostOne
<1>15. PageInv'
  BY <1>1, PageFrame DEF LiveInv
<1> QED BY <1>6, <1>8, <1>9, <1>14, <1>15 DEF LiveInv

\* A card that joins is handed the snapshot, which is no older than what it showed.
LEMMA StepSubscribeToTask ==
    ASSUME LiveInv, NEW c \in Cards, SubscribeToTask(c)
    PROVE  /\ LiveInv'
           /\ \A d \in Cards : \A l \in live[d] : \A x \in live'[d] : l.ver <= x.ver
<1>1. /\ mounted' = mounted \cup {c} /\ moves' = moves + 1 /\ moves < MaxMoves
      /\ live' = IF snap = {} THEN live ELSE [live EXCEPT ![c] = snap]
      /\ Render(live')
      /\ prime' = prime \/ prime' = [NoRead EXCEPT !.on = TRUE]
      /\ UNCHANGED <<watching, row, out, chan, events, ticks, seed, snap, asked, got, summary, timer, fetch, page,
                     posts, closed, faults, retries>>
  BY DEF SubscribeToTask, Joining, PrimeTask, outVars, pageVars
<1>2. /\ live \in [Cards -> SUBSET Rows] /\ snap \subseteq Rows
      /\ prime \in [on : BOOLEAN, read : SUBSET Rows, up : BOOLEAN]
  BY DEF LiveInv, Typed
<1>3. live' \in [Cards -> SUBSET Rows] /\ \A d \in Cards : live'[d] = live[d] \/ (live'[d] = snap /\ snap # {})
  BY <1>1, <1>2
<1>4. /\ AtMostOne(snap) /\ \A d \in Cards : AtMostOne(live[d])
      /\ \A s \in snap : \A d \in Cards : \A l \in live[d] : l.ver <= s.ver
  BY DEF LiveInv, SharedInv
<1>5. \A x \in Rows : x.ver \in Nat
  BY RowIsKnown
<1>6. \A d \in Cards : AtMostOne(live'[d])
  BY <1>3, <1>4
<1>7. \A d \in Cards : \A x \in live'[d] : Known(x)
  BY <1>3 DEF Known
<1>8. \A d \in Cards : \A l \in live[d] : \A x \in live'[d] : l.ver <= x.ver
  <2> SUFFICES ASSUME NEW d \in Cards, NEW l \in live[d], NEW x \in live'[d]
               PROVE  l.ver <= x.ver
    OBVIOUS
  <2>1. CASE live'[d] = snap
    BY <1>4, <2>1
  <2>2. CASE live'[d] = live[d]
    <3>1. l = x /\ l \in Rows
      BY <1>2, <1>4, <2>2 DEF AtMostOne
    <3> QED BY <1>5, <3>1
  <2> QED BY <1>3, <2>1, <2>2
<1>9. \A d \in Cards : live'[d] = {} => live[d] = {}
  BY <1>3
<1>10. attempt' \in [Cards -> [id : 0..MaxRetries, ver : 0..MaxVer]] /\ RetryInv'
  BY <1>1, <1>3, <1>6, <1>7, <1>8, <1>9, RenderKeeps
<1>11. /\ prime' \in [on : BOOLEAN, read : SUBSET Rows, up : BOOLEAN]
       /\ prime' = prime \/ (prime'.read = {} /\ prime'.up = FALSE)
  BY <1>1, <1>2 DEF NoRead
<1>12. Typed'
  <2>1. mounted' \subseteq Cards
    BY <1>1 DEF LiveInv, Typed
  <2>2. moves' \in 0..MaxMoves
    BY <1>1, TaskLiveAssumption DEF LiveInv, Typed
  <2> QED BY <1>1, <1>3, <1>10, <1>11, <2>1, <2>2 DEF LiveInv, Typed
<1>13. RowsInv'
  <2>1. \A x \in Rows : Known(x)' => Known(x)
    BY <1>1, <1>7, <1>11 DEF Known
  <2> QED BY <1>1, <2>1, RowsKept DEF LiveInv
<1>14. snap # {} => \A d \in mounted' : live'[d] = snap
  BY <1>1, <1>2 DEF LiveInv, SharedInv, Typed
<1>15. \A s \in snap : \A d \in Cards : \A l \in live'[d] : l.ver <= s.ver
  <2> SUFFICES ASSUME NEW s \in snap, NEW d \in Cards, NEW l \in live'[d]
               PROVE  l.ver <= s.ver
    OBVIOUS
  <2>1. CASE live'[d] = snap
    <3>1. l = s /\ s \in Rows
      BY <1>2, <1>4, <2>1 DEF AtMostOne
    <3> QED BY <1>5, <3>1
  <2>2. CASE live'[d] = live[d]
    BY <1>4, <2>2
  <2> QED BY <1>3, <2>1, <2>2
<1>16. snap = {} => live' = live
  BY <1>1
<1>17. SharedInv'
  BY <1>1, <1>4, <1>6, <1>11, <1>14, <1>15, <1>16 DEF LiveInv, SharedInv, AtMostOne
<1>18. PageInv'
  BY <1>1, PageFrame DEF LiveInv
<1> QED BY <1>8, <1>10, <1>12, <1>13, <1>17, <1>18 DEF LiveInv

\* With the last card go the channel, its events and the read that is on its way.
LEMMA StepUnsubscribe ==
    ASSUME LiveInv, NEW c \in Cards, Unsubscribe(c)
    PROVE  LiveInv' /\ live' = live
<1>1. /\ mounted' = mounted \ {c} /\ moves' = moves + 1 /\ moves < MaxMoves
      /\ UNCHANGED <<watching, row, out, ticks, seed, live, asked, got, summary, timer, fetch, page,
                     attempt, posts, faults, retries>>
  BY DEF Unsubscribe, outVars, pageVars, retryVars
<1>2. CASE UNCHANGED <<chan, events, snap, prime, closed>>
  <2>1. Typed'
    BY <1>1, <1>2, TaskLiveAssumption DEF LiveInv, Typed
  <2>2. SharedInv'
    BY <1>1, <1>2 DEF LiveInv, SharedInv, AtMostOne
  <2> QED BY <1>1, <1>2, <2>1, <2>2, RowsFrame, RetryFrame, PageFrame DEF LiveInv
<1>3. CASE /\ chan' = [chan EXCEPT !["task"] = "off"]
           /\ events' = << >> /\ snap' = {} /\ prime' = NoRead
           /\ closed' = closed \ {"task"}
  <2>1. NoRead \in [on : BOOLEAN, read : SUBSET Rows, up : BOOLEAN] /\ NoRead.read = {} /\ NoRead.up = FALSE
    BY DEF NoRead
  <2>2. chan' \in [Channels -> {"off", "joined", "ready"}] /\ chan'["task"] = "off" /\ chan'["page"] = chan["page"]
    BY <1>3 DEF LiveInv, Typed, Channels
  <2>3. Typed'
    BY <1>1, <1>3, <2>1, <2>2, TaskLiveAssumption DEF LiveInv, Typed
  <2>4. RowsInv'
    <3>1. \A x \in Rows : Known(x)' => Known(x)
      BY <1>1, <1>3, <2>1 DEF Known
    <3> QED BY <1>1, <3>1, RowsKept DEF LiveInv
  <2>5. SharedInv'
    BY <1>1, <1>3, <2>1, <2>2 DEF LiveInv, SharedInv, AtMostOne
  <2> QED BY <1>1, <1>3, <2>2, <2>3, <2>4, <2>5, RetryFrame, PageFrame DEF LiveInv
<1> QED BY <1>1, <1>2, <1>3 DEF Unsubscribe

LEMMA StepPrimeReads ==
    ASSUME LiveInv, PrimeReads
    PROVE  LiveInv' /\ live' = live
<1>1. /\ prime' = [prime EXCEPT !.read = {row}, !.up = chan["task"] = "ready"]
      /\ UNCHANGED <<watching, row, out, chan, events, ticks, seed, mounted, snap, live, asked, got, summary, timer,
                     fetch, page, attempt, posts, closed, faults, retries, moves>>
  BY DEF PrimeReads, outVars, pageVars, retryVars, bounds
<1>2. /\ prime' \in [on : BOOLEAN, read : SUBSET Rows, up : BOOLEAN]
      /\ prime'.read = {row} /\ (prime'.up <=> chan["task"] = "ready")
  BY <1>1 DEF LiveInv, Typed
<1>3. Typed'
  BY <1>1, <1>2 DEF LiveInv, Typed
<1>4. RowsInv'
  <2>1. \A x \in Rows : Known(x)' => Known(x)
    BY <1>1, <1>2 DEF Known
  <2> QED BY <1>1, <2>1, RowsKept DEF LiveInv
<1>5. \A c \in Cards : \A l \in live[c] : l.ver <= row.ver
  BY DEF LiveInv, RowsInv, Known, Typed
<1>6. SharedInv'
  BY <1>1, <1>2, <1>5 DEF LiveInv, SharedInv, AtMostOne
<1> QED BY <1>1, <1>3, <1>4, <1>6, RetryFrame, PageFrame DEF LiveInv

LEMMA StepPrimeFails ==
    ASSUME LiveInv, PrimeFails
    PROVE  LiveInv' /\ live' = live
<1>1. /\ prime' = NoRead /\ faults' = faults + 1 /\ faults < MaxFaults
      /\ UNCHANGED <<watching, row, out, chan, events, ticks, seed, mounted, snap, live, asked, got, summary, timer,
                     fetch, page, attempt, posts, closed, retries, moves>>
  BY DEF PrimeFails, outVars, pageVars, retryVars
<1>2. NoRead \in [on : BOOLEAN, read : SUBSET Rows, up : BOOLEAN] /\ NoRead.read = {} /\ NoRead.up = FALSE
  BY DEF NoRead
<1>3. Typed'
  BY <1>1, <1>2, TaskLiveAssumption DEF LiveInv, Typed
<1>4. RowsInv'
  <2>1. \A x \in Rows : Known(x)' => Known(x)
    BY <1>1, <1>2 DEF Known
  <2> QED BY <1>1, <2>1, RowsKept DEF LiveInv
<1>5. SharedInv'
  BY <1>1, <1>2 DEF LiveInv, SharedInv, AtMostOne
<1> QED BY <1>1, <1>3, <1>4, <1>5, RetryFrame, PageFrame DEF LiveInv

-----------------------------------------------------------------------------
(* The channels. *)

LEMMA StepSubscribed ==
    ASSUME LiveInv, NEW x \in Channels, Subscribed(x)
    PROVE  LiveInv' /\ live' = live
<1>1. /\ chan[x] = "off" /\ chan' = [chan EXCEPT ![x] = "joined"]
      /\ prime' = prime \/ prime' = [NoRead EXCEPT !.on = TRUE]
      /\ timer' = IF x = "page" THEN TRUE ELSE timer
      /\ UNCHANGED <<watching, row, out, events, ticks, seed, mounted, snap, live, asked, got, summary, fetch, page,
                     attempt, posts, closed, faults, retries, moves>>
  BY DEF Subscribed, PrimeTask, ReadsWhenJoined, Refresh, outVars, retryVars, bounds
<1>2. /\ prime' \in [on : BOOLEAN, read : SUBSET Rows, up : BOOLEAN]
      /\ prime' = prime \/ (prime'.read = {} /\ prime'.up = FALSE)
  BY <1>1 DEF NoRead, LiveInv, Typed
<1>3. /\ chan' \in [Channels -> {"off", "joined", "ready"}]
      /\ \A y \in Channels : chan[y] = "ready" <=> chan'[y] = "ready"
  BY <1>1 DEF LiveInv, Typed
<1>4. Typed'
  BY <1>1, <1>2, <1>3 DEF LiveInv, Typed
<1>5. RowsInv'
  <2>1. \A r \in Rows : Known(r)' => Known(r)
    BY <1>1, <1>2 DEF Known
  <2> QED BY <1>1, <2>1, RowsKept DEF LiveInv
<1>6. SharedInv'
  BY <1>1, <1>2, <1>3 DEF LiveInv, SharedInv, AtMostOne, Channels
<1>7. PageInv'
  BY <1>1, <1>3 DEF LiveInv, PageInv, Channels
<1> QED BY <1>1, <1>4, <1>5, <1>6, <1>7, RetryFrame DEF LiveInv

LEMMA StepListenerUp ==
    ASSUME LiveInv, NEW x \in Channels, ListenerUp(x)
    PROVE  LiveInv' /\ live' = live
<1>1. /\ chan[x] = "joined" /\ chan' = [chan EXCEPT ![x] = "ready"]
      /\ UNCHANGED <<watching, row, out, events, ticks, seed, mounted, snap, prime, live, asked, got, summary, timer,
                     fetch, page, attempt, posts, closed, faults, retries, moves>>
  BY DEF ListenerUp, entryVars, outVars, pageVars, retryVars, bounds
<1>2. /\ chan' \in [Channels -> {"off", "joined", "ready"}]
      /\ \A y \in Channels : chan[y] = "ready" => chan'[y] = "ready"
  BY <1>1 DEF LiveInv, Typed
<1>3. Typed'
  BY <1>1, <1>2 DEF LiveInv, Typed
<1>4. SharedInv'
  BY <1>1, <1>2 DEF LiveInv, SharedInv, AtMostOne, Channels
<1>5. PageInv'
  BY <1>1, <1>2 DEF LiveInv, PageInv, Channels
<1> QED BY <1>1, <1>3, <1>4, <1>5, RowsFrame, RetryFrame DEF LiveInv

LEMMA StepChannelDrops ==
    ASSUME LiveInv, NEW x \in Channels, ChannelDrops(x)
    PROVE  LiveInv' /\ live' = live
<1>1. /\ chan' = [chan EXCEPT ![x] = "off"] /\ faults' = faults + 1 /\ faults < MaxFaults
      /\ events' = IF x = "task" THEN << >> ELSE events
      /\ ticks' = [y \in DOMAIN ticks |-> IF x = y THEN 0 ELSE ticks[y]]
      /\ prime' = IF x = "task" THEN [prime EXCEPT !.up = FALSE] ELSE prime
      /\ fetch' = IF x = "page" THEN [fetch EXCEPT !.up = FALSE] ELSE fetch
      /\ closed' = closed \ {x}
      /\ UNCHANGED <<watching, row, out, seed, mounted, snap, live, asked, got, summary, timer, page, attempt, posts,
                     retries, moves>>
  BY DEF ChannelDrops, outVars, retryVars
<1>2. chan' \in [Channels -> {"off", "joined", "ready"}] /\ \A y \in Channels : y # x => chan'[y] = chan[y]
  BY <1>1 DEF LiveInv, Typed
<1>3. ticks' \in [{"outputs", "page"} -> Nat] /\ (x # "page" => ticks'["page"] = ticks["page"])
  BY <1>1 DEF LiveInv, Typed
<1>4. /\ prime' \in [on : BOOLEAN, read : SUBSET Rows, up : BOOLEAN] /\ prime'.read = prime.read
      /\ x = "task" => prime'.up = FALSE
      /\ x # "task" => prime' = prime
  BY <1>1 DEF LiveInv, Typed
<1>5. /\ fetch' \in [on : BOOLEAN, read : SUBSET (Rows \X (0..MaxOut)), up : BOOLEAN]
      /\ fetch'.read = fetch.read /\ fetch'.on = fetch.on
      /\ x = "page" => fetch'.up = FALSE
      /\ x # "page" => fetch' = fetch
  BY <1>1 DEF LiveInv, Typed
<1>6. events' \in Seq(Rows)
  BY <1>1 DEF LiveInv, Typed
<1>7. Typed'
  <2>1. closed' \subseteq Channels
    BY <1>1 DEF LiveInv, Typed
  <2>2. faults' \in 0..MaxFaults
    BY <1>1, TaskLiveAssumption DEF LiveInv, Typed
  <2> QED BY <1>1, <1>2, <1>3, <1>4, <1>5, <1>6, <2>1, <2>2 DEF LiveInv, Typed
<1>8. RowsInv'
  <2>1. \A r \in Rows : Known(r)' => Known(r)
    BY <1>1, <1>4 DEF Known
  <2> QED BY <1>1, <2>1, RowsKept DEF LiveInv
<1>9. SharedInv'
  <2>1. CASE x = "task"
    BY <1>1, <1>2, <1>4, <2>1 DEF LiveInv, SharedInv, AtMostOne, Channels
  <2>2. CASE x # "task"
    BY <1>1, <1>2, <1>4, <2>2, SharedFrame DEF LiveInv, Channels
  <2> QED BY <2>1, <2>2
<1>10. PageInv'
  <2>1. CASE x = "page"
    BY <1>1, <1>5, <2>1 DEF LiveInv, PageInv
  <2>2. CASE x # "page"
    BY <1>1, <1>2, <1>3, <1>5, <2>2, PageFrame DEF LiveInv, Channels
  <2> QED BY <2>1, <2>2
<1> QED BY <1>1, <1>7, <1>8, <1>9, <1>10, RetryFrame DEF LiveInv


-----------------------------------------------------------------------------
(* The retry button. *)

\* An answer on its way changes nothing else of the request it answers.
LEMMA AnswerKeeps ==
    ASSUME LiveInv, NEW p \in posts, NEW a \in {"ok", "rejected"}, Answer(p, a),
           UNCHANGED <<seed, live, attempt, retries>>
    PROVE  posts' \subseteq Posts /\ RetryInv'
<1>1. p \in Posts /\ posts \subseteq Posts
  BY DEF LiveInv, Typed
<1> DEFINE q == [p EXCEPT !.answer = a]
<1>2. /\ q \in Posts /\ q.card = p.card /\ q.id = p.id /\ q.ver = p.ver /\ q.answer = a
  BY <1>1 DEF Posts
<1>3. posts' = (posts \ {p}) \cup {q}
  BY DEF Answer
<1>4. posts' \subseteq Posts
  BY <1>1, <1>2, <1>3
<1> HIDE DEF q
<1>5. \A c \in Cards : AttemptOf(c)'
  BY DEF LiveInv, RetryInv, AttemptOf, View
<1>6. p.id <= retries /\ RetryOf(p)
  BY DEF LiveInv, RetryInv
<1>7. RetryOf(q)'
  BY <1>2, <1>6 DEF RetryOf, View
<1>8. \A x \in posts' : x.id <= retries' /\ RetryOf(x)'
  <2> SUFFICES ASSUME NEW x \in posts'
               PROVE  x.id <= retries' /\ RetryOf(x)'
    OBVIOUS
  <2>1. CASE x = q
    BY <1>2, <1>6, <1>7, <2>1
  <2>2. CASE x \in posts
    <3>1. x.id <= retries /\ RetryOf(x)
      BY <2>2 DEF LiveInv, RetryInv
    <3> QED BY <3>1 DEF RetryOf, View
  <2> QED BY <1>3, <2>1, <2>2
<1>9. \A x, y \in posts' : x.id = y.id => x = y
  BY <1>2, <1>3 DEF LiveInv, RetryInv
<1> QED BY <1>4, <1>5, <1>8, <1>9 DEF RetryInv

LEMMA StepRetryTaskRoute ==
    ASSUME LiveInv, NEW p \in posts, RetryTaskRoute(p)
    PROVE  LiveInv' /\ live' = live
<1>1. UNCHANGED <<watching, out, chan, seed, mounted, snap, prime, live, asked, got, summary, timer, fetch, page,
                  attempt, closed, faults, retries, moves>>
  BY DEF RetryTaskRoute, entryVars, outVars, pageVars, bounds
<1>2. PICK a \in {"ok", "rejected"} : Answer(p, a)
  BY DEF RetryTaskRoute
<1>3. posts' \subseteq Posts /\ RetryInv'
  BY <1>1, <1>2, AnswerKeeps
<1>4. /\ row' \in Rows /\ events' \in Seq(Rows) /\ ticks' \in [{"outputs", "page"} -> Nat]
      /\ RowsInv' /\ SharedInv' /\ PageInv'
  <2>1. CASE Commit("pending")
    BY <1>1, <2>1, CommitKeeps DEF Statuses, entryVars, pageVars
  <2>2. CASE UNCHANGED <<watching, row, events, ticks>>
    BY <1>1, <2>2, RowsFrame, SharedFrame, PageFrame DEF LiveInv, Typed
  <2> QED BY <2>1, <2>2 DEF RetryTaskRoute
<1>5. Typed'
  BY <1>1, <1>3, <1>4 DEF LiveInv, Typed
<1> QED BY <1>1, <1>3, <1>4, <1>5 DEF LiveInv

LEMMA StepAnswerLost ==
    ASSUME LiveInv, NEW p \in posts, AnswerLost(p)
    PROVE  LiveInv' /\ live' = live
<1>1. /\ faults' = faults + 1 /\ faults < MaxFaults /\ Answer(p, "rejected")
      /\ UNCHANGED <<watching, row, out, chan, events, ticks, seed, mounted, snap, prime, live, asked, got, summary,
                     timer, fetch, page, attempt, closed, retries, moves>>
  BY DEF AnswerLost, entryVars, outVars, pageVars
<1>2. posts' \subseteq Posts /\ RetryInv'
  BY <1>1, AnswerKeeps
<1>3. faults' \in 0..MaxFaults
  BY <1>1, TaskLiveAssumption DEF LiveInv, Typed
<1>4. Typed'
  BY <1>1, <1>2, <1>3 DEF LiveInv, Typed
<1> QED BY <1>1, <1>2, <1>4, RowsFrame, SharedFrame, PageFrame DEF LiveInv

\* A rejection frees the button of the attempt it rejects, and of no other.
LEMMA StepRetryAnswered ==
    ASSUME LiveInv, NEW p \in posts, RetryAnswered(p)
    PROVE  LiveInv' /\ live' = live
<1>1. /\ p.answer # "none" /\ posts' = posts \ {p}
      /\ attempt' = IF p.answer = "ok" THEN attempt ELSE [attempt EXCEPT ![p.card] = Cleared(p.card, p)]
      /\ UNCHANGED <<watching, row, out, chan, events, ticks, seed, mounted, snap, prime, live, asked, got, summary,
                     timer, fetch, page, closed, faults, retries, moves>>
  BY DEF RetryAnswered, entryVars, outVars, pageVars, bounds
<1>2. /\ p \in Posts /\ posts \subseteq Posts /\ p.card \in Cards /\ p.id \in 1..MaxRetries
      /\ attempt \in [Cards -> [id : 0..MaxRetries, ver : 0..MaxVer]]
  BY DEF LiveInv, Typed, Posts
<1>3. NoTry \in [id : 0..MaxRetries, ver : 0..MaxVer] /\ NoTry.id = 0 /\ NoTry.ver = 0
  BY TaskLiveAssumption DEF NoTry
<1>4. attempt' \in [Cards -> [id : 0..MaxRetries, ver : 0..MaxVer]]
  BY <1>1, <1>2, <1>3 DEF Cleared
<1>5. \A c \in Cards : attempt'[c] = attempt[c] \/ (attempt[c].id = p.id /\ attempt'[c] = NoTry)
  BY <1>1, <1>2 DEF Cleared
<1>6. posts' \subseteq posts /\ \A x \in posts' : x.id # p.id
  BY <1>1 DEF LiveInv, RetryInv
<1>7. \A c \in Cards : AttemptOf(c)'
  <2> SUFFICES ASSUME NEW c \in Cards
               PROVE  AttemptOf(c)'
    OBVIOUS
  <2>1. AttemptOf(c) /\ View(c, live)' = View(c, live)
    BY <1>1 DEF LiveInv, RetryInv, View
  <2>2. CASE attempt'[c] = attempt[c]
    BY <1>1, <2>1, <2>2 DEF AttemptOf
  <2>3. CASE attempt[c].id = p.id /\ attempt'[c] = NoTry
    <3>1. retries \in Nat
      BY TaskLiveAssumption DEF LiveInv, Typed
    <3> QED BY <1>1, <1>3, <2>3, <3>1 DEF AttemptOf
  <2> QED BY <1>5, <2>2, <2>3
<1>8. \A x \in posts' : x.id <= retries' /\ RetryOf(x)'
  <2> SUFFICES ASSUME NEW x \in posts'
               PROVE  x.id <= retries' /\ RetryOf(x)'
    OBVIOUS
  <2>1. /\ x \in posts /\ x.id # p.id /\ x.card \in Cards /\ x.id \in 1..MaxRetries
        /\ x.id <= retries /\ RetryOf(x)
        /\ View(x.card, live)' = View(x.card, live)
    BY <1>1, <1>2, <1>6 DEF LiveInv, RetryInv, Posts, View
  <2>2. CASE attempt'[x.card] = attempt[x.card]
    BY <1>1, <2>1, <2>2 DEF RetryOf
  <2>3. CASE attempt[x.card].id = p.id /\ attempt'[x.card] = NoTry
    BY <1>1, <1>3, <2>1, <2>3 DEF RetryOf
  <2> QED BY <1>5, <2>1, <2>2, <2>3
<1>9. RetryInv'
  BY <1>6, <1>7, <1>8 DEF LiveInv, RetryInv
<1>10. Typed'
  BY <1>1, <1>2, <1>4, <1>6 DEF LiveInv, Typed
<1> QED BY <1>1, <1>9, <1>10, RowsFrame, SharedFrame, PageFrame DEF LiveInv

LEMMA StepHandleRetry ==
    ASSUME LiveInv, NEW c \in Cards, HandleRetry(c)
    PROVE  LiveInv' /\ live' = live
<1>1. PICK v : v = View(c, live)
  OBVIOUS
<1>2. PICK t : t = [id |-> retries + 1, ver |-> v.ver]
  OBVIOUS
<1>3. PICK q : q = [card |-> c, id |-> retries + 1, ver |-> v.ver, answer |-> "none"]
  OBVIOUS
<1>4. /\ v.st = "failed" /\ attempt[c].id = 0 /\ retries < MaxRetries /\ retries' = retries + 1
      /\ attempt' = [attempt EXCEPT ![c] = t]
      /\ posts' = posts \cup {q}
      /\ UNCHANGED <<watching, row, out, chan, events, ticks, seed, mounted, snap, prime, live, asked, got, summary,
                     timer, fetch, page, closed, faults, moves>>
  BY <1>1, <1>2, <1>3 DEF HandleRetry, entryVars, outVars, pageVars
<1>5. retries \in Nat /\ retries' \in 0..MaxRetries /\ retries' \in 1..MaxRetries
  BY <1>4, TaskLiveAssumption DEF LiveInv, Typed
<1>6. v \in Rows /\ v.ver \in 0..MaxVer /\ v.ver \in Nat
  <2>1. v \in Rows
    <3>1. /\ AtMostOne(live[c]) /\ live[c] \subseteq Rows /\ seed \in Rows
      BY DEF LiveInv, SharedInv, Typed
    <3> QED BY <1>1, <3>1, ViewIs
  <2> QED BY <2>1, TaskLiveAssumption DEF Rows
<1>7. \A d \in Cards : View(d, live)' = View(d, live)
  BY <1>4 DEF View
<1>8. /\ q \in Posts /\ q.card = c /\ q.id = retries' /\ q.ver = v.ver /\ q.answer = "none"
      /\ t \in [id : 0..MaxRetries, ver : 0..MaxVer] /\ t.id = retries' /\ t.ver = v.ver
  BY <1>4, <1>5, <1>6, <1>2, <1>3 DEF Posts
<1>9. /\ posts \subseteq Posts
      /\ attempt \in [Cards -> [id : 0..MaxRetries, ver : 0..MaxVer]]
  BY DEF LiveInv, Typed
<1>10. posts' \subseteq Posts /\ attempt' \in [Cards -> [id : 0..MaxRetries, ver : 0..MaxVer]]
      /\ attempt'[c] = t /\ \A d \in Cards : d # c => attempt'[d] = attempt[d]
  BY <1>4, <1>8, <1>9
<1>11. \A d \in Cards : AttemptOf(d)'
  <2> SUFFICES ASSUME NEW d \in Cards
               PROVE  AttemptOf(d)'
    OBVIOUS
  <2>1. AttemptOf(d)
    BY DEF LiveInv, RetryInv
  <2>2. CASE d = c
    <3>1. View(d, live)' = v
      BY <1>1, <1>7, <2>2
    <3> QED BY <1>4, <1>5, <1>6, <1>8, <1>10, <2>2, <3>1 DEF AttemptOf
  <2>3. CASE d # c
    <3>1. attempt[d].id \in Nat /\ attempt'[d] = attempt[d]
      BY <1>9, <1>10, <2>3, TaskLiveAssumption
    <3> QED BY <1>4, <1>5, <1>7, <2>1, <3>1 DEF AttemptOf
  <2> QED BY <2>2, <2>3
<1>12. \A x \in posts : x \in Posts /\ x.card \in Cards /\ x.id \in Nat /\ x.ver \in Nat /\ x.id <= retries /\ RetryOf(x)
  BY <1>9, TaskLiveAssumption DEF LiveInv, RetryInv, Posts
<1>13. RetryOf(q)'
  <2>1. View(q.card, live)' = v
    BY <1>1, <1>7, <1>8
  <2> QED BY <1>6, <1>8, <1>10, <2>1 DEF RetryOf
<1>14. \A x \in posts : RetryOf(x)'
  <2> SUFFICES ASSUME NEW x \in posts
               PROVE  RetryOf(x)'
    OBVIOUS
  <2>1. x.card \in Cards /\ x.id \in Nat /\ x.id <= retries /\ x.ver \in Nat /\ RetryOf(x)
    BY <1>12
  <2>2. View(x.card, live)' = View(x.card, live)
    BY <1>7, <2>1
  <2>3. CASE x.card # c
    BY <1>10, <2>1, <2>2, <2>3 DEF RetryOf
  <2>4. CASE x.card = c
    <3>1. attempt'[x.card].id = retries + 1 /\ x.id # retries + 1
      BY <1>4, <1>5, <1>8, <1>10, <2>1, <2>4
    <3>2. x.id # attempt[x.card].id
      BY <1>4, <2>4, <1>9 DEF Posts
    <3> QED BY <1>4, <1>1, <2>1, <2>2, <2>4, <3>1, <3>2 DEF RetryOf
  <2> QED BY <2>3, <2>4
<1>15. RetryInv'
  <2>1. \A x \in posts' : x.id <= retries' /\ RetryOf(x)'
    <3>1. \A x \in posts : x.id <= retries'
      BY <1>4, <1>5, <1>12
    <3> QED BY <1>4, <1>5, <1>8, <1>13, <1>14, <3>1
  <2>2. \A x, y \in posts' : x.id = y.id => x = y
    <3>1. \A x \in posts : x.id # q.id
      BY <1>4, <1>5, <1>8, <1>12
    <3> QED BY <1>4, <3>1 DEF LiveInv, RetryInv
  <2> QED BY <1>11, <2>1, <2>2 DEF RetryInv
<1>16. Typed'
  BY <1>4, <1>5, <1>10 DEF LiveInv, Typed
<1> QED BY <1>4, <1>15, <1>16, RowsFrame, SharedFrame, PageFrame DEF LiveInv

-----------------------------------------------------------------------------
LEMMA LiveInit ==
    ASSUME Init
    PROVE  LiveInv
<1>1. /\ watching \in Channels
      /\ \E st \in {"pending", "failed"} : row = [ver |-> 1, st |-> st]
      /\ out = 0 /\ seed = [row EXCEPT !.ver = 0]
      /\ chan = [x \in Channels |-> "off"] /\ events = << >> /\ ticks = [x \in {"outputs", "page"} |-> 0]
      /\ mounted = {} /\ snap = {} /\ prime = NoRead /\ live = [c \in Cards |-> {}]
      /\ asked \in {0, 1} /\ got = {} /\ summary = 0
      /\ timer = FALSE /\ fetch = NoRead /\ page = <<row, out>>
      /\ attempt = [c \in Cards |-> NoTry] /\ posts = {} /\ closed = {}
      /\ faults = 0 /\ retries = 0 /\ moves = 0
  BY DEF Init
<1>2. row \in Rows /\ row.ver = 1 /\ seed \in Rows /\ seed.ver = 0
  BY <1>1, TaskLiveAssumption DEF Rows, Statuses
<1>3. /\ NoRead \in [on : BOOLEAN, read : SUBSET Rows, up : BOOLEAN]
      /\ NoRead \in [on : BOOLEAN, read : SUBSET (Rows \X (0..MaxOut)), up : BOOLEAN]
      /\ NoRead.read = {} /\ NoRead.up = FALSE
      /\ NoTry \in [id : 0..MaxRetries, ver : 0..MaxVer] /\ NoTry.id = 0
  BY TaskLiveAssumption DEF NoRead, NoTry
<1>4. Typed
  <2>1. asked \in Nat /\ out \in 0..MaxOut /\ summary \in 0..MaxOut
        /\ faults \in 0..MaxFaults /\ retries \in 0..MaxRetries /\ moves \in 0..MaxMoves
    BY <1>1, TaskLiveAssumption
  <2>2. events \in Seq(Rows)
    BY <1>1
  <2>3. ticks \in [{"outputs", "page"} -> Nat]
        /\ chan \in [Channels -> {"off", "joined", "ready"}] /\ timer \in BOOLEAN
    BY <1>1
  <2>4. live \in [Cards -> SUBSET Rows] /\ attempt \in [Cards -> [id : 0..MaxRetries, ver : 0..MaxVer]]
    BY <1>1, <1>3
  <2> QED BY <1>1, <1>2, <1>3, <2>1, <2>2, <2>3, <2>4 DEF Typed
<1>5. RowsInv
  <2>1. \A r : Known(r) => r = row
    BY <1>1, <1>3 DEF Known
  <2> QED BY <1>2, <2>1 DEF RowsInv
<1>6. SharedInv
  BY <1>1, <1>3 DEF SharedInv, AtMostOne, Channels
<1>7. RetryInv
  BY <1>1, <1>3 DEF RetryInv, AttemptOf
<1>8. PageInv
  BY <1>1, <1>3 DEF PageInv, Channels
<1> QED BY <1>4, <1>5, <1>6, <1>7, <1>8 DEF LiveInv

\* What a card may show after a step, by what it showed before.
Forward == \A c \in Cards : \A r \in live[c] : \A s \in live'[c] : s.ver >= r.ver

LEMMA LiveNext ==
    ASSUME LiveInv, [Next]_vars
    PROVE  LiveInv' /\ Forward
<1>1. live' = live => Forward
  <2>1. /\ \A c \in Cards : AtMostOne(live[c]) /\ live[c] \subseteq Rows
        /\ \A r \in Rows : r.ver \in Nat
    BY RowIsKnown DEF LiveInv, SharedInv, Typed
  <2> QED BY <2>1 DEF Forward, AtMostOne
<1>2. (\A c \in Cards : \A l \in live[c] : \A x \in live'[c] : l.ver <= x.ver) => Forward
  BY DEF Forward
<1>3. CASE UNCHANGED vars
  <2>1. /\ UNCHANGED <<watching, row, out, chan, events, ticks, seed, mounted, snap, prime, live, asked, got, summary,
                       timer, fetch, page, attempt, posts, closed, faults, retries, moves>>
    BY <1>3 DEF vars
  <2>2. Typed'
    BY <2>1 DEF LiveInv, Typed
  <2> QED BY <1>1, <2>1, <2>2, RowsFrame, SharedFrame, RetryFrame, PageFrame DEF LiveInv
<1>4. CASE WorkerStep \/ SaveSummary
  BY <1>1, <1>4, StepWorker, StepSaveSummary
<1>5. ASSUME NEW c \in Cards, HandleRetry(c) \/ SubscribeToTask(c) \/ Unsubscribe(c)
      PROVE  LiveInv' /\ Forward
  BY <1>1, <1>2, <1>5, StepHandleRetry, StepSubscribeToTask, StepUnsubscribe
<1>6. ASSUME NEW p \in posts, RetryTaskRoute(p) \/ AnswerLost(p) \/ RetryAnswered(p)
      PROVE  LiveInv' /\ Forward
  BY <1>1, <1>6, StepRetryTaskRoute, StepAnswerLost, StepRetryAnswered
<1>7. CASE PrimeReads \/ PrimeArrives \/ PrimeFails \/ TaskEvent
  BY <1>1, <1>2, <1>7, StepPrimeReads, StepPrimeArrives, StepPrimeFails, StepTaskEvent
<1>8. CASE OutputsRead \/ OutputsArrive \/ OutputsEvent
  BY <1>1, <1>8, StepOutputs
<1>9. CASE PageEvent \/ TimerFires \/ PageReads \/ PageArrives
  BY <1>1, <1>9, StepPage
<1>10. ASSUME NEW x \in Channels, Subscribed(x) \/ ListenerUp(x) \/ ChannelDrops(x)
       PROVE  LiveInv' /\ Forward
  BY <1>1, <1>10, StepSubscribed, StepListenerUp, StepChannelDrops
<1> QED BY <1>3, <1>4, <1>5, <1>6, <1>7, <1>8, <1>9, <1>10 DEF Next

\* The invariant of the subscription, the retry button and the page holds in every reachable state
\* (task-live.ts, TaskDataGroup.tsx:478-542, TaskDetailRefresh.tsx).
THEOREM LiveInvariant == Spec => []LiveInv
<1>1. Init => LiveInv
  BY LiveInit
<1>2. LiveInv /\ [Next]_vars => LiveInv'
  BY LiveNext
<1> QED BY <1>1, <1>2, PTL DEF Spec

\* The cards and the page of a task come to show what is stored, and a retry is shown while it
\* lasts, and no longer (publishTask, primeTask, handleRetry, TaskDetailRefresh).
THEOREM ViewsComeToAgree == Spec => []ViewsConverge
<1>1. LiveInv => ViewsConverge
  BY InvariantIsEnough
<1> QED BY <1>1, LiveInvariant, PTL

\* A card never goes back to an older row (publishTask, primeTask).
THEOREM CardsOnlyMoveOn == Spec => CardsNeverGoBack
<1>1. LiveInv /\ [Next]_vars => [Forward]_live
  BY LiveNext
<1>2. Spec => [][Forward]_live
  BY <1>1, LiveInvariant, PTL DEF Spec
<1> QED BY <1>2 DEF CardsNeverGoBack, Forward
=============================================================================
