------------------------ MODULE NavigationProofs ------------------------
(***************************************************************************)
(* Switching between conversations, for any threads, tasks, addresses,     *)
(* clicks and failed requests.                                             *)
(***************************************************************************)
EXTENDS ThreadNavigation, TLAPS

UiStates == [active : Ids \cup {None}, task : Task, shown : Ids \cup {Empty, Demo},
             pending : Ids \cup {None}, boot : BOOLEAN, initErr : BOOLEAN]
RefStates == [newIds : SUBSET Ids, fresh : Ids \cup {None}, hasBoot : BOOLEAN, userNav : BOOLEAN]
InitStates == [st : {"none", "list", "resolve", "load"}, q : Params, id : Ids \cup {None}, res : Slot \cup {"failed"}]
SelStates == [id : Ids \cup {None}, res : Slot \cup {"failed"}]
ListStates == [data : [Ids -> Slot], age : {"none", "fresh", "stale"}, busy : BOOLEAN]
PayloadStates == [Ids -> [data : Slot, flight : Slot \cup {"no"}, removed : BOOLEAN]]

AddrOK(a) ==
    /\ a \in [url : Params, nav : SUBSET Params, latest : Params, recent : Seq(Params)]
    /\ Len(a.recent) <= 5

\* What no waiting depends on.
RestOK ==
    /\ session \in BOOLEAN /\ auth \in {"unknown", "in", "out"}
    /\ stored \subseteq Ids /\ taskOf \in [Ids -> Task]
    /\ due \in {"no", "url", "retry"} /\ stream \subseteq Ids /\ used \subseteq Ids /\ chosen \in Ids \cup {None}
    /\ moves \in 0..MaxMoves /\ faults \in 0..MaxFaults

StatesOK ==
    /\ threads \in ListStates /\ payload \in PayloadStates /\ AddrOK(addr)
    /\ ui \in UiStates /\ ref \in RefStates /\ init \in InitStates /\ sel \in SelStates

\* A thread's messages are handed over together with its identifier.
ShownIsActive == ui.shown \in Ids => ui.active = ui.shown

\* What a run or a selection loads is a thread; only for a signed-in user is a list awaited.
LoadsThreads ==
    /\ init.st = "load" => init.id \in Ids
    /\ init.st = "list" => init.q.thread \in Ids /\ auth = "in"
    /\ sel.res # "absent" => sel.id \in Ids

NavInv == RestOK /\ StatesOK /\ ShownIsActive /\ LoadsThreads /\ WaitsHaveAnswers

-----------------------------------------------------------------------------
(* The helpers of the model. *)

LEMMA Distinct ==
    /\ None \notin Ids /\ Empty \notin Ids /\ Demo \notin Ids /\ Empty # Demo
    /\ "absent" \notin Task /\ "failed" \notin Task /\ "no" \notin Slot /\ "failed" \notin Slot
    /\ None \in Task /\ Example \in Tasks /\ Tasks \subseteq Task /\ None \notin Tasks
    /\ MaxMoves \in Nat /\ MaxFaults \in Nat /\ Links \subseteq Params
BY NavAssumption DEF Ids, Task, Slot, Empty, Demo, Params

LEMMA EnsureIs ==
    ASSUME payload \in PayloadStates, NEW id \in Ids, NEW known \in Slot, Ensure(id, known)
    PROVE  /\ payload' \in PayloadStates
           /\ payload[id].data = "absent" => payload'[id].flight # "no"
           /\ \A j \in Ids : payload[j].flight # "no" => payload'[j].flight # "no"
<1>1. PICK p : p = IF payload[id].data # "absent" \/ (payload[id].flight # "no" /\ ~payload[id].removed) THEN payload[id]
                   ELSE [payload[id] EXCEPT !.flight = known, !.removed = FALSE]
  OBVIOUS
<1>2. payload' = [payload EXCEPT ![id] = p]
  BY <1>1 DEF Ensure
<1>3. p \in [data : Slot, flight : Slot \cup {"no"}, removed : BOOLEAN]
  BY <1>1 DEF PayloadStates
<1>4. /\ payload[id].data = "absent" => p.flight # "no"
      /\ payload[id].flight # "no" => p.flight # "no"
  BY <1>1, Distinct DEF PayloadStates
<1> QED BY <1>2, <1>3, <1>4 DEF PayloadStates

LEMMA SafeReplaceIs ==
    ASSUME NEW a, AddrOK(a), NEW q \in Params
    PROVE  AddrOK(SafeReplace(a, q))
<1>1. CASE q = a.latest \/ \E i \in DOMAIN a.recent : a.recent[i] = q
  BY <1>1 DEF SafeReplace
<1>2. CASE ~(q = a.latest \/ \E i \in DOMAIN a.recent : a.recent[i] = q)
  <2>1. PICK h : h = Append(a.recent, q)
    OBVIOUS
  <2>2. a.recent \in Seq(Params) /\ Len(a.recent) <= 5
    BY DEF AddrOK
  <2>3. h \in Seq(Params) /\ Len(h) = Len(a.recent) + 1 /\ h # << >>
    BY <2>1, <2>2
  <2>4. PICK r : r = IF Len(h) > 5 THEN Tail(h) ELSE h
    OBVIOUS
  <2>5. r \in Seq(Params) /\ Len(r) <= 5
    BY <2>2, <2>3, <2>4
  <2>6. SafeReplace(a, q) = [a EXCEPT !.nav = {q}, !.latest = q, !.recent = r]
    BY <1>2, <2>1, <2>4 DEF SafeReplace
  <2> QED BY <2>5, <2>6 DEF AddrOK
<1> QED BY <1>1, <1>2

LEMMA ParamsAre ==
    /\ \A th \in Ids \cup {None}, tk \in Task : P(th, tk) \in Params /\ P(th, tk).thread = th /\ P(th, tk).task = tk
    /\ \A q \in Params : q.thread \in Ids \cup {None} /\ q.task \in Task /\ q = P(q.thread, q.task)
BY DEF P, Params

LEMMA NoRunIs ==
    /\ NoRun \in InitStates /\ NoRun.st = "none" /\ NoRun.res = "absent"
    /\ NoSel \in SelStates /\ NoSel.id = None /\ NoSel.res = "absent"
BY ParamsAre, Distinct DEF NoRun, NoSel, InitStates, SelStates, Slot

\* A new list keeps what a waiting run needs.
LEMMA RefetchIs ==
    ASSUME threads \in ListStates, Refetch
    PROVE  /\ threads' \in ListStates
           /\ threads.busy => threads'.busy
           /\ auth = "in" /\ threads.age # "fresh" => threads'.busy
BY DEF Refetch, ListStates

\* What an initialization run leaves: a page with the right messages, or an answer to wait for.
Proceeds ==
    /\ ui' \in UiStates /\ ref' \in RefStates /\ AddrOK(addr') /\ init' \in InitStates /\ payload' \in PayloadStates
    /\ ui'.pending = ui.pending \/ ui'.pending = None
    /\ ui'.shown \in Ids => ui'.active = ui'.shown
    /\ \A id \in Ids : payload[id].flight # "no" => payload'[id].flight # "no"
    /\ init'.st = "load" => init'.id \in Ids /\ (init'.res = "absent" => payload'[init'.id].flight # "no")
    /\ init'.st = "list" => init'.q.thread \in Ids /\ auth = "in" /\ (init'.res = "absent" => threads'.busy)

LEMMA OpenNewProceeds ==
    ASSUME NavInv, NEW th \in Ids, NEW tk \in Task, NEW a, AddrOK(a), OpenNew(th, tk, a),
           payload' \in PayloadStates,
           \A id \in Ids : payload[id].flight # "no" => payload'[id].flight # "no"
    PROVE  Proceeds
<1>1. ui \in UiStates /\ ref \in RefStates
  BY DEF NavInv, StatesOK
<1>2. /\ ref' = [ref EXCEPT !.newIds = @ \cup {th}, !.fresh = None, !.hasBoot = TRUE]
      /\ ui' = Booted([ui EXCEPT !.active = th, !.task = tk, !.shown = Empty])
      /\ addr' = IF tk = None THEN a ELSE SafeReplace(a, P(th, tk))
      /\ init' = NoRun
  BY DEF OpenNew
<1>3. ref' \in RefStates
  BY <1>1, <1>2 DEF RefStates
<1>4. ui' \in UiStates /\ ui'.pending = ui.pending /\ ui'.shown = Empty
  BY <1>1, <1>2 DEF UiStates, Booted
<1>5. AddrOK(addr')
  BY <1>2, SafeReplaceIs, ParamsAre
<1> QED BY <1>2, <1>3, <1>4, <1>5, NoRunIs, Distinct DEF Proceeds

LEMMA BootingIs ==
    ASSUME NavInv
    PROVE  /\ Booting \in UiStates /\ Booting.pending = ui.pending /\ Booting.shown = ui.shown
           /\ Booting.active = ui.active
BY DEF Booting, NavInv, StatesOK, UiStates

\* A thread's payload is awaited, or cached already.
LEMMA LoadProceeds ==
    ASSUME NavInv, NEW q \in Params, NEW th \in Ids, NEW known \in Slot, NEW a, AddrOK(a),
           init' = Load(q, th), Ensure(th, known), ui' = Booting \/ ui' = ui, addr' = a, ref' \in RefStates
    PROVE  Proceeds
<1>1. payload \in PayloadStates /\ ui \in UiStates /\ ShownIsActive
  BY DEF NavInv, StatesOK
<1>2. /\ payload' \in PayloadStates
      /\ payload[th].data = "absent" => payload'[th].flight # "no"
      /\ \A j \in Ids : payload[j].flight # "no" => payload'[j].flight # "no"
  BY <1>1, EnsureIs
<1>3. /\ init' \in InitStates /\ init'.st = "load" /\ init'.id = th /\ init'.res = payload[th].data
  <2>1. payload[th].data \in Slot
    BY <1>1 DEF PayloadStates
  <2> QED BY <2>1, NoRunIs DEF Load, Cached, InitStates
<1>4. ui' \in UiStates /\ ui'.pending = ui.pending /\ ui'.shown = ui.shown /\ ui'.active = ui.active
  BY <1>1, BootingIs
<1> QED BY <1>1, <1>2, <1>3, <1>4 DEF Proceeds, ShownIsActive

LEMMA ListedProceeds ==
    ASSUME NavInv, NEW th \in Ids, NEW data \in [Ids -> Slot], NEW a, AddrOK(a), Listed(th, data, a)
    PROVE  Proceeds
<1>1. payload \in PayloadStates /\ ref \in RefStates
  BY DEF NavInv, StatesOK
<1>2. CASE data[th] = "absent" \/ th \in ref.newIds
  <2>1. OpenNew(th, None, a) /\ payload' = payload
    BY <1>2 DEF Listed
  <2> QED BY <1>1, <2>1, OpenNewProceeds, Distinct
<1>3. CASE ~(data[th] = "absent" \/ th \in ref.newIds)
  <2>1. /\ init' = Load(P(th, None), th) /\ Ensure(th, data[th]) /\ ui' = Booting /\ addr' = a
        /\ ref' = [ref EXCEPT !.fresh = None]
    BY <1>3 DEF Listed
  <2>2. ref' \in RefStates
    BY <1>1, <2>1 DEF RefStates
  <2>3. P(th, None) \in Params /\ data[th] \in Slot
    BY ParamsAre, Distinct
  <2> QED BY <2>1, <2>2, <2>3, LoadProceeds
<1> QED BY <1>2, <1>3


-----------------------------------------------------------------------------
(* The initialization effect. *)

\* A run that proceeds, with the selection left alone, leaves nothing to wait for in vain.
LEMMA ProceedsHolds ==
    ASSUME NavInv, Proceeds, RestOK', threads' \in ListStates, sel' = sel, auth' = auth
    PROVE  NavInv'
<1>1. StatesOK'
  BY DEF NavInv, StatesOK, Proceeds, AddrOK
<1>2. ShownIsActive' /\ LoadsThreads'
  BY DEF NavInv, ShownIsActive, LoadsThreads, Proceeds
<1>3. WaitsHaveAnswers'
  <2>1. ui'.pending # None => sel'.id = ui'.pending
    BY DEF NavInv, WaitsHaveAnswers, Proceeds
  <2>2. sel'.id # None /\ sel'.res = "absent" => payload'[sel'.id].flight # "no"
    <3>1. sel.id \in Ids \cup {None}
      BY DEF NavInv, StatesOK, SelStates
    <3> QED BY <3>1 DEF NavInv, WaitsHaveAnswers, Proceeds
  <2> QED BY <2>1, <2>2 DEF WaitsHaveAnswers, Proceeds
<1> QED BY <1>1, <1>2, <1>3 DEF NavInv

LEMMA InitBareProceeds ==
    ASSUME NavInv, NEW a, AddrOK(a), InitBare(a)
    PROVE  Proceeds /\ used' \subseteq Ids
<1>1. ui \in UiStates /\ ref \in RefStates /\ payload \in PayloadStates /\ used \subseteq Ids
  BY DEF NavInv, StatesOK, RestOK
<1>2. PICK id \in IF ref.fresh # None THEN {ref.fresh} ELSE Fresh :
        /\ ref' = [ref EXCEPT !.fresh = id, !.newIds = @ \cup {id}, !.hasBoot = TRUE]
        /\ used' = used \cup {id}
        /\ ui' = Booted([ui EXCEPT !.active = id, !.task = None, !.shown = Empty])
        /\ addr' = SafeReplace(a, P(id, None))
        /\ init' = NoRun /\ payload' = payload
  BY DEF InitBare
<1>3. id \in Ids
  BY <1>1, <1>2 DEF RefStates, Fresh, Ids
<1>4. ref' \in RefStates
  BY <1>1, <1>2, <1>3 DEF RefStates
<1>5. ui' \in UiStates /\ ui'.pending = ui.pending /\ ui'.shown = Empty
  BY <1>1, <1>2, <1>3, Distinct DEF UiStates, Booted
<1>6. AddrOK(addr')
  BY <1>2, <1>3, SafeReplaceIs, ParamsAre, Distinct
<1> QED BY <1>1, <1>2, <1>3, <1>4, <1>5, <1>6, NoRunIs, Distinct DEF Proceeds

LEMMA InitTaskProceeds ==
    ASSUME NavInv, NEW q \in Params, NEW a, AddrOK(a), InitTask(q, a)
    PROVE  Proceeds
<1>1. ui \in UiStates /\ ref \in RefStates /\ payload \in PayloadStates
  BY DEF NavInv, StatesOK
<1>2. q.thread \in Ids \cup {None} /\ q.task \in Task /\ q.task \in Slot
  BY ParamsAre DEF Slot
<1>3. CASE q.thread \in ref.newIds
  <2>1. OpenNew(q.thread, q.task, a) /\ Ensure(q.thread, q.task)
    BY <1>3 DEF InitTask
  <2>2. q.thread \in Ids
    BY <1>1, <1>3 DEF RefStates
  <2>3. /\ payload' \in PayloadStates
        /\ \A j \in Ids : payload[j].flight # "no" => payload'[j].flight # "no"
    BY <1>1, <1>2, <2>1, <2>2, EnsureIs
  <2> QED BY <1>2, <2>1, <2>2, <2>3, OpenNewProceeds
<1>4. CASE q.thread \notin ref.newIds /\ q.thread = None
  <2>1. /\ ui' = Booting /\ addr' = a /\ ref' = [ref EXCEPT !.fresh = None]
        /\ init' = [NoRun EXCEPT !.st = "resolve", !.q = q] /\ payload' = payload
    BY <1>4 DEF InitTask
  <2>2. ref' \in RefStates
    BY <1>1, <2>1 DEF RefStates
  <2>3. init' \in InitStates /\ init'.st = "resolve"
    BY <2>1, NoRunIs DEF InitStates
  <2> QED BY <1>1, <2>1, <2>2, <2>3, BootingIs DEF Proceeds, NavInv, ShownIsActive
<1>5. CASE q.thread \notin ref.newIds /\ q.thread # None
  <2>1. /\ ui' = Booting /\ addr' = a /\ ref' = [ref EXCEPT !.fresh = None]
        /\ init' = Load(q, q.thread) /\ Ensure(q.thread, q.task)
    BY <1>5 DEF InitTask
  <2>2. ref' \in RefStates
    BY <1>1, <2>1 DEF RefStates
  <2> QED BY <1>2, <1>5, <2>1, <2>2, LoadProceeds
<1> QED BY <1>3, <1>4, <1>5

LEMMA InitThreadProceeds ==
    ASSUME NavInv, NEW q \in Params, q.thread # None, NEW a, AddrOK(a), InitThread(q, a)
    PROVE  Proceeds
<1>1. /\ ui \in UiStates /\ ref \in RefStates /\ payload \in PayloadStates /\ threads \in ListStates
      /\ q.thread \in Ids
  BY ParamsAre DEF NavInv, StatesOK
<1>2. CASE auth # "in"
  <2>1. Listed(q.thread, [id \in Ids |-> "absent"], a)
    BY <1>2 DEF InitThread
  <2>2. [id \in Ids |-> "absent"] \in [Ids -> Slot]
    BY DEF Slot
  <2> QED BY <1>1, <2>1, <2>2, ListedProceeds
<1>3. CASE auth = "in" /\ threads.age = "fresh"
  <2>1. Listed(q.thread, threads.data, a)
    BY <1>3 DEF InitThread
  <2>2. threads.data \in [Ids -> Slot]
    BY <1>1 DEF ListStates
  <2> QED BY <1>1, <2>1, <2>2, ListedProceeds
<1>4. CASE auth = "in" /\ threads.age # "fresh"
  <2>1. /\ init' = [NoRun EXCEPT !.st = "list", !.q = q] /\ ui' = Booting /\ addr' = a
        /\ ref' = [ref EXCEPT !.fresh = None] /\ payload' = payload /\ Refetch
    BY <1>4 DEF InitThread
  <2>2. ref' \in RefStates
    BY <1>1, <2>1 DEF RefStates
  <2>3. init' \in InitStates /\ init'.st = "list" /\ init'.q = q
    BY <2>1, NoRunIs DEF InitStates
  <2>4. threads'.busy
    BY <1>1, <1>4, <2>1, RefetchIs
  <2> QED BY <1>1, <1>4, <2>1, <2>2, <2>3, <2>4, BootingIs DEF Proceeds, NavInv, ShownIsActive
<1> QED BY <1>2, <1>3, <1>4

LEMMA ExampleIs ==
    ASSUME ui \in UiStates, NEW a, AddrOK(a), OpenPublicExample(a)
    PROVE  ui' \in UiStates /\ ui'.pending = None /\ ui'.shown = Demo /\ AddrOK(addr')
<1>1. /\ ui' = [ui EXCEPT !.active = None, !.task = Example, !.shown = Demo, !.pending = None,
                          !.boot = FALSE, !.initErr = FALSE]
      /\ addr' = SafeReplace(a, P(None, Example))
  BY DEF OpenPublicExample
<1>2. ui' \in UiStates /\ ui'.pending = None /\ ui'.shown = Demo
  BY <1>1, Distinct DEF UiStates
<1>3. P(None, Example) \in Params
  BY ParamsAre, Distinct
<1> QED BY <1>1, <1>2, <1>3, SafeReplaceIs

LEMMA RunEffectHolds ==
    ASSUME NavInv, RunEffect
    PROVE  NavInv'
<1>1. /\ ui \in UiStates /\ ref \in RefStates /\ payload \in PayloadStates /\ threads \in ListStates
      /\ AddrOK(addr) /\ init \in InitStates
  BY DEF NavInv, StatesOK
<1>2. PICK q : q = addr.url
  OBVIOUS
<1>3. q \in Params
  BY <1>1, <1>2 DEF AddrOK
<1>4. PICK a : a = IF due = "url" THEN [addr EXCEPT !.latest = q] ELSE addr
  OBVIOUS
<1>5. AddrOK(a)
  BY <1>1, <1>3, <1>4 DEF AddrOK
<1>6. due' = "no" /\ UNCHANGED <<srvVars, auth, sel, stream, chosen, moves, faults>>
  BY DEF RunEffect
<1>7. Proceeds /\ threads' \in ListStates /\ used' \subseteq Ids
  <2>1. CASE ref.userNav
    <3>1. /\ ref' = SkipUser(q) /\ init' = NoRun /\ addr' = a
          /\ UNCHANGED <<ui, threads, payload, used>>
      BY <1>2, <1>4, <2>1 DEF RunEffect
    <3>2. ref' \in RefStates
      BY <1>1, <3>1 DEF SkipUser, RefStates
    <3> QED BY <1>1, <1>5, <3>1, <3>2, NoRunIs DEF Proceeds, NavInv, ShownIsActive, RestOK
  <2>2. CASE ~ref.userNav /\ Bare(q)
    <3>1. InitBare(a)
      <4>1. q.task = None /\ q # P(None, Example)
        BY <2>2, Distinct DEF Bare, P
      <4> QED BY <1>2, <1>4, <2>2, <4>1 DEF RunEffect
    <3>2. Refetch
      BY <3>1 DEF InitBare
    <3> QED BY <1>1, <1>5, <3>1, <3>2, InitBareProceeds, RefetchIs
  <2>3. CASE ~ref.userNav /\ ~Bare(q) /\ q = P(None, Example)
    <3>1. /\ OpenPublicExample(a) /\ ref' = [ref EXCEPT !.fresh = None, !.hasBoot = TRUE]
          /\ init' = NoRun /\ UNCHANGED <<threads, payload, used>>
      <4>1. q.task = Example
        BY <2>3 DEF P
      <4> QED BY <1>2, <1>4, <2>3, <4>1 DEF RunEffect
    <3>2. ref' \in RefStates
      BY <1>1, <3>1 DEF RefStates
    <3> QED BY <1>1, <1>5, <3>1, <3>2, NoRunIs, ExampleIs, Distinct DEF Proceeds, NavInv, RestOK
  <2>4. CASE ~ref.userNav /\ ~Bare(q) /\ q # P(None, Example) /\ q.task # None
    <3>1. InitTask(q, a)
      BY <1>2, <1>4, <2>4 DEF RunEffect
    <3>2. Refetch /\ used' = used
      BY <3>1 DEF InitTask
    <3> QED BY <1>1, <1>3, <1>5, <3>1, <3>2, InitTaskProceeds, RefetchIs DEF NavInv, RestOK
  <2>5. CASE ~ref.userNav /\ ~Bare(q) /\ q # P(None, Example) /\ q.task = None
    <3>1. InitThread(q, a)
      BY <1>2, <1>4, <2>5 DEF RunEffect
    <3>2. Refetch /\ used' = used
      BY <3>1 DEF InitThread
    <3>3. q.thread # None
      BY <1>3, <2>5, ParamsAre DEF Bare
    <3> QED BY <1>1, <1>3, <1>5, <3>1, <3>2, <3>3, InitThreadProceeds, RefetchIs DEF NavInv, RestOK
  <2> QED BY <2>1, <2>2, <2>3, <2>4, <2>5
<1>8. RestOK'
  BY <1>6, <1>7 DEF NavInv, RestOK, srvVars
<1> QED BY <1>6, <1>7, <1>8, ProceedsHolds

LEMMA InitResolveHolds ==
    ASSUME NavInv, InitResolve
    PROVE  NavInv'
<1>1. /\ payload \in PayloadStates /\ ref \in RefStates /\ init \in InitStates /\ AddrOK(addr)
      /\ stored \subseteq Ids /\ taskOf \in [Ids -> Task] /\ used \subseteq Ids
  BY DEF NavInv, StatesOK, RestOK
<1>2. PICK tk : tk = init.q.task
  OBVIOUS
<1>3. PICK id \in IF {j \in stored : taskOf[j] = tk} # {} THEN {j \in stored : taskOf[j] = tk} ELSE Fresh :
        /\ stored' = stored \cup {id} /\ taskOf' = [taskOf EXCEPT ![id] = tk]
        /\ used' = used \cup {id}
        /\ IF id \in ref.newIds
           THEN OpenNew(id, tk, addr) /\ UNCHANGED payload
           ELSE /\ init' = Load(init.q, id) /\ Ensure(id, tk)
                /\ UNCHANGED <<addr, ui, ref>>
  BY <1>2 DEF InitResolve
<1>4. id \in Ids /\ init.q \in Params /\ tk \in Task /\ tk \in Slot
  BY <1>1, <1>2, <1>3, ParamsAre DEF Fresh, Ids, InitStates, Slot
<1>5. UNCHANGED <<session, auth, threads, due, sel, stream, chosen, moves, faults>>
  BY DEF InitResolve
<1>6. Proceeds
  <2>1. CASE id \in ref.newIds
    BY <1>1, <1>3, <1>4, <2>1, OpenNewProceeds
  <2>2. CASE id \notin ref.newIds
    BY <1>1, <1>3, <1>4, <2>2, LoadProceeds
  <2> QED BY <2>1, <2>2
<1>7. RestOK'
  BY <1>1, <1>3, <1>4, <1>5 DEF NavInv, RestOK
<1> QED BY <1>5, <1>6, <1>7, ProceedsHolds DEF NavInv, StatesOK

LEMMA InitFallbackHolds ==
    ASSUME NavInv, InitFallback
    PROVE  NavInv'
<1>1. payload \in PayloadStates /\ init \in InitStates /\ AddrOK(addr) /\ used \subseteq Ids
  BY DEF NavInv, StatesOK, RestOK
<1>2. PICK id \in Fresh : used' = used \cup {id} /\ OpenNew(id, init.q.task, addr)
  BY DEF InitFallback
<1>3. id \in Ids /\ init.q.task \in Task
  BY <1>1, <1>2, ParamsAre DEF Fresh, Ids, InitStates
<1>4. UNCHANGED <<srvVars, auth, threads, payload, due, sel, stream, chosen, moves>>
  BY DEF InitFallback
<1>5. Proceeds
  BY <1>1, <1>2, <1>3, <1>4, OpenNewProceeds
<1>6. faults' \in 0..MaxFaults
  BY Distinct DEF NavInv, RestOK, InitFallback
<1>7. RestOK'
  BY <1>1, <1>2, <1>3, <1>4, <1>6 DEF NavInv, RestOK, srvVars
<1> QED BY <1>4, <1>5, <1>7, ProceedsHolds DEF NavInv, StatesOK

LEMMA InitApplyHolds ==
    ASSUME NavInv, InitApply
    PROVE  NavInv'
<1>1. /\ ui \in UiStates /\ ref \in RefStates /\ init \in InitStates /\ AddrOK(addr)
      /\ payload \in PayloadStates
  BY DEF NavInv, StatesOK
<1>2. init.id \in Ids /\ init.q \in Params /\ init.res \in Task
  BY <1>1 DEF InitApply, NavInv, LoadsThreads, InitStates
<1>3. PICK tk : tk = IF init.q.task # None THEN init.q.task ELSE init.res
  OBVIOUS
<1>4. tk \in Task
  BY <1>2, <1>3, ParamsAre
<1>5. /\ ui' = Booted([ui EXCEPT !.active = init.id, !.task = tk, !.shown = init.id])
      /\ addr' = IF tk = None THEN addr ELSE SafeReplace(addr, P(init.id, tk))
      /\ ref' = [ref EXCEPT !.hasBoot = TRUE] /\ init' = NoRun
      /\ UNCHANGED <<srvVars, auth, threads, payload, due, sel, stream, used, chosen, moves, faults>>
  BY <1>3 DEF InitApply
<1>6. ui' \in UiStates /\ ui'.pending = ui.pending /\ ui'.active = ui'.shown
  BY <1>1, <1>2, <1>4, <1>5 DEF UiStates, Booted
<1>7. ref' \in RefStates
  BY <1>1, <1>5 DEF RefStates
<1>8. AddrOK(addr')
  BY <1>1, <1>2, <1>4, <1>5, SafeReplaceIs, ParamsAre
<1>9. Proceeds
  BY <1>1, <1>5, <1>6, <1>7, <1>8, NoRunIs DEF Proceeds
<1>10. RestOK'
  BY <1>5 DEF NavInv, RestOK, srvVars
<1> QED BY <1>5, <1>9, <1>10, ProceedsHolds DEF NavInv, StatesOK

LEMMA InitFailHolds ==
    ASSUME NavInv, InitFail
    PROVE  NavInv'
<1>1. /\ ui \in UiStates /\ ref \in RefStates /\ AddrOK(addr) /\ payload \in PayloadStates
  BY DEF NavInv, StatesOK
<1>2. /\ ui' = [ui EXCEPT !.initErr = TRUE, !.boot = FALSE] /\ init' = NoRun
      /\ UNCHANGED <<srvVars, auth, threads, payload, addr, ref, due, sel, stream, used, chosen, moves, faults>>
  BY DEF InitFail
<1>3. ui' \in UiStates /\ ui'.pending = ui.pending /\ ui'.active = ui.active /\ ui'.shown = ui.shown
  BY <1>1, <1>2 DEF UiStates
<1>4. Proceeds
  BY <1>1, <1>2, <1>3, NoRunIs DEF Proceeds, NavInv, ShownIsActive
<1>5. RestOK'
  BY <1>2 DEF NavInv, RestOK, srvVars
<1> QED BY <1>2, <1>4, <1>5, ProceedsHolds DEF NavInv, StatesOK

LEMMA RetryInitHolds ==
    ASSUME NavInv, RetryInit
    PROVE  NavInv'
<1>1. /\ ui \in UiStates /\ ref \in RefStates /\ AddrOK(addr) /\ payload \in PayloadStates
  BY DEF NavInv, StatesOK
<1>2. /\ ui' = [ui EXCEPT !.initErr = FALSE, !.boot = TRUE]
      /\ due' = (IF due = "no" THEN "retry" ELSE due) /\ chosen' = None
      /\ moves < MaxMoves /\ moves' = moves + 1
      /\ UNCHANGED <<srvVars, auth, threads, payload, addr, ref, init, sel, stream, used, faults>>
  BY DEF RetryInit
<1>3. ui' \in UiStates /\ ui'.pending = ui.pending /\ ui'.active = ui.active /\ ui'.shown = ui.shown
  BY <1>1, <1>2 DEF UiStates
<1>4. Proceeds
  BY <1>1, <1>2, <1>3 DEF Proceeds, NavInv, StatesOK, ShownIsActive, LoadsThreads, WaitsHaveAnswers
<1>5. RestOK'
  BY <1>2, Distinct DEF NavInv, RestOK, srvVars
<1> QED BY <1>2, <1>4, <1>5, ProceedsHolds DEF NavInv, StatesOK

-----------------------------------------------------------------------------
(* What the user does. *)

LEMMA HandleNewChatHolds ==
    ASSUME NavInv, HandleNewChat
    PROVE  NavInv'
<1>1. ui \in UiStates /\ ref \in RefStates /\ AddrOK(addr) /\ used \subseteq Ids
  BY DEF NavInv, StatesOK, RestOK
<1>2. PICK id \in Fresh :
        /\ used' = used \cup {id}
        /\ ref' = [ref EXCEPT !.userNav = TRUE, !.newIds = @ \cup {id}, !.hasBoot = TRUE]
        /\ ui' = Booted([ui EXCEPT !.active = id, !.task = None, !.shown = Empty, !.pending = None])
        /\ addr' = SafeReplace(addr, P(id, None))
        /\ chosen' = id
  BY DEF HandleNewChat
<1>3. id \in Ids
  BY <1>2 DEF Fresh, Ids
<1>4. /\ init' = NoRun /\ sel' = NoSel /\ moves < MaxMoves /\ moves' = moves + 1
      /\ UNCHANGED <<srvVars, auth, threads, payload, due, stream, faults>>
  BY DEF HandleNewChat
<1>5. ref' \in RefStates
  BY <1>1, <1>2, <1>3 DEF RefStates
<1>6. ui' \in UiStates /\ ui'.pending = None /\ ui'.shown = Empty
  BY <1>1, <1>2, <1>3, Distinct DEF UiStates, Booted
<1>7. AddrOK(addr')
  BY <1>1, <1>2, <1>3, SafeReplaceIs, ParamsAre, Distinct
<1>8. RestOK'
  BY <1>1, <1>2, <1>3, <1>4, Distinct DEF NavInv, RestOK, srvVars
<1>9. StatesOK'
  BY <1>4, <1>5, <1>6, <1>7, NoRunIs DEF NavInv, StatesOK, AddrOK
<1>10. ShownIsActive' /\ LoadsThreads' /\ WaitsHaveAnswers'
  BY <1>4, <1>6, NoRunIs, Distinct DEF ShownIsActive, LoadsThreads, WaitsHaveAnswers
<1> QED BY <1>8, <1>9, <1>10 DEF NavInv

LEMMA HandleSelectThreadHolds ==
    ASSUME NavInv, NEW id \in Ids, HandleSelectThread(id)
    PROVE  NavInv'
<1>1. /\ ui \in UiStates /\ ref \in RefStates /\ AddrOK(addr) /\ payload \in PayloadStates
      /\ threads \in ListStates
  BY DEF NavInv, StatesOK
<1>2. /\ ref' = [ref EXCEPT !.userNav = TRUE, !.newIds = @ \ {id}]
      /\ ui' = [ui EXCEPT !.pending = id] /\ sel' = [id |-> id, res |-> payload[id].data]
      /\ Ensure(id, threads.data[id]) /\ init' = NoRun /\ chosen' = id
      /\ moves < MaxMoves /\ moves' = moves + 1
      /\ UNCHANGED <<srvVars, auth, threads, addr, due, stream, used, faults>>
  BY DEF HandleSelectThread, Cached
<1>3. ref' \in RefStates
  BY <1>1, <1>2 DEF RefStates
<1>4. ui' \in UiStates /\ ui'.pending = id /\ ui'.active = ui.active /\ ui'.shown = ui.shown
  BY <1>1, <1>2 DEF UiStates
<1>5. sel' \in SelStates /\ sel'.id = id /\ sel'.res = payload[id].data
  BY <1>1, <1>2 DEF SelStates, PayloadStates
<1>6. /\ payload' \in PayloadStates
      /\ payload[id].data = "absent" => payload'[id].flight # "no"
  <2>1. threads.data[id] \in Slot
    BY <1>1 DEF ListStates
  <2> QED BY <1>1, <1>2, <2>1, EnsureIs
<1>7. RestOK'
  BY <1>2, Distinct DEF NavInv, RestOK, srvVars
<1>8. StatesOK'
  BY <1>1, <1>2, <1>3, <1>4, <1>5, <1>6, NoRunIs DEF StatesOK, AddrOK
<1>9. ShownIsActive' /\ LoadsThreads' /\ WaitsHaveAnswers'
  BY <1>2, <1>4, <1>5, <1>6, NoRunIs DEF NavInv, ShownIsActive, LoadsThreads, WaitsHaveAnswers
<1> QED BY <1>7, <1>8, <1>9 DEF NavInv

LEMMA CommitThreadSelectionHolds ==
    ASSUME NavInv, CommitThreadSelection
    PROVE  NavInv'
<1>1. ui \in UiStates /\ AddrOK(addr) /\ payload \in PayloadStates /\ sel \in SelStates
  BY DEF NavInv, StatesOK
<1>2. sel.id \in Ids /\ sel.res \in Task
  BY Distinct DEF CommitThreadSelection, NavInv, LoadsThreads
<1>3. /\ ui' = [ui EXCEPT !.active = sel.id, !.task = sel.res, !.shown = sel.id, !.pending = None,
                          !.initErr = FALSE]
      /\ addr' = SafeReplace(addr, P(sel.id, sel.res)) /\ sel' = NoSel
      /\ UNCHANGED <<srvVars, auth, threads, payload, ref, due, init, stream, used, chosen, moves, faults>>
  BY DEF CommitThreadSelection
<1>4. ui' \in UiStates /\ ui'.pending = None /\ ui'.active = ui'.shown
  BY <1>1, <1>2, <1>3, Distinct DEF UiStates
<1>5. AddrOK(addr')
  BY <1>1, <1>2, <1>3, SafeReplaceIs, ParamsAre
<1>6. StatesOK'
  BY <1>3, <1>4, <1>5, NoRunIs DEF NavInv, StatesOK, AddrOK
<1>7. RestOK'
  BY <1>3 DEF NavInv, RestOK, srvVars
<1>8. ShownIsActive' /\ LoadsThreads' /\ WaitsHaveAnswers'
  BY <1>3, <1>4, NoRunIs DEF NavInv, ShownIsActive, LoadsThreads, WaitsHaveAnswers
<1> QED BY <1>6, <1>7, <1>8 DEF NavInv

LEMMA SelectionFailedHolds ==
    ASSUME NavInv, SelectionFailed
    PROVE  NavInv'
<1>1. ui \in UiStates /\ ref \in RefStates
  BY DEF NavInv, StatesOK
<1>2. /\ ref' = [ref EXCEPT !.userNav = FALSE] /\ ui' = [ui EXCEPT !.pending = None]
      /\ sel' = NoSel /\ chosen' = None
      /\ UNCHANGED <<srvVars, auth, threads, payload, addr, due, init, stream, used, moves, faults>>
  BY DEF SelectionFailed
<1>3. ref' \in RefStates
  BY <1>1, <1>2 DEF RefStates
<1>4. ui' \in UiStates /\ ui'.pending = None /\ ui'.active = ui.active /\ ui'.shown = ui.shown
  BY <1>1, <1>2 DEF UiStates
<1>5. StatesOK'
  BY <1>2, <1>3, <1>4, NoRunIs DEF NavInv, StatesOK, AddrOK
<1>6. RestOK'
  BY <1>2 DEF NavInv, RestOK, srvVars
<1>7. ShownIsActive' /\ LoadsThreads' /\ WaitsHaveAnswers'
  BY <1>2, <1>4, NoRunIs DEF NavInv, ShownIsActive, LoadsThreads, WaitsHaveAnswers
<1> QED BY <1>5, <1>6, <1>7 DEF NavInv

LEMMA HandleSelectExampleHolds ==
    ASSUME NavInv, HandleSelectExample
    PROVE  NavInv'
<1>1. ui \in UiStates /\ ref \in RefStates /\ AddrOK(addr) /\ payload \in PayloadStates
  BY DEF NavInv, StatesOK
<1>2. /\ ref' = [ref EXCEPT !.userNav = TRUE, !.hasBoot = TRUE] /\ OpenPublicExample(addr)
      /\ chosen' = None /\ moves < MaxMoves /\ moves' = moves + 1
      /\ UNCHANGED <<srvVars, auth, threads, payload, due, init, sel, stream, used, faults>>
  BY DEF HandleSelectExample
<1>3. ref' \in RefStates
  BY <1>1, <1>2 DEF RefStates
<1>4. ui' \in UiStates /\ ui'.pending = None /\ ui'.shown = Demo /\ AddrOK(addr')
  BY <1>1, <1>2, ExampleIs
<1>5. Proceeds
  BY <1>1, <1>2, <1>3, <1>4, Distinct DEF Proceeds, NavInv, StatesOK, LoadsThreads, WaitsHaveAnswers
<1>6. RestOK'
  BY <1>2, Distinct DEF NavInv, RestOK, srvVars
<1> QED BY <1>2, <1>5, <1>6, ProceedsHolds DEF NavInv, StatesOK

LEMMA PrefetchThreadHolds ==
    ASSUME NavInv, NEW id \in Ids, PrefetchThread(id)
    PROVE  NavInv'
<1>1. payload \in PayloadStates /\ threads \in ListStates /\ AddrOK(addr)
  BY DEF NavInv, StatesOK
<1>2. /\ Ensure(id, threads.data[id]) /\ moves < MaxMoves /\ moves' = moves + 1
      /\ UNCHANGED <<srvVars, auth, threads, addr, ui, ref, due, init, sel, stream, used, chosen, faults>>
  BY DEF PrefetchThread
<1>3. /\ payload' \in PayloadStates
      /\ \A j \in Ids : payload[j].flight # "no" => payload'[j].flight # "no"
  <2>1. threads.data[id] \in Slot
    BY <1>1 DEF ListStates
  <2> QED BY <1>1, <1>2, <2>1, EnsureIs
<1>4. Proceeds
  BY <1>1, <1>2, <1>3 DEF Proceeds, NavInv, StatesOK, ShownIsActive, LoadsThreads, WaitsHaveAnswers
<1>5. RestOK'
  BY <1>2, Distinct DEF NavInv, RestOK, srvVars
<1> QED BY <1>2, <1>4, <1>5, ProceedsHolds DEF NavInv, StatesOK

\* A step that leaves the page and everything it waits for alone.
LEMMA StillWaits ==
    ASSUME NavInv, RestOK', AddrOK(addr'), threads' \in ListStates, threads.busy => threads'.busy,
           auth' = auth, UNCHANGED <<payload, ui, ref, init, sel>>
    PROVE  NavInv'
<1>1. Proceeds
  BY DEF Proceeds, NavInv, StatesOK, ShownIsActive, LoadsThreads, WaitsHaveAnswers
<1> QED BY <1>1, ProceedsHolds

LEMMA FollowLinkHolds ==
    ASSUME NavInv, NEW p \in Links, FollowLink(p)
    PROVE  NavInv'
<1>1. /\ addr' = [addr EXCEPT !.nav = {p}] /\ chosen' = None /\ moves < MaxMoves /\ moves' = moves + 1
      /\ UNCHANGED <<srvVars, auth, threads, payload, ui, ref, due, init, sel, stream, used, faults>>
  BY DEF FollowLink
<1>2. AddrOK(addr')
  BY <1>1, Distinct DEF NavInv, StatesOK, AddrOK
<1>3. RestOK'
  BY <1>1, Distinct DEF NavInv, RestOK, srvVars
<1> QED BY <1>1, <1>2, <1>3, StillWaits DEF NavInv, StatesOK

LEMMA SendHolds ==
    ASSUME NavInv, Send
    PROVE  NavInv'
<1>1. ui \in UiStates /\ AddrOK(addr) /\ taskOf \in [Ids -> Task]
  BY DEF NavInv, StatesOK, RestOK
<1>2. PICK id \in IF Shown # None THEN {Shown} ELSE Fresh :
        /\ stream' = stream \cup {id}
        /\ used' = used \cup {id}
        /\ stored' = stored \cup {id}
        /\ taskOf' = IF id \in stored THEN taskOf ELSE [taskOf EXCEPT ![id] = ui.task]
  BY DEF Send
<1>3. id \in Ids
  <2>1. Shown \in Ids \cup {None}
    BY <1>1 DEF Shown, UiStates, AddrOK, Params
  <2> QED BY <1>2, <2>1 DEF Fresh, Ids
<1>4. taskOf' \in [Ids -> Task]
  BY <1>1, <1>2, <1>3 DEF UiStates
<1>5. /\ moves < MaxMoves /\ moves' = moves + 1
      /\ UNCHANGED <<session, auth, threads, payload, addr, ui, ref, due, init, sel, chosen, faults>>
  BY DEF Send
<1>6. RestOK'
  BY <1>2, <1>3, <1>4, <1>5, Distinct DEF NavInv, RestOK
<1> QED BY <1>1, <1>5, <1>6, StillWaits DEF NavInv, StatesOK

LEMMA UpdateThreadStatusHolds ==
    ASSUME NavInv, NEW id \in Ids, UpdateThreadStatus(id)
    PROVE  NavInv'
<1>1. threads \in ListStates /\ AddrOK(addr) /\ taskOf \in [Ids -> Task]
  BY DEF NavInv, StatesOK, RestOK
<1>2. /\ threads' = [threads EXCEPT !.data[id] = taskOf[id], !.age = "fresh"]
      /\ moves < MaxMoves /\ moves' = moves + 1
      /\ UNCHANGED <<srvVars, auth, payload, addr, ui, ref, due, init, sel, stream, used, chosen, faults>>
  BY DEF UpdateThreadStatus
<1>3. threads' \in ListStates /\ threads'.busy = threads.busy
  BY <1>1, <1>2 DEF ListStates, Slot
<1>4. RestOK'
  BY <1>2, Distinct DEF NavInv, RestOK, srvVars
<1> QED BY <1>1, <1>2, <1>3, <1>4, StillWaits

-----------------------------------------------------------------------------
(* What the browser, the server and the clock do. *)

LEMMA UrlCommitHolds ==
    ASSUME NavInv, UrlCommit
    PROVE  NavInv'
<1>1. AddrOK(addr)
  BY DEF NavInv, StatesOK
<1>2. PICK q \in addr.nav : /\ addr' = [addr EXCEPT !.url = q, !.nav = {}]
                            /\ due' = IF q = addr.url THEN due ELSE "url"
  BY DEF UrlCommit
<1>3. UNCHANGED <<srvVars, auth, threads, payload, ui, ref, init, sel, stream, used, chosen, moves, faults>>
  BY DEF UrlCommit
<1>4. AddrOK(addr')
  BY <1>1, <1>2 DEF AddrOK
<1>5. RestOK'
  BY <1>2, <1>3 DEF NavInv, RestOK, srvVars
<1> QED BY <1>3, <1>4, <1>5, StillWaits DEF NavInv, StatesOK

LEMMA AuthResolvesHolds ==
    ASSUME NavInv, AuthResolves
    PROVE  NavInv'
<1>1. threads \in ListStates /\ session \in BOOLEAN
  BY DEF NavInv, StatesOK, RestOK
<1>2. /\ auth = "unknown" /\ auth' = (IF session THEN "in" ELSE "out")
      /\ threads' = [threads EXCEPT !.busy = session]
      /\ UNCHANGED <<srvVars, payload, addr, ui, ref, due, init, sel, stream, used, chosen, moves, faults>>
  BY DEF AuthResolves
<1>3. threads' \in ListStates
  BY <1>1, <1>2 DEF ListStates
<1>4. init.st # "list"
  BY <1>2 DEF NavInv, LoadsThreads
<1>5. RestOK'
  BY <1>2 DEF NavInv, RestOK, srvVars
<1>6. StatesOK'
  BY <1>2, <1>3 DEF NavInv, StatesOK, AddrOK
<1>7. ShownIsActive' /\ LoadsThreads' /\ WaitsHaveAnswers'
  BY <1>2, <1>4 DEF NavInv, ShownIsActive, LoadsThreads, WaitsHaveAnswers
<1> QED BY <1>5, <1>6, <1>7 DEF NavInv

LEMMA ListDoneHolds ==
    ASSUME NavInv, ListDone
    PROVE  NavInv'
<1>1. /\ ui \in UiStates /\ AddrOK(addr) /\ payload \in PayloadStates /\ init \in InitStates
      /\ taskOf \in [Ids -> Task]
  BY DEF NavInv, StatesOK, RestOK
<1>2. /\ threads' = [data |-> ThreadRows, age |-> "fresh", busy |-> FALSE]
      /\ UNCHANGED <<srvVars, auth, due, sel, stream, used, chosen, moves, faults>>
  BY DEF ListDone
<1>3. ThreadRows \in [Ids -> Slot]
  BY <1>1 DEF ThreadRows, Slot
<1>4. threads' \in ListStates
  BY <1>2, <1>3 DEF ListStates
<1>5. Proceeds
  <2>1. CASE init.st = "list"
    <3>1. Listed(init.q.thread, ThreadRows, addr)
      BY <2>1 DEF ListDone
    <3>2. init.q.thread \in Ids
      BY <2>1 DEF NavInv, LoadsThreads
    <3> QED BY <1>1, <1>3, <3>1, <3>2, ListedProceeds
  <2>2. CASE init.st # "list"
    <3>1. UNCHANGED <<init, payload, ui, addr, ref>>
      BY <2>2 DEF ListDone
    <3> QED BY <2>2, <3>1 DEF Proceeds, NavInv, StatesOK, ShownIsActive, LoadsThreads, WaitsHaveAnswers
  <2> QED BY <2>1, <2>2
<1>6. RestOK'
  BY <1>2 DEF NavInv, RestOK, srvVars
<1> QED BY <1>2, <1>4, <1>5, <1>6, ProceedsHolds

LEMMA ListFailsHolds ==
    ASSUME NavInv, ListFails
    PROVE  NavInv'
<1>1. threads \in ListStates /\ init \in InitStates /\ AddrOK(addr)
  BY DEF NavInv, StatesOK
<1>2. /\ threads' = [threads EXCEPT !.busy = FALSE]
      /\ init' = (IF init.st = "list" THEN [init EXCEPT !.res = "failed"] ELSE init)
      /\ faults < MaxFaults /\ faults' = faults + 1
      /\ UNCHANGED <<srvVars, auth, payload, addr, ui, ref, due, sel, stream, used, chosen, moves>>
  BY DEF ListFails
<1>3. threads' \in ListStates
  BY <1>1, <1>2 DEF ListStates
<1>4. /\ init' \in InitStates /\ init'.st = init.st /\ init'.id = init.id /\ init'.q = init.q
      /\ init.st = "list" => init'.res = "failed"
      /\ init.st # "list" => init'.res = init.res
  BY <1>1, <1>2 DEF InitStates
<1>5. Proceeds
  BY <1>2, <1>4 DEF Proceeds, NavInv, StatesOK, ShownIsActive, LoadsThreads, WaitsHaveAnswers
<1>6. RestOK'
  BY <1>2, Distinct DEF NavInv, RestOK, srvVars
<1> QED BY <1>2, <1>3, <1>5, <1>6, ProceedsHolds

LEMMA ListAgesHolds ==
    ASSUME NavInv, ListAges
    PROVE  NavInv'
<1>1. threads \in ListStates
  BY DEF NavInv, StatesOK
<1>2. /\ threads' = [threads EXCEPT !.age = "stale"]
      /\ UNCHANGED <<srvVars, auth, payload, addr, ui, ref, due, init, sel, stream, used, chosen, moves, faults>>
  BY DEF ListAges
<1>3. threads' \in ListStates /\ threads'.busy = threads.busy
  BY <1>1, <1>2 DEF ListStates
<1>4. RestOK'
  BY <1>2 DEF NavInv, RestOK, srvVars
<1> QED BY <1>2, <1>3, <1>4, StillWaits DEF NavInv, StatesOK

LEMMA HistoryAgesHolds ==
    ASSUME NavInv, HistoryAges
    PROVE  NavInv'
<1>1. AddrOK(addr)
  BY DEF NavInv, StatesOK
<1>2. /\ addr.recent # << >> /\ addr' = [addr EXCEPT !.recent = Tail(@)]
      /\ UNCHANGED <<srvVars, auth, threads, payload, ui, ref, due, init, sel, stream, used, chosen, moves, faults>>
  BY DEF HistoryAges
<1>3. AddrOK(addr')
  <2>1. PICK r : r = addr.recent
    OBVIOUS
  <2>2. r \in Seq(Params) /\ Len(r) <= 5 /\ r # << >>
    BY <1>1, <1>2, <2>1 DEF AddrOK
  <2>3. Tail(r) \in Seq(Params) /\ Len(Tail(r)) <= 5
    BY <2>2
  <2> QED BY <1>1, <1>2, <2>1, <2>3 DEF AddrOK
<1>4. RestOK'
  BY <1>2 DEF NavInv, RestOK, srvVars
<1> QED BY <1>2, <1>3, <1>4, StillWaits DEF NavInv, StatesOK

\* Everyone who waits for a thread's payload is told how its request ended.
LEMMA DeliverHolds ==
    ASSUME NavInv, NEW id \in Ids, NEW res \in Task \cup {"failed"}, NEW data \in Slot,
           Deliver(id, res, data), RestOK',
           UNCHANGED <<auth, threads, addr, ui, ref>>
    PROVE  NavInv'
<1>1. payload \in PayloadStates /\ init \in InitStates /\ sel \in SelStates
  BY DEF NavInv, StatesOK
<1>2. /\ payload' = [payload EXCEPT ![id] = [data |-> data, flight |-> "no", removed |-> FALSE]]
      /\ init' = (IF init.st = "load" /\ init.id = id /\ init.res = "absent" THEN [init EXCEPT !.res = res] ELSE init)
      /\ sel' = (IF sel.id = id /\ sel.res = "absent" THEN [sel EXCEPT !.res = res] ELSE sel)
  BY DEF Deliver
<1>3. /\ payload' \in PayloadStates
      /\ \A j \in Ids : j # id => payload'[j] = payload[j]
  BY <1>1, <1>2 DEF PayloadStates
<1>4. res # "absent" /\ res \in Slot \cup {"failed"}
  BY Distinct DEF Slot
<1>5. /\ init' \in InitStates /\ init'.st = init.st /\ init'.id = init.id /\ init'.q = init.q
      /\ init.st = "load" /\ init.id = id => init'.res # "absent"
      /\ init.st # "load" \/ init.id # id => init'.res = init.res
  BY <1>1, <1>2, <1>4 DEF InitStates
<1>6. /\ sel' \in SelStates /\ sel'.id = sel.id
      /\ sel.id = id => sel'.res # "absent"
      /\ sel.id # id => sel'.res = sel.res
  BY <1>1, <1>2, <1>4 DEF SelStates
<1>7. StatesOK'
  BY <1>3, <1>5, <1>6 DEF NavInv, StatesOK, AddrOK
<1>8. ShownIsActive' /\ LoadsThreads'
  BY <1>5, <1>6 DEF NavInv, ShownIsActive, LoadsThreads
<1>9. WaitsHaveAnswers'
  <2>1. sel.id \in Ids \cup {None}
    BY <1>1 DEF SelStates
  <2>2. sel'.id # None /\ sel'.res = "absent" => payload'[sel'.id].flight # "no"
    BY <1>3, <1>6, <2>1 DEF NavInv, WaitsHaveAnswers
  <2>3. init'.st = "load" /\ init'.res = "absent" => payload'[init'.id].flight # "no"
    BY <1>3, <1>5 DEF NavInv, WaitsHaveAnswers, LoadsThreads
  <2>4. init'.st = "list" /\ init'.res = "absent" => threads'.busy
    BY <1>5 DEF NavInv, WaitsHaveAnswers
  <2>5. ui'.pending # None => sel'.id = ui'.pending
    BY <1>6 DEF NavInv, WaitsHaveAnswers
  <2> QED BY <2>2, <2>3, <2>4, <2>5 DEF WaitsHaveAnswers
<1> QED BY <1>7, <1>8, <1>9 DEF NavInv

LEMMA FetchOkHolds ==
    ASSUME NavInv, NEW id \in Ids, FetchOk(id)
    PROVE  NavInv'
<1>1. payload \in PayloadStates /\ taskOf \in [Ids -> Task]
  BY DEF NavInv, StatesOK, RestOK
<1>2. PICK res : res = IF payload[id].flight # "absent" THEN payload[id].flight ELSE ThreadTaskId(id)
  OBVIOUS
<1>3. payload[id].flight # "no" /\ Deliver(id, res, IF payload[id].removed THEN "absent" ELSE res)
  BY <1>2 DEF FetchOk
<1>4. res \in Task
  BY <1>1, <1>2, <1>3, Distinct DEF ThreadTaskId, PayloadStates, Slot
<1>5. UNCHANGED <<srvVars, auth, threads, addr, ui, ref, due, stream, used, chosen, moves, faults>>
  BY DEF FetchOk
<1>6. RestOK'
  BY <1>5 DEF NavInv, RestOK, srvVars
<1>7. (IF payload[id].removed THEN "absent" ELSE res) \in Slot
  BY <1>4 DEF Slot
<1> QED BY <1>3, <1>4, <1>5, <1>6, <1>7, DeliverHolds

LEMMA FetchFailsHolds ==
    ASSUME NavInv, NEW id \in Ids, FetchFails(id)
    PROVE  NavInv'
<1>1. /\ Deliver(id, "failed", "absent") /\ (session => faults < MaxFaults)
      /\ faults' = (IF session THEN faults + 1 ELSE faults)
      /\ UNCHANGED <<srvVars, auth, threads, addr, ui, ref, due, stream, used, chosen, moves>>
  BY DEF FetchFails
<1>2. RestOK'
  BY <1>1, Distinct DEF NavInv, RestOK, srvVars
<1>3. "absent" \in Slot
  BY DEF Slot
<1> QED BY <1>1, <1>2, <1>3, DeliverHolds

LEMMA HandleChatStartedHolds ==
    ASSUME NavInv, NEW id \in Ids, NEW tk \in Task, HandleChatStarted(id, tk)
    PROVE  NavInv'
<1>1. /\ ui \in UiStates /\ ref \in RefStates /\ AddrOK(addr) /\ payload \in PayloadStates
      /\ threads \in ListStates /\ taskOf \in [Ids -> Task]
  BY DEF NavInv, StatesOK, RestOK
<1>2. /\ stream' = stream \ {id} /\ ref' = [ref EXCEPT !.userNav = TRUE, !.newIds = @ \ {id}]
      /\ ui' = [ui EXCEPT !.active = id, !.shown = id, !.task = IF tk = None THEN @ ELSE tk]
      /\ addr' = SafeReplace(addr, P(id, IF tk = None THEN addr.latest.task ELSE tk))
      /\ taskOf' = [taskOf EXCEPT ![id] = tk] /\ Refetch /\ chosen' = None
      /\ UNCHANGED <<session, stored, auth, due, init, sel, used, moves, faults>>
  BY DEF HandleChatStarted
<1>3. /\ payload' \in PayloadStates
      /\ \A j \in Ids : payload'[j].flight = payload[j].flight
  <2>1. payload' = [payload EXCEPT ![id] = [data |-> "absent", flight |-> @.flight, removed |-> @.flight # "no"]]
    BY DEF HandleChatStarted, Remove
  <2> QED BY <1>1, <2>1 DEF PayloadStates, Slot
<1>4. ref' \in RefStates
  BY <1>1, <1>2 DEF RefStates
<1>5. ui' \in UiStates /\ ui'.pending = ui.pending /\ ui'.active = ui'.shown
  BY <1>1, <1>2 DEF UiStates
<1>6. AddrOK(addr')
  <2>1. addr.latest.task \in Task
    BY <1>1, ParamsAre DEF AddrOK
  <2>2. P(id, IF tk = None THEN addr.latest.task ELSE tk) \in Params
    BY <2>1, ParamsAre
  <2> QED BY <1>1, <1>2, <2>2, SafeReplaceIs
<1>7. threads' \in ListStates /\ (threads.busy => threads'.busy)
  BY <1>1, <1>2, RefetchIs
<1>8. Proceeds
  BY <1>2, <1>3, <1>4, <1>5, <1>6, <1>7 DEF Proceeds, NavInv, StatesOK, LoadsThreads, WaitsHaveAnswers
<1>9. RestOK'
  BY <1>1, <1>2 DEF NavInv, RestOK
<1> QED BY <1>2, <1>7, <1>8, <1>9, ProceedsHolds

LEMMA StreamDropsHolds ==
    ASSUME NavInv, NEW id \in Ids, StreamDrops(id)
    PROVE  NavInv'
<1>1. /\ stream' = stream \ {id}
      /\ UNCHANGED <<srvVars, auth, threads, payload, addr, ui, ref, due, init, sel, used, chosen, moves, faults>>
  BY DEF StreamDrops
<1>2. RestOK'
  BY <1>1 DEF NavInv, RestOK, srvVars
<1> QED BY <1>1, <1>2, StillWaits DEF NavInv, StatesOK, AddrOK

-----------------------------------------------------------------------------

LEMMA NavigationStarts ==
    ASSUME Init
    PROVE  NavInv
<1>1. PICK q \in Params : InitAt(q)
  BY Distinct DEF Init
<1>2. PICK id \in IF Bare(q) THEN Spare ELSE {None} :
        /\ ui = [active |-> id, task |-> q.task, shown |-> Empty, pending |-> None,
                 boot |-> ~Bare(q), initErr |-> FALSE]
        /\ ref = [newIds |-> {}, fresh |-> id, hasBoot |-> FALSE, userNav |-> FALSE]
        /\ used = {id} \ {None}
  BY <1>1 DEF InitAt
<1>3. id \in Ids \cup {None} /\ used \subseteq Ids
  BY <1>2 DEF Ids
<1>4. /\ threads = [data |-> [j \in Ids |-> "absent"], age |-> "none", busy |-> FALSE]
      /\ payload = [j \in Ids |-> [data |-> "absent", flight |-> "no", removed |-> FALSE]]
      /\ addr = [url |-> q, nav |-> {}, latest |-> q, recent |-> <<>>]
      /\ init = NoRun /\ sel = NoSel
  BY <1>1 DEF InitAt
<1>5. ui \in UiStates /\ ui.pending = None /\ ui.shown = Empty
  BY <1>2, <1>3, ParamsAre DEF UiStates
<1>6. ref \in RefStates
  BY <1>2, <1>3 DEF RefStates
<1>7. threads \in ListStates /\ payload \in PayloadStates
  BY <1>4 DEF ListStates, PayloadStates, Slot
<1>8. AddrOK(addr)
  BY <1>4 DEF AddrOK
<1>9. RestOK
  <2>1. stored \subseteq Ids /\ taskOf \in [Ids -> Task]
    <3>1. \A j \in Stored : Linked[j] \in Task
      BY NavAssumption DEF Task
    <3> QED BY <1>1, <3>1, Distinct DEF InitAt, Ids
  <2> QED BY <1>1, <1>3, <2>1, Distinct DEF InitAt, RestOK
<1>10. ShownIsActive /\ LoadsThreads /\ WaitsHaveAnswers
  BY <1>4, <1>5, NoRunIs, Distinct DEF ShownIsActive, LoadsThreads, WaitsHaveAnswers
<1> QED BY <1>4, <1>5, <1>6, <1>7, <1>8, <1>9, <1>10, NoRunIs DEF NavInv, StatesOK

LEMMA NavigationSteps ==
    ASSUME NavInv, [Next]_vars
    PROVE  NavInv'
<1>1. CASE RunEffect
  BY <1>1, RunEffectHolds
<1>2. CASE User
  BY <1>2, HandleNewChatHolds, HandleSelectExampleHolds, SendHolds, RetryInitHolds, HandleSelectThreadHolds,
     PrefetchThreadHolds, UpdateThreadStatusHolds, FollowLinkHolds DEF User
<1>3. CASE Requests
  BY <1>3, ListDoneHolds, ListFailsHolds, FetchOkHolds, FetchFailsHolds DEF Requests
<1>4. CASE Steps
  BY <1>4, InitResolveHolds, InitFallbackHolds, InitApplyHolds, InitFailHolds,
     CommitThreadSelectionHolds, SelectionFailedHolds DEF Steps
<1>5. CASE UrlCommit \/ AuthResolves \/ ListAges \/ HistoryAges
  BY <1>5, UrlCommitHolds, AuthResolvesHolds, ListAgesHolds, HistoryAgesHolds
<1>6. CASE \E id \in Ids : StreamDrops(id) \/ \E tk \in Task : HandleChatStarted(id, tk)
  BY <1>6, StreamDropsHolds, HandleChatStartedHolds
<1>7. CASE UNCHANGED vars
  <2>1. RestOK'
    BY <1>7 DEF vars, srvVars, NavInv, RestOK
  <2> QED BY <1>7, <2>1, StillWaits DEF vars, NavInv, StatesOK, AddrOK
<1> QED BY <1>1, <1>2, <1>3, <1>4, <1>5, <1>6, <1>7 DEF Next

LEMMA NavInvSuffices ==
    ASSUME NavInv
    PROVE  SwitchesHold
<1>1. TypeOK
  BY DEF NavInv, RestOK, StatesOK, TypeOK, AddrOK, UiStates, RefStates, InitStates, SelStates, ListStates,
         PayloadStates
<1>2. MessagesOfThread
  <2>1. ui.shown \in Ids => Shown = ui.active
    BY Distinct DEF NavInv, ShownIsActive, Shown
  <2> QED BY <2>1 DEF NavInv, ShownIsActive, MessagesOfThread
<1> QED BY <1>1, <1>2 DEF SwitchesHold, NavInv

\* Selections, initializations and endings that overlap leave the page with the right messages
\* and with nothing to wait for in vain (useThreadNavigation.ts), however many conversations,
\* addresses, clicks and failures there are.
THEOREM NavigationHolds == Spec => []SwitchesHold
<1>1. Init => NavInv
  BY NavigationStarts
<1>2. NavInv /\ [Next]_vars => NavInv'
  BY NavigationSteps
<1>3. NavInv => SwitchesHold
  BY NavInvSuffices
<1> QED BY <1>1, <1>2, <1>3, PTL DEF Spec

-----------------------------------------------------------------------------
(* What the reader chose stays on screen. *)

\* While a choice stands, whatever is pending leads to the chosen thread, or the next effect
\* is skipped as the user's own navigation.
ChoiceLeads == chosen # None =>
    /\ due # "retry" /\ (due = "url" => addr.nav = {})
    /\ ~ref.userNav => \A q \in addr.nav : q.thread = chosen
    /\ ~ref.userNav /\ due = "url" => addr.url.thread = chosen
    /\ init.st # "none" => init.st # "resolve" /\ init.q.thread = chosen
    /\ init.st = "load" => init.id = chosen
    /\ sel.id \in {None, chosen}

\* The identity of the first render is remembered only while the address stays bare, with
\* nothing loading or failed; an effect never finds it remembered and stored.
FreshLeads ==
    /\ ref.fresh # None => /\ init = NoRun /\ ~ui.initErr /\ due # "retry"
                           /\ Bare(addr.url) \/ due = "url"
                           /\ Bare(addr.url) /\ due # "no" => ref.fresh \notin stored
    /\ init.st = "none" => init.res # "failed"
    /\ stored \cap Spare \subseteq used

Leads == ChoiceLeads /\ FreshLeads

\* What a step may not do.
KeepsChoice == chosen # None /\ chosen' = chosen /\ ui.active = chosen => ui'.active = chosen
StartsFresh == due # "no" /\ due' = "no" /\ Bare(addr.url) /\ ui'.active # ui.active => ui'.active \notin stored

\* A run that is about thread th leads only there.
Toward(th, a) ==
    /\ ref'.fresh = None /\ ref'.userNav = ref.userNav
    /\ ui'.active \in {th, ui.active}
    /\ addr'.url = a.url /\ \A p \in addr'.nav : p \in a.nav \/ p.thread = th
    /\ \/ init' = NoRun
       \/ init'.st \in {"list", "load"} /\ init'.q.thread = th /\ (init'.st = "load" => init'.id = th)

LEMMA ReplacedNav ==
    ASSUME NEW a, AddrOK(a), NEW q
    PROVE  SafeReplace(a, q).url = a.url /\ SafeReplace(a, q).nav \in {a.nav, {q}}
<1>1. PICK r : SafeReplace(a, q) = a \/ SafeReplace(a, q) = [a EXCEPT !.nav = {q}, !.latest = q, !.recent = r]
  BY DEF SafeReplace
<1> QED BY <1>1 DEF AddrOK

LEMMA OpenNewToward ==
    ASSUME NavInv, NEW th \in Ids, NEW tk \in Task, NEW a, AddrOK(a), OpenNew(th, tk, a)
    PROVE  Toward(th, a)
<1>1. ui \in UiStates /\ ref \in RefStates
  BY DEF NavInv, StatesOK
<1>2. /\ ref' = [ref EXCEPT !.newIds = @ \cup {th}, !.fresh = None, !.hasBoot = TRUE]
      /\ ui' = Booted([ui EXCEPT !.active = th, !.task = tk, !.shown = Empty])
      /\ addr' = IF tk = None THEN a ELSE SafeReplace(a, P(th, tk))
      /\ init' = NoRun
  BY DEF OpenNew
<1>3. addr'.url = a.url /\ addr'.nav \in {a.nav, {P(th, tk)}}
  BY <1>2, ReplacedNav
<1> QED BY <1>1, <1>2, <1>3, ParamsAre DEF Toward, UiStates, RefStates, Booted

LEMMA LoadToward ==
    ASSUME NavInv, NEW q \in Params, NEW a, init' = Load(q, q.thread), ui'.active = ui.active, addr' = a,
           ref'.fresh = None, ref'.userNav = ref.userNav
    PROVE  Toward(q.thread, a)
BY NoRunIs DEF Toward, Load, NoRun

LEMMA ListedToward ==
    ASSUME NavInv, NEW th \in Ids, NEW data \in [Ids -> Slot], NEW a, AddrOK(a), Listed(th, data, a)
    PROVE  Toward(th, a)
<1>1. ref \in RefStates
  BY DEF NavInv, StatesOK
<1>2. CASE data[th] = "absent" \/ th \in ref.newIds
  BY <1>2, OpenNewToward, Distinct DEF Listed
<1>3. CASE ~(data[th] = "absent" \/ th \in ref.newIds)
  <2>1. /\ init' = Load(P(th, None), th) /\ ui' = Booting /\ addr' = a
        /\ ref' = [ref EXCEPT !.fresh = None]
    BY <1>3 DEF Listed
  <2>2. P(th, None) \in Params /\ P(th, None).thread = th
    BY ParamsAre, Distinct
  <2>3. ref'.fresh = None /\ ref'.userNav = ref.userNav
    BY <1>1, <2>1 DEF RefStates
  <2> QED BY <2>1, <2>2, <2>3, LoadToward, BootingIs
<1> QED BY <1>2, <1>3

LEMMA InitTaskToward ==
    ASSUME NavInv, NEW q \in Params, NEW a, AddrOK(a), InitTask(q, a)
    PROVE  /\ ref'.fresh = None /\ (init' = NoRun \/ init'.st # "none")
           /\ q.thread # None => Toward(q.thread, a)
<1>1. ui \in UiStates /\ ref \in RefStates /\ q.thread \in Ids \cup {None} /\ q.task \in Task
  BY ParamsAre DEF NavInv, StatesOK
<1>2. CASE q.thread \in ref.newIds
  <2>1. OpenNew(q.thread, q.task, a) /\ q.thread \in Ids
    BY <1>1, <1>2 DEF InitTask, RefStates
  <2> QED BY <1>1, <2>1, OpenNewToward DEF Toward
<1>3. CASE q.thread \notin ref.newIds
  <2>1. /\ ui' = Booting /\ addr' = a /\ ref' = [ref EXCEPT !.fresh = None]
        /\ q.thread = None => init' = [NoRun EXCEPT !.st = "resolve", !.q = q]
        /\ q.thread # None => init' = Load(q, q.thread)
    BY <1>3 DEF InitTask
  <2>2. ref'.fresh = None /\ ref'.userNav = ref.userNav
    BY <1>1, <2>1 DEF RefStates
  <2>3. init'.st # "none"
    BY <2>1 DEF Load, NoRun
  <2>4. q.thread # None => Toward(q.thread, a)
    BY <2>1, <2>2, LoadToward, BootingIs
  <2> QED BY <2>2, <2>3, <2>4
<1> QED BY <1>2, <1>3

LEMMA InitThreadToward ==
    ASSUME NavInv, NEW q \in Params, q.thread # None, NEW a, AddrOK(a), InitThread(q, a)
    PROVE  Toward(q.thread, a)
<1>1. ref \in RefStates /\ threads \in ListStates /\ q.thread \in Ids
  BY ParamsAre DEF NavInv, StatesOK
<1>2. CASE auth # "in"
  <2>1. Listed(q.thread, [id \in Ids |-> "absent"], a)
    BY <1>2 DEF InitThread
  <2>2. [id \in Ids |-> "absent"] \in [Ids -> Slot]
    BY DEF Slot
  <2> QED BY <1>1, <2>1, <2>2, ListedToward
<1>3. CASE auth = "in" /\ threads.age = "fresh"
  <2>1. Listed(q.thread, threads.data, a)
    BY <1>3 DEF InitThread
  <2>2. threads.data \in [Ids -> Slot]
    BY <1>1 DEF ListStates
  <2> QED BY <1>1, <2>1, <2>2, ListedToward
<1>4. CASE auth = "in" /\ threads.age # "fresh"
  <2>1. /\ init' = [NoRun EXCEPT !.st = "list", !.q = q] /\ ui' = Booting /\ addr' = a
        /\ ref' = [ref EXCEPT !.fresh = None]
    BY <1>4 DEF InitThread
  <2>2. init'.st = "list" /\ init'.q = q
    BY <2>1 DEF NoRun
  <2>3. ref'.fresh = None /\ ref'.userNav = ref.userNav
    BY <1>1, <2>1 DEF RefStates
  <2> QED BY <2>1, <2>2, <2>3, BootingIs DEF Toward
<1> QED BY <1>2, <1>3, <1>4

\* Fresh identifiers have never been stored.
LEMMA FreshUnstored ==
    ASSUME NavInv, Leads, NEW id \in Fresh
    PROVE  id \in Ids /\ id \notin stored
BY DEF Fresh, Leads, FreshLeads, Ids

LEMMA RunEffectLeads ==
    ASSUME NavInv, Leads, RunEffect
    PROVE  Leads' /\ KeepsChoice /\ StartsFresh
<1>1. /\ ui \in UiStates /\ ref \in RefStates /\ AddrOK(addr) /\ init \in InitStates /\ chosen \in Ids \cup {None}
  BY DEF NavInv, StatesOK, RestOK
<1>2. PICK q : q = addr.url
  OBVIOUS
<1>3. q \in Params
  BY <1>1, <1>2 DEF AddrOK
<1>4. PICK a : a = IF due = "url" THEN [addr EXCEPT !.latest = q] ELSE addr
  OBVIOUS
<1>5. AddrOK(a) /\ a.url = q /\ a.nav = addr.nav
  BY <1>1, <1>2, <1>3, <1>4 DEF AddrOK
<1>6. due # "no" /\ due' = "no" /\ UNCHANGED <<srvVars, auth, sel, stream, chosen, moves, faults>>
  BY DEF RunEffect
<1>7. chosen # None => due = "url" /\ addr.nav = {} /\ (~ref.userNav => q.thread = chosen) /\ sel.id \in {None, chosen}
  BY <1>2, <1>6 DEF NavInv, RestOK, Leads, ChoiceLeads
<1>8. used \subseteq used' => stored' \cap Spare \subseteq used'
  BY <1>6 DEF Leads, FreshLeads, srvVars
<1>9. CASE ref.userNav
  <2>1. /\ ref' = SkipUser(q) /\ init' = NoRun /\ addr' = a
        /\ UNCHANGED <<ui, threads, payload, used>>
    BY <1>2, <1>4, <1>9 DEF RunEffect
  <2>2. /\ ref'.fresh # None => Bare(q) /\ ref'.fresh = ref.fresh
    BY <1>1, <2>1 DEF SkipUser, RefStates
  <2>3. ChoiceLeads'
    BY <1>5, <1>6, <1>7, <2>1, NoRunIs DEF ChoiceLeads
  <2>4. FreshLeads'
    BY <1>2, <1>5, <1>6, <1>8, <2>1, <2>2, NoRunIs DEF Leads, FreshLeads
  <2> QED BY <2>1, <2>3, <2>4 DEF Leads, KeepsChoice, StartsFresh
<1>10. CASE ~ref.userNav /\ Bare(q)
  <2>1. InitBare(a)
    <3>1. q.task = None /\ q # P(None, Example)
      BY <1>10, Distinct DEF Bare, P
    <3> QED BY <1>2, <1>4, <1>10, <3>1 DEF RunEffect
  <2>2. PICK id \in IF ref.fresh # None THEN {ref.fresh} ELSE Fresh :
        /\ ref' = [ref EXCEPT !.fresh = id, !.newIds = @ \cup {id}, !.hasBoot = TRUE]
        /\ used' = used \cup {id}
        /\ ui' = Booted([ui EXCEPT !.active = id, !.task = None, !.shown = Empty])
        /\ addr' = SafeReplace(a, P(id, None))
        /\ init' = NoRun
    BY <2>1 DEF InitBare
  <2>3. id \notin stored
    BY <1>2, <1>6, <1>10, <2>2, FreshUnstored DEF Leads, FreshLeads
  <2>4. chosen = None
    BY <1>7, <1>10 DEF Bare, P
  <2>5. addr'.url = q
    BY <1>5, <2>2, ReplacedNav
  <2>6. ui'.active = id /\ ~ui'.initErr
    BY <1>1, <2>2 DEF UiStates, Booted
  <2>7. ChoiceLeads' /\ KeepsChoice
    BY <1>6, <2>4 DEF ChoiceLeads, KeepsChoice
  <2>8. FreshLeads'
    BY <1>6, <1>8, <1>10, <2>2, <2>5, <2>6, NoRunIs DEF FreshLeads
  <2> QED BY <2>3, <2>6, <2>7, <2>8 DEF Leads, StartsFresh
<1>11. ASSUME ~ref.userNav, ~Bare(q), ref'.fresh = None, init' = NoRun \/ init'.st # "none", used \subseteq used',
              chosen # None => Toward(chosen, a)
       PROVE  Leads' /\ KeepsChoice /\ StartsFresh
  <2>1. ChoiceLeads' /\ KeepsChoice
    <3>1. CASE chosen = None
      BY <1>6, <3>1 DEF ChoiceLeads, KeepsChoice
    <3>2. CASE chosen # None
      BY <1>5, <1>6, <1>7, <1>11, <3>2, NoRunIs DEF ChoiceLeads, KeepsChoice, Toward
    <3> QED BY <3>1, <3>2
  <2>2. FreshLeads'
    BY <1>8, <1>11, NoRunIs DEF FreshLeads
  <2> QED BY <1>2, <1>11, <2>1, <2>2 DEF Leads, StartsFresh
<1>12. CASE ~ref.userNav /\ ~Bare(q) /\ q = P(None, Example)
  <2>1. /\ ref' = [ref EXCEPT !.fresh = None, !.hasBoot = TRUE]
        /\ init' = NoRun /\ UNCHANGED <<threads, payload, used>>
    <3>1. q.task = Example
      BY <1>12 DEF P
    <3> QED BY <1>2, <1>4, <1>12, <3>1 DEF RunEffect
  <2>2. ref'.fresh = None
    BY <1>1, <2>1 DEF RefStates
  <2>3. chosen = None
    BY <1>7, <1>12 DEF P
  <2> QED BY <1>11, <1>12, <2>1, <2>2, <2>3
<1>13. CASE ~ref.userNav /\ ~Bare(q) /\ q # P(None, Example) /\ q.task # None
  <2>1. InitTask(q, a)
    BY <1>2, <1>4, <1>13 DEF RunEffect
  <2>2. used' = used
    BY <2>1 DEF InitTask
  <2>3. /\ ref'.fresh = None /\ (init' = NoRun \/ init'.st # "none")
        /\ q.thread # None => Toward(q.thread, a)
    BY <1>3, <1>5, <2>1, InitTaskToward
  <2> QED BY <1>7, <1>11, <1>13, <2>2, <2>3
<1>14. CASE ~ref.userNav /\ ~Bare(q) /\ q # P(None, Example) /\ q.task = None
  <2>1. InitThread(q, a)
    BY <1>2, <1>4, <1>14 DEF RunEffect
  <2>2. used' = used
    BY <2>1 DEF InitThread
  <2>3. q.thread # None
    BY <1>3, <1>14, ParamsAre DEF Bare
  <2>4. Toward(q.thread, a)
    BY <1>3, <1>5, <2>1, <2>3, InitThreadToward
  <2>5. ref'.fresh = None /\ (init' = NoRun \/ init'.st # "none")
    BY <2>4 DEF Toward
  <2> QED BY <1>7, <1>11, <1>14, <2>2, <2>4, <2>5
<1> QED BY <1>9, <1>10, <1>12, <1>13, <1>14

\* The page's run and its remembered identity are left alone, or the run is told something.
SameRun ==
    /\ due = "no" /\ due' = "no"
    /\ addr'.url = addr.url /\ ref'.fresh = ref.fresh /\ (ui'.initErr => ui.initErr)
    /\ \/ init' \in {init, NoRun}
       \/ init.st # "none" /\ init'.st = init.st /\ init'.q = init.q /\ init'.id = init.id
    /\ stored' \cap Spare \subseteq used'

LEMMA SameRunLeads ==
    ASSUME NavInv, Leads, SameRun
    PROVE  FreshLeads' /\ StartsFresh
<1>1. FreshLeads'
  <2>1. ref'.fresh # None => init' = NoRun
    BY NoRunIs DEF Leads, FreshLeads, SameRun
  <2>2. init'.st = "none" => init'.res # "failed"
    BY NoRunIs DEF Leads, FreshLeads, SameRun
  <2> QED BY <2>1, <2>2 DEF Leads, FreshLeads, SameRun
<1> QED BY <1>1 DEF SameRun, StartsFresh

\* The choice is given up.
LEMMA UnchosenLeads ==
    ASSUME NavInv, Leads, SameRun, chosen' = None
    PROVE  Leads' /\ KeepsChoice /\ StartsFresh
BY SameRunLeads DEF Leads, ChoiceLeads, KeepsChoice

\* The choice stands, and nothing new is on the way.
LEMMA StillLeads ==
    ASSUME NavInv, Leads, SameRun, chosen' = chosen, addr'.nav \subseteq addr.nav, ui'.active = ui.active,
           ref'.userNav = ref.userNav, sel'.id \in {sel.id, None}
    PROVE  Leads' /\ KeepsChoice /\ StartsFresh
<1>1. ChoiceLeads'
  BY NoRunIs DEF Leads, ChoiceLeads, SameRun
<1> QED BY <1>1, SameRunLeads DEF Leads, KeepsChoice

LEMMA StepsLead ==
    ASSUME NavInv, Leads, due = "no", Steps
    PROVE  Leads' /\ KeepsChoice /\ StartsFresh
<1>1. /\ ui \in UiStates /\ ref \in RefStates /\ AddrOK(addr) /\ init \in InitStates /\ sel \in SelStates
      /\ chosen \in Ids \cup {None} /\ stored \cap Spare \subseteq used
  BY DEF NavInv, StatesOK, RestOK, Leads, FreshLeads
<1>2. init.st # "none" \/ init.res = "failed" => ref.fresh = None
  BY NoRunIs DEF Leads, FreshLeads
<1>3. CASE InitResolve
  <2>1. /\ init.st = "resolve" /\ UNCHANGED <<chosen, due>>
        /\ \E id : stored' = stored \cup {id} /\ used' = used \cup {id}
    BY <1>3 DEF InitResolve
  <2>2. chosen = None
    BY <2>1 DEF Leads, ChoiceLeads
  <2>3. ref'.fresh = None /\ (init' = NoRun \/ init'.st = "load")
    <3>1. PICK id \in IF {j \in stored : taskOf[j] = init.q.task} # {} THEN {j \in stored : taskOf[j] = init.q.task}
                      ELSE Fresh :
            IF id \in ref.newIds
            THEN OpenNew(id, init.q.task, addr) /\ UNCHANGED payload
            ELSE /\ init' = Load(init.q, id) /\ Ensure(id, init.q.task)
                 /\ UNCHANGED <<addr, ui, ref>>
      BY <1>3 DEF InitResolve
    <3>2. CASE OpenNew(id, init.q.task, addr)
      BY <1>1, <3>2 DEF OpenNew, RefStates
    <3>3. CASE init' = Load(init.q, id) /\ UNCHANGED ref
      BY <1>2, <2>1, <3>3 DEF Load, NoRun
    <3> QED BY <3>1, <3>2, <3>3
  <2>4. FreshLeads'
    BY <1>1, <2>1, <2>3, NoRunIs DEF FreshLeads
  <2> QED BY <1>3, <2>1, <2>2, <2>4 DEF Leads, ChoiceLeads, KeepsChoice, StartsFresh
<1>4. CASE InitFallback
  <2>1. /\ init.st = "resolve" /\ UNCHANGED <<srvVars, chosen, due>>
        /\ \E id \in Fresh : used' = used \cup {id} /\ OpenNew(id, init.q.task, addr)
    BY <1>4 DEF InitFallback
  <2>2. chosen = None
    BY <2>1 DEF Leads, ChoiceLeads
  <2>3. ref'.fresh = None /\ init' = NoRun
    BY <1>1, <2>1 DEF OpenNew, RefStates
  <2>4. FreshLeads'
    BY <1>1, <2>1, <2>3, NoRunIs DEF FreshLeads, srvVars
  <2> QED BY <1>4, <2>1, <2>2, <2>4 DEF Leads, ChoiceLeads, KeepsChoice, StartsFresh
<1>5. CASE InitApply
  <2>1. PICK tk : /\ ui' = Booted([ui EXCEPT !.active = init.id, !.task = tk, !.shown = init.id])
                  /\ addr' = IF tk = None THEN addr ELSE SafeReplace(addr, P(init.id, tk))
    BY <1>5 DEF InitApply
  <2>2. /\ init.st = "load" /\ ref' = [ref EXCEPT !.hasBoot = TRUE] /\ init' = NoRun
        /\ UNCHANGED <<srvVars, due, sel, used, chosen>>
    BY <1>5 DEF InitApply
  <2>3. ref'.fresh = None /\ ref'.userNav = ref.userNav
    BY <1>1, <1>2, <2>2 DEF RefStates
  <2>4. addr'.url = addr.url /\ \A p \in addr'.nav : p \in addr.nav \/ p.thread = init.id
    BY <1>1, <2>1, ReplacedNav DEF P
  <2>5. ui'.active = init.id
    BY <1>1, <2>1 DEF UiStates, Booted
  <2>6. chosen # None => init.id = chosen
    BY <2>2 DEF Leads, ChoiceLeads
  <2>7. ChoiceLeads' /\ KeepsChoice
    BY <2>2, <2>3, <2>4, <2>5, <2>6, NoRunIs DEF Leads, ChoiceLeads, KeepsChoice
  <2>8. FreshLeads'
    BY <1>1, <2>2, <2>3, NoRunIs DEF FreshLeads, srvVars
  <2> QED BY <2>2, <2>7, <2>8 DEF Leads, StartsFresh
<1>6. CASE InitFail
  <2>1. /\ init.res = "failed" /\ ui' = [ui EXCEPT !.initErr = TRUE, !.boot = FALSE] /\ init' = NoRun
        /\ UNCHANGED <<srvVars, addr, ref, due, sel, used, chosen>>
    BY <1>6 DEF InitFail
  <2>2. ui'.active = ui.active
    BY <1>1, <2>1 DEF UiStates
  <2>3. ChoiceLeads' /\ KeepsChoice
    BY <2>1, <2>2, NoRunIs DEF Leads, ChoiceLeads, KeepsChoice
  <2>4. FreshLeads'
    BY <1>1, <1>2, <2>1, NoRunIs DEF FreshLeads, srvVars
  <2> QED BY <2>1, <2>3, <2>4 DEF Leads, StartsFresh
<1>7. CASE CommitThreadSelection
  <2>1. /\ sel.id \in Ids
        /\ ui' = [ui EXCEPT !.active = sel.id, !.task = sel.res, !.shown = sel.id, !.pending = None,
                            !.initErr = FALSE]
        /\ addr' = SafeReplace(addr, P(sel.id, sel.res)) /\ sel' = NoSel
        /\ UNCHANGED <<srvVars, ref, due, init, used, chosen>>
    BY <1>7, Distinct DEF CommitThreadSelection, NavInv, LoadsThreads
  <2>2. addr'.url = addr.url /\ addr'.nav \in {addr.nav, {P(sel.id, sel.res)}}
    BY <1>1, <2>1, ReplacedNav
  <2>3. ui'.active = sel.id /\ ~ui'.initErr
    BY <1>1, <2>1 DEF UiStates
  <2>4. chosen # None => sel.id = chosen
    BY <2>1, Distinct DEF Leads, ChoiceLeads
  <2>5. ChoiceLeads' /\ KeepsChoice
    BY <2>1, <2>2, <2>3, <2>4, NoRunIs DEF Leads, ChoiceLeads, KeepsChoice, P
  <2>6. SameRun
    BY <1>1, <2>1, <2>2, <2>3 DEF SameRun, srvVars
  <2> QED BY <2>5, <2>6, SameRunLeads DEF Leads
<1>8. CASE SelectionFailed
  <2>1. /\ ref' = [ref EXCEPT !.userNav = FALSE] /\ ui' = [ui EXCEPT !.pending = None]
        /\ chosen' = None /\ UNCHANGED <<srvVars, addr, due, init, used>>
    BY <1>8 DEF SelectionFailed
  <2>2. ref'.fresh = ref.fresh /\ ui'.initErr = ui.initErr
    BY <1>1, <2>1 DEF RefStates, UiStates
  <2> QED BY <1>1, <2>1, <2>2, UnchosenLeads DEF SameRun, srvVars
<1> QED BY <1>3, <1>4, <1>5, <1>6, <1>7, <1>8 DEF Steps

LEMMA UserLeads ==
    ASSUME NavInv, Leads, due = "no", User
    PROVE  Leads' /\ KeepsChoice /\ StartsFresh
<1>1. /\ ui \in UiStates /\ ref \in RefStates /\ AddrOK(addr) /\ init \in InitStates /\ sel \in SelStates
      /\ stored \cap Spare \subseteq used
  BY DEF NavInv, StatesOK, Leads, FreshLeads
<1>2. CASE HandleNewChat
  <2>1. PICK id \in Fresh :
          /\ used' = used \cup {id}
          /\ ref' = [ref EXCEPT !.userNav = TRUE, !.newIds = @ \cup {id}, !.hasBoot = TRUE]
          /\ ui' = Booted([ui EXCEPT !.active = id, !.task = None, !.shown = Empty, !.pending = None])
          /\ addr' = SafeReplace(addr, P(id, None))
          /\ chosen' = id
    BY <1>2 DEF HandleNewChat
  <2>2. /\ init' = NoRun /\ sel' = NoSel /\ UNCHANGED <<srvVars, due>>
    BY <1>2 DEF HandleNewChat
  <2>3. ref'.userNav /\ ref'.fresh = ref.fresh /\ ui'.active = id /\ ~ui'.initErr
    BY <1>1, <2>1 DEF RefStates, UiStates, Booted
  <2>4. addr'.url = addr.url
    BY <1>1, <2>1, ReplacedNav
  <2>5. ChoiceLeads' /\ KeepsChoice
    BY <2>1, <2>2, <2>3, NoRunIs DEF ChoiceLeads, KeepsChoice
  <2>6. SameRun
    BY <1>1, <2>1, <2>2, <2>3, <2>4 DEF SameRun, srvVars
  <2> QED BY <2>5, <2>6, SameRunLeads DEF Leads
<1>3. CASE HandleSelectExample
  <2>1. /\ ref' = [ref EXCEPT !.userNav = TRUE, !.hasBoot = TRUE] /\ chosen' = None
        /\ ui' = [ui EXCEPT !.active = None, !.task = Example, !.shown = Demo, !.pending = None,
                            !.boot = FALSE, !.initErr = FALSE]
        /\ addr' = SafeReplace(addr, P(None, Example))
        /\ UNCHANGED <<srvVars, due, init, used>>
    BY <1>3 DEF HandleSelectExample, OpenPublicExample
  <2>2. ref'.fresh = ref.fresh /\ ~ui'.initErr
    BY <1>1, <2>1 DEF RefStates, UiStates
  <2>3. addr'.url = addr.url
    BY <1>1, <2>1, ReplacedNav
  <2> QED BY <1>1, <2>1, <2>2, <2>3, UnchosenLeads DEF SameRun, srvVars
<1>4. CASE Send
  <2>1. PICK id : used' = used \cup {id} /\ stored' = stored \cup {id}
    BY <1>4 DEF Send
  <2>2. UNCHANGED <<addr, ui, ref, due, init, sel, chosen>>
    BY <1>4 DEF Send
  <2> QED BY <1>1, <2>1, <2>2, StillLeads DEF SameRun
<1>5. CASE RetryInit
  <2>1. /\ ui.initErr /\ ui' = [ui EXCEPT !.initErr = FALSE, !.boot = TRUE]
        /\ chosen' = None /\ due' = "retry" /\ UNCHANGED <<srvVars, ref, init, used>>
    BY <1>5 DEF RetryInit
  <2>2. ref'.fresh = None
    BY <2>1 DEF Leads, FreshLeads
  <2>3. FreshLeads'
    BY <1>1, <2>1, <2>2 DEF Leads, FreshLeads, srvVars
  <2> QED BY <2>1, <2>3 DEF Leads, ChoiceLeads, KeepsChoice, StartsFresh
<1>6. ASSUME NEW id \in Ids, HandleSelectThread(id)
      PROVE  Leads' /\ KeepsChoice /\ StartsFresh
  <2>1. /\ ref' = [ref EXCEPT !.userNav = TRUE, !.newIds = @ \ {id}]
        /\ ui' = [ui EXCEPT !.pending = id] /\ sel'.id = id
        /\ init' = NoRun /\ chosen' = id
        /\ UNCHANGED <<srvVars, addr, due, used>>
    BY <1>6 DEF HandleSelectThread
  <2>2. ref'.userNav /\ ref'.fresh = ref.fresh /\ ui'.active = ui.active /\ ui'.initErr = ui.initErr
    BY <1>1, <2>1 DEF RefStates, UiStates
  <2>3. ChoiceLeads' /\ KeepsChoice
    BY <2>1, <2>2, NoRunIs DEF ChoiceLeads, KeepsChoice
  <2>4. SameRun
    BY <1>1, <2>1, <2>2 DEF SameRun, srvVars
  <2> QED BY <2>3, <2>4, SameRunLeads DEF Leads
<1>7. ASSUME NEW id \in Ids, PrefetchThread(id) \/ UpdateThreadStatus(id)
      PROVE  Leads' /\ KeepsChoice /\ StartsFresh
  <2>1. UNCHANGED <<srvVars, addr, ui, ref, due, init, sel, used, chosen>>
    BY <1>7 DEF PrefetchThread, UpdateThreadStatus
  <2> QED BY <1>1, <2>1, StillLeads DEF SameRun, srvVars
<1>8. ASSUME NEW p \in Links, FollowLink(p)
      PROVE  Leads' /\ KeepsChoice /\ StartsFresh
  <2>1. /\ addr' = [addr EXCEPT !.nav = {p}] /\ chosen' = None
        /\ UNCHANGED <<srvVars, ui, ref, due, init, used>>
    BY <1>8 DEF FollowLink
  <2>2. addr'.url = addr.url
    BY <1>1, <2>1 DEF AddrOK
  <2> QED BY <1>1, <2>1, <2>2, UnchosenLeads DEF SameRun, srvVars
<1> QED BY <1>2, <1>3, <1>4, <1>5, <1>6, <1>7, <1>8 DEF User

LEMMA RequestsLead ==
    ASSUME NavInv, Leads, due = "no", Requests
    PROVE  Leads' /\ KeepsChoice /\ StartsFresh
<1>1. /\ ui \in UiStates /\ ref \in RefStates /\ AddrOK(addr) /\ init \in InitStates /\ sel \in SelStates
      /\ taskOf \in [Ids -> Task] /\ stored \cap Spare \subseteq used
  BY DEF NavInv, StatesOK, RestOK, Leads, FreshLeads
<1>2. CASE ListDone
  <2>1. UNCHANGED <<srvVars, due, sel, used, chosen>>
    BY <1>2 DEF ListDone
  <2>2. CASE init.st = "list"
    <3>1. Listed(init.q.thread, ThreadRows, addr)
      BY <1>2, <2>2 DEF ListDone
    <3>2. init.q.thread \in Ids /\ ThreadRows \in [Ids -> Slot]
      BY <1>1, <2>2 DEF NavInv, LoadsThreads, ThreadRows, Slot
    <3>3. Toward(init.q.thread, addr)
      BY <1>1, <3>1, <3>2, ListedToward
    <3>4. chosen # None => init.q.thread = chosen
      BY <2>2 DEF Leads, ChoiceLeads
    <3>5. ChoiceLeads' /\ KeepsChoice
      BY <2>1, <3>3, <3>4, NoRunIs DEF Leads, ChoiceLeads, KeepsChoice, Toward
    <3>6. FreshLeads'
      BY <1>1, <2>1, <3>3, NoRunIs DEF FreshLeads, Toward, srvVars
    <3> QED BY <2>1, <3>5, <3>6 DEF Leads, StartsFresh
  <2>3. CASE init.st # "list"
    <3>1. UNCHANGED <<init, ui, addr, ref>>
      BY <1>2, <2>3 DEF ListDone
    <3> QED BY <1>1, <2>1, <3>1, StillLeads DEF SameRun, srvVars
  <2> QED BY <2>2, <2>3
<1>3. CASE ListFails
  <2>1. /\ init' = (IF init.st = "list" THEN [init EXCEPT !.res = "failed"] ELSE init)
        /\ UNCHANGED <<srvVars, addr, ui, ref, due, sel, used, chosen>>
    BY <1>3 DEF ListFails
  <2>2. init' = init \/ (init.st # "none" /\ init'.st = init.st /\ init'.q = init.q /\ init'.id = init.id)
    BY <1>1, <2>1 DEF InitStates
  <2> QED BY <1>1, <2>1, <2>2, StillLeads DEF SameRun, srvVars
<1>4. ASSUME NEW id \in Ids, NEW res, NEW data, Deliver(id, res, data),
             UNCHANGED <<srvVars, addr, ui, ref, due, used, chosen>>
      PROVE  Leads' /\ KeepsChoice /\ StartsFresh
  <2>1. init' = init \/ (init.st # "none" /\ init'.st = init.st /\ init'.q = init.q /\ init'.id = init.id)
    BY <1>1, <1>4 DEF Deliver, InitStates
  <2>2. sel'.id = sel.id
    BY <1>1, <1>4 DEF Deliver, SelStates
  <2> QED BY <1>1, <1>4, <2>1, <2>2, StillLeads DEF SameRun, srvVars
<1>5. ASSUME NEW id \in Ids, FetchOk(id) \/ FetchFails(id)
      PROVE  Leads' /\ KeepsChoice /\ StartsFresh
  BY <1>4, <1>5 DEF FetchOk, FetchFails
<1> QED BY <1>2, <1>3, <1>5 DEF Requests

LEMMA BrowserLeads ==
    ASSUME NavInv, Leads, due = "no", UrlCommit \/ AuthResolves \/ ListAges \/ HistoryAges
    PROVE  Leads' /\ KeepsChoice /\ StartsFresh
<1>1. AddrOK(addr) /\ stored \cap Spare \subseteq used
  BY DEF NavInv, StatesOK, Leads, FreshLeads
<1>2. CASE UrlCommit
  <2>1. PICK q \in addr.nav : /\ addr' = [addr EXCEPT !.url = q, !.nav = {}]
                              /\ due' = IF q = addr.url THEN "no" ELSE "url"
    BY <1>2 DEF UrlCommit
  <2>2. UNCHANGED <<srvVars, ui, ref, init, sel, used, chosen>>
    BY <1>2 DEF UrlCommit
  <2>3. addr'.url = q /\ addr'.nav = {}
    BY <1>1, <2>1 DEF AddrOK
  <2>4. ChoiceLeads' /\ KeepsChoice
    BY <2>1, <2>2, <2>3 DEF Leads, ChoiceLeads, KeepsChoice
  <2>5. ref'.fresh # None => \/ due' = "url" /\ ~Bare(q)
                             \/ due' = "no" /\ Bare(q)
    <3>1. ref.fresh # None => Bare(addr.url)
      BY DEF Leads, FreshLeads
    <3> QED BY <2>1, <2>2, <3>1 DEF Bare
  <2>6. FreshLeads'
    BY <2>2, <2>3, <2>5 DEF Leads, FreshLeads, srvVars
  <2> QED BY <2>4, <2>6 DEF Leads, StartsFresh
<1>3. CASE AuthResolves \/ ListAges
  <2>1. UNCHANGED <<srvVars, addr, ui, ref, due, init, sel, used, chosen>>
    BY <1>3 DEF AuthResolves, ListAges
  <2> QED BY <1>1, <2>1, StillLeads DEF SameRun, srvVars
<1>4. CASE HistoryAges
  <2>1. /\ addr' = [addr EXCEPT !.recent = Tail(@)]
        /\ UNCHANGED <<srvVars, ui, ref, due, init, sel, used, chosen>>
    BY <1>4 DEF HistoryAges
  <2>2. addr'.url = addr.url /\ addr'.nav = addr.nav
    BY <1>1, <2>1 DEF AddrOK
  <2> QED BY <1>1, <2>1, <2>2, StillLeads DEF SameRun, srvVars
<1> QED BY <1>2, <1>3, <1>4

LEMMA StreamsLead ==
    ASSUME NavInv, Leads, due = "no", NEW id \in Ids, NEW tk \in Task, StreamDrops(id) \/ HandleChatStarted(id, tk)
    PROVE  Leads' /\ KeepsChoice /\ StartsFresh
<1>1. ui \in UiStates /\ ref \in RefStates /\ AddrOK(addr) /\ stored \cap Spare \subseteq used
  BY DEF NavInv, StatesOK, Leads, FreshLeads
<1>2. CASE StreamDrops(id)
  <2>1. UNCHANGED <<srvVars, addr, ui, ref, due, init, sel, used, chosen>>
    BY <1>2 DEF StreamDrops
  <2> QED BY <1>1, <2>1, StillLeads DEF SameRun, srvVars
<1>3. CASE HandleChatStarted(id, tk)
  <2>1. /\ ref' = [ref EXCEPT !.userNav = TRUE, !.newIds = @ \ {id}]
        /\ ui' = [ui EXCEPT !.active = id, !.shown = id, !.task = IF tk = None THEN @ ELSE tk]
        /\ addr' = SafeReplace(addr, P(id, IF tk = None THEN addr.latest.task ELSE tk))
        /\ chosen' = None /\ UNCHANGED <<stored, due, init, used>>
    BY <1>3 DEF HandleChatStarted
  <2>2. ref'.fresh = ref.fresh /\ ui'.initErr = ui.initErr
    BY <1>1, <2>1 DEF RefStates, UiStates
  <2>3. addr'.url = addr.url
    BY <1>1, <2>1, ReplacedNav
  <2> QED BY <1>1, <2>1, <2>2, <2>3, UnchosenLeads DEF SameRun
<1> QED BY <1>2, <1>3

LEMMA LeadsStarts ==
    ASSUME Init
    PROVE  Leads
<1>1. PICK q \in Params : InitAt(q)
  BY Distinct DEF Init
<1>2. PICK id \in IF Bare(q) THEN Spare ELSE {None} :
        /\ ui = [active |-> id, task |-> q.task, shown |-> Empty, pending |-> None,
                 boot |-> ~Bare(q), initErr |-> FALSE]
        /\ ref = [newIds |-> {}, fresh |-> id, hasBoot |-> FALSE, userNav |-> FALSE]
  BY <1>1 DEF InitAt
<1>3. stored = Stored /\ init = NoRun /\ chosen = None /\ due = "url"
  BY <1>1 DEF InitAt
<1>4. ref.fresh # None => ref.fresh \in Spare
  BY <1>2
<1> QED BY <1>2, <1>3, <1>4, NoRunIs, NavAssumption DEF Leads, ChoiceLeads, FreshLeads

LEMMA LeadsSteps ==
    ASSUME NavInv, Leads, [Next]_vars
    PROVE  Leads' /\ KeepsChoice /\ StartsFresh
<1>1. CASE RunEffect
  BY <1>1, RunEffectLeads
<1>2. CASE due = "no" /\ (User \/ Requests \/ Steps)
  BY <1>2, UserLeads, RequestsLead, StepsLead
<1>3. CASE due = "no" /\ (UrlCommit \/ AuthResolves \/ ListAges \/ HistoryAges)
  BY <1>3, BrowserLeads
<1>4. CASE due = "no" /\ \E id \in Ids : StreamDrops(id) \/ \E tk \in Task : HandleChatStarted(id, tk)
  BY <1>4, StreamsLead, Distinct
<1>5. CASE UNCHANGED vars
  <2>1. UNCHANGED <<stored, addr, ui, ref, due, init, sel, used, chosen>>
    BY <1>5 DEF vars, srvVars
  <2> QED BY <2>1 DEF Leads, ChoiceLeads, FreshLeads, KeepsChoice, StartsFresh
<1> QED BY <1>1, <1>2, <1>3, <1>4, <1>5 DEF Next

\* What the reader chose stays on screen, and the bare address begins a new conversation
\* (useThreadNavigation.ts:260-310, 428-449), however many conversations, clicks and late
\* answers there are.
THEOREM ReaderIsFollowed == Spec => ScreenFollowsReader
<1>1. Init => NavInv /\ Leads
  BY NavigationStarts, LeadsStarts
<1>2. NavInv /\ Leads /\ [Next]_vars => NavInv' /\ Leads'
  BY NavigationSteps, LeadsSteps
<1>3. NavInv /\ Leads /\ [Next]_vars =>
        [chosen # None /\ chosen' = chosen /\ ui.active = chosen => ui'.active = chosen]_vars
  BY LeadsSteps DEF KeepsChoice
<1>4. NavInv /\ Leads /\ [Next]_vars =>
        [due # "no" /\ due' = "no" /\ Bare(addr.url) /\ ui'.active # ui.active
           => ui'.active \notin stored]_vars
  BY LeadsSteps DEF StartsFresh
<1>5. Spec => ChoiceKept
  BY <1>1, <1>2, <1>3, PTL DEF Spec, ChoiceKept
<1>6. Spec => BareStartsFresh
  BY <1>1, <1>2, <1>4, PTL DEF Spec, BareStartsFresh
<1> QED BY <1>5, <1>6 DEF ScreenFollowsReader
=============================================================================
