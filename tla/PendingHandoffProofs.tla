------------------------- MODULE PendingHandoffProofs -------------------------
(***************************************************************************)
(* A message that is carried through sign-in is sent once and where it was *)
(* written, for any number of tabs, messages, threads and pages visited.   *)
(***************************************************************************)
EXTENDS PendingHandoff, FiniteSetTheorems, TLAPS

Scopes == {"workspace", "source"}

Boxes == [on : BOOLEAN, scope : Scopes, task : Tasks \cup {None}, thread : ThreadIds,
          locked : BOOLEAN, asked : BOOLEAN, due : BOOLEAN]

Origins == [on : BOOLEAN, landing : BOOLEAN, tab : Tabs \cup {None}, path : Addresses,
            scope : Scopes, task : Tasks \cup {None}, thread : ThreadIds]

Places == [scope : Scopes, task : Tasks \cup {None}, thread : ThreadIds]

\* The addresses pages have: a conversation is not that of a digest.
Plain == {a \in Addresses : a.page = "chat" => a.task = None}

Typed ==
    /\ store \subseteq Handoffs
    /\ at \in [Tabs -> Plain] /\ back \in [Tabs -> Plain]
    /\ box \in [Tabs -> Boxes]
    /\ auth \in [Tabs -> {"unknown", "in", "out"}] /\ session \in BOOLEAN
    /\ origin \in [Messages -> Origins]
    /\ sent \in [Messages -> Seq(Places)]
    /\ fresh \in 0..MaxFresh /\ visits \in 0..MaxVisits

\* Messages are written one after the other.
InOrder == \E n \in 0..MaxMessages : Written = 1..n

\* Where a message may go: to the place it was written at, from the landing page to a new one.
Fits(m, b) ==
    /\ ~origin[m].landing => /\ b.scope = origin[m].scope /\ b.task = origin[m].task
                             /\ origin[m].thread # None => b.thread = origin[m].thread
    /\ origin[m].landing => b.scope = "workspace" /\ b.thread \notin Threads

\* What the slot says of its message is what was so when it was written, and it is not sent yet.
SlotKept ==
    \A h \in store :
        /\ store = {h}
        /\ origin[h.text].on /\ sent[h.text] = << >>
        /\ ~origin[h.text].landing => /\ h.scope = origin[h.text].scope
                                      /\ h.task = origin[h.text].task
                                      /\ h.thread = origin[h.text].thread
        /\ origin[h.text].landing => h.scope = "workspace" /\ h.thread = None

SentKept ==
    \A m \in Messages :
        /\ ~origin[m].on => sent[m] = << >>
        /\ sent[m] = << >> \/ \E b \in Places : sent[m] = <<b>> /\ Fits(m, b)

HandoffInv == Typed /\ InOrder /\ SlotKept /\ SentKept

-----------------------------------------------------------------------------
(* The state as the types of the run state it. *)

LEMMA InvariantIsEnough ==
    ASSUME HandoffInv
    PROVE  SentOnceWhereWritten
<1>1. TypeOK
  <2>1. Cardinality(store) <= 1
    <3>1. CASE store = {}
      BY <3>1, FS_EmptySet
    <3>2. CASE store # {}
      <4>1. PICK h \in store : store = {h}
        BY <3>2 DEF HandoffInv, SlotKept
      <4> QED BY <4>1, FS_Singleton
    <3> QED BY <3>1, <3>2
  <2>2. at \in [Tabs -> Addresses] /\ back \in [Tabs -> Addresses]
    BY DEF HandoffInv, Typed, Plain
  <2>3. \A t \in Tabs : box[t] \in Boxes
    BY DEF HandoffInv, Typed
  <2>4. \A m \in Messages : origin[m] \in Origins
    BY DEF HandoffInv, Typed
  <2> QED BY <2>1, <2>2, <2>3, <2>4 DEF TypeOK, HandoffInv, Typed, Boxes, Origins, Scopes
<1>2. \A m \in Messages : sent[m] = << >> \/ \E b \in Places : sent[m] = <<b>> /\ Fits(m, b)
  BY DEF HandoffInv, SentKept
<1>3. SentOnce
  <2> SUFFICES ASSUME NEW m \in Messages
               PROVE  Len(sent[m]) <= 1
    BY DEF SentOnce
  <2>1. CASE sent[m] = << >>
    BY <2>1
  <2>2. CASE sent[m] # << >>
    <3>1. PICK b \in Places : sent[m] = <<b>>
      BY <1>2, <2>2
    <3> QED BY <3>1
  <2> QED BY <2>1, <2>2
<1>4. SentWhereWritten
  <2> SUFFICES ASSUME NEW m \in Messages, NEW i \in 1..Len(sent[m])
               PROVE  Fits(m, sent[m][i])
    BY DEF SentWhereWritten, Fits
  <2>1. PICK b \in Places : sent[m] = <<b>> /\ Fits(m, b)
    BY <1>2
  <2>2. sent[m][i] = b
    BY <2>1
  <2> QED BY <2>1, <2>2
<1> QED BY <1>1, <1>3, <1>4 DEF SentOnceWhereWritten

\* The next message is one that has not been written.
LEMMA NextIsNew ==
    ASSUME Typed, InOrder, NextMessage \in Messages
    PROVE  /\ ~origin[NextMessage].on
           /\ Written \cup {NextMessage} = 1..NextMessage
<1>1. PICK n \in 0..MaxMessages : Written = 1..n
  BY DEF InOrder
<1>2. Cardinality(Written) = n
  BY <1>1, FS_Interval
<1>3. NextMessage = n + 1
  BY <1>2 DEF NextMessage
<1>4. NextMessage \notin Written
  BY <1>1, <1>3
<1>5. Written \cup {n + 1} = 1..(n + 1)
  BY <1>1
<1> QED BY <1>3, <1>4, <1>5 DEF Written

-----------------------------------------------------------------------------
(* Pages. *)

LEMMA ProxyPlain ==
    ASSUME NEW a \in Plain, NEW s
    PROVE  Proxy(a, s) \in Plain
BY HandoffAssumption DEF Proxy, Page, Plain, Addresses, ThreadIds

\* A page opens with a container of its own, and only a bare conversation takes a new thread.
LEMMA OpenTyped ==
    ASSUME Typed, NEW t \in Tabs, NEW a \in Plain, NEW s, NEW known \in BOOLEAN, Open(t, a, s, known)
    PROVE  /\ at' \in [Tabs -> Plain] /\ back' \in [Tabs -> Plain]
           /\ box' \in [Tabs -> Boxes]
           /\ auth' \in [Tabs -> {"unknown", "in", "out"}]
           /\ fresh' \in 0..MaxFresh
<1>1. Proxy(a, s) \in Plain
  BY ProxyPlain
<1>2. at' \in [Tabs -> Plain] /\ back' \in [Tabs -> Plain]
  BY <1>1 DEF Open, Typed
<1>3. auth' \in [Tabs -> {"unknown", "in", "out"}]
  BY DEF Open, Typed
<1>4. fresh' \in 0..MaxFresh
  BY HandoffAssumption DEF Open, Typed
<1>5. Mounts(Proxy(a, s), fresh + 1) \in Boxes
  <2>1. CASE Proxy(a, s).page # "chat"
    BY <2>1 DEF Mounts, NoBox, Boxes, Scopes, ThreadIds
  <2>2. CASE Proxy(a, s).page = "chat"
    <3>1. Proxy(a, s) = a
      BY <2>2 DEF Proxy, Page
    <3>2. a.thread \in ThreadIds
      BY DEF Plain, Addresses
    <3>3. a.thread = None => a = Chat(None)
      BY <2>2, <3>1 DEF Plain, Addresses, Chat
    <3>4. a.thread = None => fresh + 1 \in Fresh
      BY <3>3, HandoffAssumption DEF Open, Typed, Fresh
    <3>5. (IF a.thread = None THEN fresh + 1 ELSE a.thread) \in ThreadIds
      BY <3>2, <3>4 DEF ThreadIds
    <3> QED BY <2>2, <3>1, <3>5 DEF Mounts, Box, Boxes, Scopes
  <2> QED BY <2>1, <2>2
<1>6. box' \in [Tabs -> Boxes]
  BY <1>5 DEF Open, Typed
<1> QED BY <1>2, <1>3, <1>4, <1>6

LEMMA PagesPlain ==
    /\ Page("landing") \in Plain /\ Page("login") \in Plain /\ Page("settings") \in Plain
    /\ \A h \in ThreadIds : Chat(h) \in Plain
    /\ \A k \in Tasks : Digest(k) \in Plain
BY HandoffAssumption DEF Page, Chat, Digest, Plain, Addresses, ThreadIds

LEMMA NoBoxTyped == NoBox \in Boxes
BY DEF NoBox, Boxes, Scopes, ThreadIds

LEMMA LoginTyped ==
    ASSUME Typed, NEW t \in Tabs, NEW a \in Plain, HandleLogin(t, a)
    PROVE  at' \in [Tabs -> Plain] /\ back' \in [Tabs -> Plain] /\ box' \in [Tabs -> Boxes]
BY PagesPlain, NoBoxTyped DEF HandleLogin, Typed

\* A step that neither writes, saves nor sends keeps what is known of the messages.
LEMMA MessagesUntouched ==
    ASSUME InOrder, SlotKept, SentKept, UNCHANGED <<store, origin, sent>>
    PROVE  InOrder' /\ SlotKept' /\ SentKept'
BY DEF InOrder, SlotKept, SentKept, Written, Fits

-----------------------------------------------------------------------------
(* The steps. *)

LEMMA StepVisit ==
    ASSUME HandoffInv, NEW t \in Tabs, NEW a \in Visitable, Visit(t, a)
    PROVE  HandoffInv'
<1>1. a \in Plain
  BY PagesPlain DEF Visitable, ThreadIds
<1>2. Open(t, a, session, FALSE)
  BY DEF Visit
<1>3. /\ at' \in [Tabs -> Plain] /\ back' \in [Tabs -> Plain]
      /\ box' \in [Tabs -> Boxes]
      /\ auth' \in [Tabs -> {"unknown", "in", "out"}]
      /\ fresh' \in 0..MaxFresh
  BY <1>1, <1>2, OpenTyped DEF HandoffInv
<1>4. visits' \in 0..MaxVisits
  BY HandoffAssumption DEF HandoffInv, Typed, Visit
<1>5. Typed'
  BY <1>3, <1>4 DEF HandoffInv, Typed, Visit
<1>6. InOrder' /\ SlotKept' /\ SentKept'
  BY MessagesUntouched DEF HandoffInv, Visit
<1> QED BY <1>5, <1>6 DEF HandoffInv

LEMMA StepAuthResolves ==
    ASSUME HandoffInv, NEW t \in Tabs, AuthResolves(t)
    PROVE  HandoffInv'
<1>1. auth' \in [Tabs -> {"unknown", "in", "out"}]
  BY DEF HandoffInv, Typed, AuthResolves
<1>2. box' \in [Tabs -> Boxes]
  <2>1. \A b \in FollowUps(at[t], session) : b \in Boxes
    <3>1. at[t].task \in Tasks \cup {None} /\ at[t].thread \in ThreadIds
      BY DEF HandoffInv, Typed, Plain, Addresses
    <3>2. \A h \in ThreadIds : Box("source", at[t].task, h, FALSE) \in Boxes
      BY <3>1 DEF Box, Boxes, Scopes
    <3> QED BY <3>1, <3>2 DEF FollowUps, ThreadIds
  <2>2. CASE at[t].page = "task"
    BY <2>1, <2>2 DEF HandoffInv, Typed, AuthResolves
  <2>3. CASE at[t].page # "task"
    <3>1. box' = [box EXCEPT ![t].due = @ \/ box[t].on]
      BY <2>3 DEF AuthResolves
    <3>2. (box[t].due \/ box[t].on) \in BOOLEAN /\ box[t] \in Boxes
      BY DEF HandoffInv, Typed, Boxes
    <3> QED BY <3>1, <3>2 DEF HandoffInv, Typed, Boxes
  <2> QED BY <2>2, <2>3
<1>3. Typed'
  BY <1>1, <1>2 DEF HandoffInv, Typed, AuthResolves
<1>4. InOrder' /\ SlotKept' /\ SentKept'
  BY MessagesUntouched DEF HandoffInv, AuthResolves
<1> QED BY <1>3, <1>4 DEF HandoffInv

LEMMA StepReplaceCommits ==
    ASSUME HandoffInv, NEW t \in Tabs, ReplaceCommits(t)
    PROVE  HandoffInv'
<1>1. box[t].thread \in ThreadIds
  BY DEF HandoffInv, Typed, Boxes
<1>2. at' \in [Tabs -> Plain]
  BY <1>1, PagesPlain DEF HandoffInv, Typed, ReplaceCommits
<1>3. Typed'
  BY <1>2 DEF HandoffInv, Typed, ReplaceCommits
<1>4. InOrder' /\ SlotKept' /\ SentKept'
  BY MessagesUntouched DEF HandoffInv, ReplaceCommits
<1> QED BY <1>3, <1>4 DEF HandoffInv

LEMMA StepUnlock ==
    ASSUME HandoffInv, NEW t \in Tabs, Unlock(t)
    PROVE  HandoffInv'
<1>1. box' \in [Tabs -> Boxes]
  BY DEF HandoffInv, Typed, Unlock, Boxes
<1>2. Typed'
  BY <1>1 DEF HandoffInv, Typed, Unlock
<1>3. InOrder' /\ SlotKept' /\ SentKept'
  BY MessagesUntouched DEF HandoffInv, Unlock
<1> QED BY <1>2, <1>3 DEF HandoffInv

LEMMA StepRerender ==
    ASSUME HandoffInv, NEW t \in Tabs, Rerender(t)
    PROVE  HandoffInv'
<1>1. box' \in [Tabs -> Boxes]
  BY DEF HandoffInv, Typed, Rerender, Boxes
<1>2. Typed'
  BY <1>1 DEF HandoffInv, Typed, Rerender
<1>3. InOrder' /\ SlotKept' /\ SentKept'
  BY MessagesUntouched DEF HandoffInv, Rerender
<1> QED BY <1>2, <1>3 DEF HandoffInv

LEMMA StepHandleChatStarted ==
    ASSUME HandoffInv, NEW t \in Tabs, HandleChatStarted(t)
    PROVE  HandoffInv'
<1>1. fresh + 1 \in Fresh /\ fresh' \in 0..MaxFresh
  BY HandoffAssumption DEF HandoffInv, Typed, HandleChatStarted, Fresh
<1>2. box' \in [Tabs -> Boxes]
  BY <1>1 DEF HandoffInv, Typed, HandleChatStarted, Boxes, ThreadIds
<1>3. at' \in [Tabs -> Plain]
  BY <1>1 DEF HandoffInv, Typed, HandleChatStarted, Plain, Addresses, ThreadIds
<1>4. Typed'
  BY <1>1, <1>2, <1>3 DEF HandoffInv, Typed, HandleChatStarted
<1>5. InOrder' /\ SlotKept' /\ SentKept'
  BY MessagesUntouched DEF HandoffInv, HandleChatStarted
<1> QED BY <1>4, <1>5 DEF HandoffInv

LEMMA StepSignIn ==
    ASSUME HandoffInv, NEW t \in Tabs, NEW u \in Tabs, SignIn(u, t)
    PROVE  HandoffInv'
<1>1. RedirectTarget(u) \in Plain
  BY PagesPlain DEF RedirectTarget, HandoffInv, Typed, ThreadIds
<1>2. visits' \in 0..MaxVisits
  BY HandoffAssumption DEF HandoffInv, Typed, SignIn
<1>3. Typed'
  BY <1>1, <1>2, OpenTyped DEF HandoffInv, Typed, SignIn
<1>4. InOrder' /\ SlotKept' /\ SentKept'
  BY MessagesUntouched DEF HandoffInv, SignIn
<1> QED BY <1>3, <1>4 DEF HandoffInv

LEMMA StepOneTap ==
    ASSUME HandoffInv, NEW t \in Tabs, OneTap(t)
    PROVE  HandoffInv'
<1>1. Typed'
  BY DEF HandoffInv, Typed, OneTap
<1>2. InOrder' /\ SlotKept' /\ SentKept'
  BY MessagesUntouched DEF HandoffInv, OneTap
<1> QED BY <1>1, <1>2 DEF HandoffInv

LEMMA StepSignOut ==
    ASSUME HandoffInv, NEW t \in Tabs, SignOut(t)
    PROVE  HandoffInv'
<1>1. visits' \in 0..MaxVisits
  BY HandoffAssumption DEF HandoffInv, Typed, SignOut
<1>2. Typed'
  BY <1>1, PagesPlain, NoBoxTyped DEF HandoffInv, Typed, SignOut
<1>3. InOrder' /\ SlotKept' /\ SentKept'
  BY MessagesUntouched DEF HandoffInv, SignOut
<1> QED BY <1>2, <1>3 DEF HandoffInv

-----------------------------------------------------------------------------
(* Writing: the message is new, and the slot, if it takes it, holds it alone. *)

LEMMA Written1 ==
    ASSUME HandoffInv, NEW t \in Tabs, NEW l \in BOOLEAN,
           NextMessage \in Messages, Write(NextMessage, t, l)
    PROVE  /\ origin' \in [Messages -> Origins]
           /\ InOrder'
           /\ \A m \in Messages : m # NextMessage => origin'[m] = origin[m]
           /\ ~origin[NextMessage].on /\ sent[NextMessage] = << >>
<1> DEFINE m == NextMessage
           o == [on |-> TRUE, landing |-> l, tab |-> t, path |-> at[t],
                 scope |-> box[t].scope, task |-> box[t].task, thread |-> box[t].thread]
<1>1. origin' = [origin EXCEPT ![m] = o]
  BY DEF Write
<1>2. o \in Origins
  BY DEF HandoffInv, Typed, Boxes, Origins, Plain
<1>3. origin' \in [Messages -> Origins]
  BY <1>1, <1>2 DEF HandoffInv, Typed
<1>4. ~origin[m].on /\ Written \cup {m} = 1..m
  BY NextIsNew DEF HandoffInv
<1>5. \A n \in Messages : origin'[n].on <=> n = m \/ origin[n].on
  BY <1>1 DEF HandoffInv, Typed
<1>6. Written' = 1..m
  BY <1>4, <1>5 DEF Written
<1>7. m \in 0..MaxMessages
  BY DEF Messages
<1>8. InOrder'
  BY <1>6, <1>7 DEF InOrder
<1>9. \A n \in Messages : n # m => origin'[n] = origin[n]
  BY <1>1 DEF HandoffInv, Typed
<1>10. sent[m] = << >>
  BY <1>4 DEF HandoffInv, SentKept
<1> QED BY <1>3, <1>4, <1>8, <1>9, <1>10

LEMMA StepHandleHeroSubmit ==
    ASSUME HandoffInv, NEW t \in Tabs, HandleHeroSubmit(t)
    PROVE  HandoffInv'
<1> DEFINE m == NextMessage
           h == [text |-> m, path |-> Chat(None), scope |-> "workspace", task |-> None, thread |-> None]
<1>1. /\ origin' \in [Messages -> Origins]
      /\ InOrder'
      /\ \A n \in Messages : n # m => origin'[n] = origin[n]
      /\ ~origin[m].on /\ sent[m] = << >> /\ m \in Messages
  BY Written1 DEF HandleHeroSubmit
<1>2. origin'[m].on /\ origin'[m].landing
  BY <1>1 DEF HandleHeroSubmit, Write, HandoffInv, Typed
<1>3. store' = {h} /\ sent' = sent
  BY DEF HandleHeroSubmit, SavePendingHandoff
<1>4. None \in ThreadIds /\ Chat(None) \in Plain
  BY PagesPlain DEF ThreadIds
<1>5. h \in Handoffs
  BY <1>1, <1>4 DEF Handoffs, Plain
<1>6. /\ at' \in [Tabs -> Plain] /\ back' \in [Tabs -> Plain]
      /\ box' \in [Tabs -> Boxes]
      /\ auth' \in [Tabs -> {"unknown", "in", "out"}]
      /\ fresh' \in 0..MaxFresh
  <2>1. CASE session
    BY <2>1, <1>4, OpenTyped DEF HandleHeroSubmit, HandoffInv
  <2>2. CASE ~session
    <3>1. HandleLogin(t, Chat(None)) /\ UNCHANGED <<auth, fresh>>
      BY <2>2 DEF HandleHeroSubmit
    <3> QED BY <3>1, <1>4, LoginTyped DEF HandoffInv, Typed
  <2> QED BY <2>1, <2>2
<1>7. Typed'
  BY <1>1, <1>3, <1>5, <1>6 DEF HandoffInv, Typed, HandleHeroSubmit
<1>8. SlotKept'
  BY <1>1, <1>2, <1>3 DEF SlotKept
<1>9. SentKept'
  <2> SUFFICES ASSUME NEW n \in Messages
               PROVE  /\ ~origin'[n].on => sent'[n] = << >>
                      /\ sent'[n] = << >> \/ \E b \in Places : sent'[n] = <<b>> /\ Fits(n, b)'
    BY DEF SentKept
  <2>1. CASE n = m
    BY <2>1, <1>1, <1>3
  <2>2. CASE n # m
    BY <2>2, <1>1, <1>3 DEF HandoffInv, SentKept, Fits
  <2> QED BY <2>1, <2>2
<1> QED BY <1>1, <1>7, <1>8, <1>9 DEF HandoffInv

\* A container sends a message that fits it and has not been sent.
LEMMA SendKeeps ==
    ASSUME HandoffInv, NEW t \in Tabs, NEW m \in Messages, NEW b \in Boxes,
           SendFrom(t, m, b), sent[m] = << >>, origin' \in [Messages -> Origins],
           \A n \in Messages : n # m => origin'[n] = origin[n],
           origin'[m].on,
           Fits(m, b)'
    PROVE  /\ box' \in [Tabs -> Boxes] /\ sent' \in [Messages -> Seq(Places)]
           /\ SentKept'
           /\ \A n \in Messages : n # m => sent'[n] = sent[n]
<1> DEFINE p == [scope |-> b.scope, task |-> b.task, thread |-> b.thread]
<1>1. p \in Places
  BY DEF Boxes, Places
<1>2. box' \in [Tabs -> Boxes]
  BY DEF SendFrom, HandoffInv, Typed, Boxes
<1>3. sent' = [sent EXCEPT ![m] = <<p>>]
  BY DEF SendFrom, HandoffInv, Typed
<1>4. sent' \in [Messages -> Seq(Places)]
  BY <1>1, <1>3 DEF HandoffInv, Typed
<1>5. Fits(m, p)'
  BY DEF Fits
<1>6. \A n \in Messages : n # m => sent'[n] = sent[n]
  BY <1>3 DEF HandoffInv, Typed
<1>7. sent'[m] = <<p>>
  BY <1>3 DEF HandoffInv, Typed
<1>8. SentKept'
  <2> SUFFICES ASSUME NEW n \in Messages
               PROVE  /\ ~origin'[n].on => sent'[n] = << >>
                      /\ sent'[n] = << >> \/ \E q \in Places : sent'[n] = <<q>> /\ Fits(n, q)'
    BY DEF SentKept
  <2>1. CASE n = m
    BY <2>1, <1>1, <1>5, <1>7
  <2>2. CASE n # m
    BY <2>2, <1>6 DEF HandoffInv, SentKept, Fits
  <2> QED BY <2>1, <2>2
<1> QED BY <1>2, <1>4, <1>6, <1>8

LEMMA StepHandleSendMessage ==
    ASSUME HandoffInv, NEW t \in Tabs, HandleSendMessage(t)
    PROVE  HandoffInv'
<1>1. PICK m \in Messages : m = NextMessage
  BY DEF HandleSendMessage
<1>2. PICK b \in Boxes : b = box[t]
  BY DEF HandoffInv, Typed
<1>3. PICK a \in Plain : a = at[t]
  BY DEF HandoffInv, Typed
<1>4. /\ origin' \in [Messages -> Origins]
      /\ InOrder'
      /\ \A n \in Messages : n # m => origin'[n] = origin[n]
      /\ ~origin[m].on /\ sent[m] = << >>
  BY <1>1, Written1 DEF HandleSendMessage
<1>5. /\ origin'[m].on /\ ~origin'[m].landing
      /\ origin'[m].scope = b.scope /\ origin'[m].task = b.task
      /\ origin'[m].thread = b.thread
  BY <1>1, <1>2 DEF HandleSendMessage, Write, HandoffInv, Typed
<1>6. CASE auth[t] = "in"
  <2>1. SendFrom(t, m, b) /\ UNCHANGED <<store, at, back, auth, session, fresh, visits>>
    BY <1>1, <1>2, <1>6 DEF HandleSendMessage
  <2>2. Fits(m, b)'
    BY <1>5 DEF Fits
  <2>3. /\ box' \in [Tabs -> Boxes] /\ sent' \in [Messages -> Seq(Places)]
        /\ SentKept'
        /\ \A n \in Messages : n # m => sent'[n] = sent[n]
    BY <1>4, <1>5, <2>1, <2>2, SendKeeps
  <2>4. Typed'
    BY <1>4, <2>1, <2>3 DEF HandoffInv, Typed
  <2>5. SlotKept'
    BY <1>4, <2>1, <2>3 DEF HandoffInv, SlotKept, Typed, Handoffs
  <2> QED BY <1>4, <2>3, <2>4, <2>5 DEF HandoffInv
<1>7. CASE auth[t] # "in"
  <2> DEFINE h == [text |-> m, path |-> a, scope |-> b.scope, task |-> b.task, thread |-> b.thread]
  <2>1. store' = {h} /\ UNCHANGED <<sent, auth, session, fresh, visits>>
    BY <1>1, <1>2, <1>3, <1>7 DEF HandleSendMessage, SavePendingHandoff
  <2>2. h \in Handoffs
    BY DEF Handoffs, Boxes, Plain, Scopes
  <2>3. at' \in [Tabs -> Plain] /\ back' \in [Tabs -> Plain] /\ box' \in [Tabs -> Boxes]
    <3>1. CASE auth[t] = "out"
      <4>1. HandleLogin(t, a)
        BY <1>3, <1>7, <3>1 DEF HandleSendMessage
      <4> QED BY <4>1, LoginTyped DEF HandoffInv
    <3>2. CASE auth[t] # "out"
      BY <1>7, <3>2 DEF HandleSendMessage, HandoffInv, Typed
    <3> QED BY <3>1, <3>2
  <2>4. Typed'
    BY <1>4, <2>1, <2>2, <2>3 DEF HandoffInv, Typed
  <2>5. SlotKept'
    BY <1>4, <1>5, <2>1 DEF SlotKept
  <2>6. SentKept'
    <3> SUFFICES ASSUME NEW n \in Messages
                 PROVE  /\ ~origin'[n].on => sent'[n] = << >>
                        /\ sent'[n] = << >> \/ \E q \in Places : sent'[n] = <<q>> /\ Fits(n, q)'
      BY DEF SentKept
    <3>1. CASE n = m
      BY <3>1, <1>4, <2>1
    <3>2. CASE n # m
      BY <3>2, <1>4, <2>1 DEF HandoffInv, SentKept, Fits
    <3> QED BY <3>1, <3>2
  <2> QED BY <1>4, <2>4, <2>5, <2>6 DEF HandoffInv
<1> QED BY <1>6, <1>7

\* A container that claims the slot is one its message belongs to; the slot is empty before
\* the message is sent.
LEMMA StepPendingEffect ==
    ASSUME HandoffInv, NEW t \in Tabs, PendingEffect(t)
    PROVE  HandoffInv'
<1>1. PICK b \in Boxes : b = [box[t] EXCEPT !.due = FALSE]
  BY DEF HandoffInv, Typed, Boxes
<1>2. PICK a \in Plain : a = at[t]
  BY DEF HandoffInv, Typed
<1> DEFINE found == {h \in store : ~box[t].locked /\ auth[t] # "unknown" /\ Matches(h, at[t], box[t])}
<1>3. UNCHANGED <<auth, session, origin, fresh, visits>>
  BY DEF PendingEffect
<1>4. CASE found = {} /\ box' = [box EXCEPT ![t] = b] /\ UNCHANGED <<store, sent, at, back>>
  <2>1. Typed'
    BY <1>3, <1>4 DEF HandoffInv, Typed
  <2>2. InOrder' /\ SlotKept' /\ SentKept'
    BY <1>3, <1>4, MessagesUntouched DEF HandoffInv
  <2> QED BY <2>1, <2>2 DEF HandoffInv
<1>5. CASE HandleLogin(t, a) /\ UNCHANGED <<store, sent>>
  <2>1. Typed'
    BY <1>3, <1>5, LoginTyped DEF HandoffInv, Typed
  <2>2. InOrder' /\ SlotKept' /\ SentKept'
    BY <1>3, <1>5, MessagesUntouched DEF HandoffInv
  <2> QED BY <2>1, <2>2 DEF HandoffInv
<1>6. ASSUME NEW h \in found, SendFrom(t, h.text, b), store' = {}, UNCHANGED <<at, back>>
      PROVE  HandoffInv'
  <2>1. PICK m \in Messages : m = h.text
    BY DEF HandoffInv, Typed, Handoffs
  <2>2. /\ origin[m].on /\ sent[m] = << >>
        /\ ~origin[m].landing => /\ h.scope = origin[m].scope
                                  /\ h.task = origin[m].task
                                  /\ h.thread = origin[m].thread
        /\ origin[m].landing => h.scope = "workspace" /\ h.thread = None
    BY <2>1 DEF HandoffInv, SlotKept
  <2>3. /\ h.scope = b.scope /\ h.task = b.task
        /\ h.thread # None => h.thread = b.thread
        /\ b.scope = "workspace" /\ h.thread = None => b.thread = None
    BY <1>1 DEF Matches, HandoffInv, Typed, Boxes
  <2>4. Fits(m, b)'
    BY <1>3, <2>2, <2>3, HandoffAssumption DEF Fits
  <2>5. origin' \in [Messages -> Origins] /\ origin' = origin
    BY <1>3 DEF HandoffInv, Typed
  <2>6. SendFrom(t, m, b)
    BY <1>6, <2>1
  <2>7. /\ box' \in [Tabs -> Boxes] /\ sent' \in [Messages -> Seq(Places)]
        /\ SentKept'
    BY <2>2, <2>4, <2>5, <2>6, SendKeeps
  <2>8. Typed'
    BY <1>3, <1>6, <2>7 DEF HandoffInv, Typed
  <2>9. InOrder' /\ SlotKept'
    BY <1>3, <1>6 DEF HandoffInv, InOrder, SlotKept, Written
  <2> QED BY <2>7, <2>8, <2>9 DEF HandoffInv
<1> QED BY <1>1, <1>2, <1>4, <1>5, <1>6 DEF PendingEffect, ClaimHandoff

-----------------------------------------------------------------------------
LEMMA HandoffInit ==
    ASSUME Init
    PROVE  HandoffInv
<1>1. Typed
  BY PagesPlain, NoBoxTyped, HandoffAssumption
  DEF Init, Typed, Origins, Scopes, ThreadIds, Plain
<1>2. InOrder
  BY HandoffAssumption DEF Init, InOrder, Written
<1>3. SlotKept /\ SentKept
  BY DEF Init, SlotKept, SentKept
<1> QED BY <1>1, <1>2, <1>3 DEF HandoffInv

LEMMA HandoffNext ==
    ASSUME HandoffInv, [Next]_vars
    PROVE  HandoffInv'
<1>1. CASE UNCHANGED vars
  BY <1>1 DEF vars, HandoffInv, Typed, InOrder, SlotKept, SentKept, Written, Fits
<1>2. CASE Next
  BY <1>2, StepVisit, StepAuthResolves, StepReplaceCommits, StepUnlock, StepHandleHeroSubmit,
     StepHandleSendMessage, StepPendingEffect, StepRerender, StepHandleChatStarted, StepSignIn,
     StepOneTap, StepSignOut DEF Next
<1> QED BY <1>1, <1>2

\* The slot holds at most one message, which is unsent and says of itself what was so when it was
\* written; what was sent was sent once and to a place that fits (savePendingHandoff,
\* claimPendingHandoff, the effect of ChatContainer).
THEOREM HandoffInvariant == Spec => []HandoffInv
<1>1. Init => HandoffInv
  BY HandoffInit
<1>2. HandoffInv /\ [Next]_vars => HandoffInv'
  BY HandoffNext
<1> QED BY <1>1, <1>2, PTL DEF Spec

\* A message written before sign-in is claimed by one container and sent once, in the scope, for
\* the source and in the thread it was written in (pending-handoff.ts:29-60,
\* ChatContainer.tsx:438-459), however many tabs, redirects, remounts and sign-outs come between.
THEOREM SentOnceWhereItWasWritten == Spec => []SentOnceWhereWritten
<1>1. HandoffInv => SentOnceWhereWritten
  BY InvariantIsEnough
<1> QED BY <1>1, HandoffInvariant, PTL
=============================================================================
