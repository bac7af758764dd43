--------------------------- MODULE PendingHandoff ---------------------------
(* A message written before the reader is signed in: it is kept in localStorage on the landing
   page, in a conversation or under a digest, carried through the login pages, and sent by the
   first container it belongs to (pending-handoff, HeroSection, ChatContainer, LoginForm,
   GoogleOneTap, the auth callback and the proxy). A message is a number; an address is the
   identity `destination' keeps of it: the page, its source and the thread in its query. *)
EXTENDS Naturals, Sequences, FiniteSets

CONSTANTS
    Tabs, Tasks, Threads,  \* browser tabs, digests, conversations the reader already has
    None,                  \* no task, no thread
    MaxMessages,           \* bound on the messages written
    MaxVisits,             \* bound on the pages opened by hand, links of mails and sign-outs
    MaxFresh               \* bound on the threads made

ASSUME HandoffAssumption ==
    /\ MaxMessages \in Nat \ {0} /\ MaxVisits \in Nat /\ MaxFresh \in Nat
    /\ None \notin Tasks \cup Threads \cup 1..MaxFresh
    /\ Threads \cap 1..MaxFresh = {}     \* a new thread's identifier is new (uuidv4)

Messages  == 1..MaxMessages
Fresh     == 1..MaxFresh
ThreadIds == Threads \cup Fresh \cup {None}
Addresses == [page : {"landing", "login", "chat", "task", "settings"}, task : Tasks \cup {None}, thread : ThreadIds]
Page(p)   == [page |-> p, task |-> None, thread |-> None]
Chat(h)   == [page |-> "chat", task |-> None, thread |-> h]
Digest(k) == [page |-> "task", task |-> k, thread |-> None]
\* The container of a page: none, or what it was given, whether it is locked, whether it has sent
\* a message, and whether its effect on the pending message has still to run.
NoBox == [on |-> FALSE, scope |-> "workspace", task |-> None, thread |-> None, locked |-> FALSE,
          asked |-> FALSE, due |-> FALSE]

VARIABLES
    store,    \* localStorage: at most one handoff
    at,       \* per tab, its address
    back,     \* per tab, where the login page returns to
    box,      \* per tab, its ChatContainer
    auth,     \* per tab, isAuthenticated: "unknown", "in" or "out"
    session,  \* the browser holds a session
    origin,   \* per message, where it was written; on = FALSE until then
    sent,     \* per message, the containers it was sent from
    fresh, visits

vars == <<store, at, back, box, auth, session, origin, sent, fresh, visits>>

Handoffs == [text : Messages, path : Addresses, scope : {"workspace", "source"},
             task : Tasks \cup {None}, thread : ThreadIds]

TypeOK ==
    /\ store \subseteq Handoffs /\ Cardinality(store) <= 1
    /\ at \in [Tabs -> Addresses] /\ back \in [Tabs -> Addresses]
    /\ \A t \in Tabs : box[t].on \in BOOLEAN /\ box[t].scope \in {"workspace", "source"}
                       /\ box[t].task \in Tasks \cup {None} /\ box[t].thread \in ThreadIds
                       /\ {box[t].locked, box[t].asked, box[t].due} \subseteq BOOLEAN
    /\ auth \in [Tabs -> {"unknown", "in", "out"}] /\ session \in BOOLEAN
    /\ \A m \in Messages : origin[m].on \in BOOLEAN /\ origin[m].landing \in BOOLEAN
    /\ fresh \in 0..MaxFresh /\ visits \in 0..MaxVisits

Written == {m \in Messages : origin[m].on}
\* The next message to be written.
NextMessage == Cardinality(Written) + 1

-----------------------------------------------------------------------------
(* lib/pending-handoff.ts *)

\* Mutant: messages pile up in the slot.
SaveBehind(m, path, scope, task, thread) ==
    store' = store \cup {[text |-> m, path |-> path, scope |-> scope, task |-> task, thread |-> thread]}

\* savePendingHandoff: the newest message takes the slot.
SavePendingHandoff(m, path, scope, task, thread) ==
    store' = {[text |-> m, path |-> path, scope |-> scope, task |-> task, thread |-> thread]}

\* Mutant: the thread a message was written in is not compared.
MatchesAnyThread(h, path, b) ==
    /\ h.scope = b.scope /\ h.task = b.task
    /\ h.path.page = path.page /\ h.path.task = path.task

\* matchingPendingHandoff, for the handoffs this version writes: same scope, address and task, the
\* thread the message names, and in the workspace no existing thread for one that names none.
Matches(h, path, b) ==
    /\ h.scope = b.scope /\ h.path = path /\ h.task = b.task
    /\ h.thread # None => h.thread = b.thread
    /\ b.scope = "workspace" /\ h.thread = None => b.thread = None

-----------------------------------------------------------------------------
(* Pages. *)

Box(scope, task, thread, locked) ==
    [on |-> TRUE, scope |-> scope, task |-> task, thread |-> thread, locked |-> locked,
     asked |-> FALSE, due |-> TRUE]

\* The container a page mounts at once: the workspace, a bare address with the fresh thread n.
Mounts(a, n) ==
    IF a.page = "chat"
    THEN Box("workspace", None, IF a.thread = None THEN n ELSE a.thread, a.thread \in Threads)
    ELSE NoBox

\* TaskFollowUp: a digest has its container once the session is known, on the thread of the
\* address or, for a signed-in reader, on the latest one of the task, if it is found.
FollowUps(a, signedIn) ==
    {Box("source", a.task, h, FALSE) :
        h \in IF a.thread # None THEN {a.thread} ELSE IF signedIn THEN Threads \cup {None} ELSE {None}}

\* The proxy: which address a request for a gets, with the session its cookie carries.
Proxy(a, s) == IF a.page = "settings" /\ ~s THEN Page("login") ELSE a

\* Opening address a in tab t, with or without what the tab already knows of the session.
Open(t, a, s, known) ==
    /\ at' = [at EXCEPT ![t] = Proxy(a, s)]
    /\ back' = [back EXCEPT ![t] = IF Proxy(a, s) # a THEN a ELSE @]
    /\ box' = [box EXCEPT ![t] = Mounts(Proxy(a, s), fresh + 1)]
    /\ a = Chat(None) => fresh < MaxFresh
    /\ fresh' = IF a = Chat(None) THEN fresh + 1 ELSE fresh
    /\ auth' = [auth EXCEPT ![t] = IF known THEN @ ELSE "unknown"]

\* handleLogin: to the login page, with the way back; the router keeps what the tab knows.
HandleLogin(t, next) ==
    /\ at' = [at EXCEPT ![t] = Page("login")]
    /\ back' = [back EXCEPT ![t] = next]
    /\ box' = [box EXCEPT ![t] = NoBox]

Visit(t, a) ==
    /\ visits < MaxVisits /\ visits' = visits + 1
    /\ Open(t, a, session, FALSE)
    /\ UNCHANGED <<store, session, origin, sent>>

\* The tab learns the session, at its first read (useAuth) or from an event of another tab
\* (AccountSessionSync); its container runs its effect again, a digest gets its container.
AuthResolves(t) ==
    LET now == IF session THEN "in" ELSE "out"
    IN  /\ auth[t] # now
        /\ auth' = [auth EXCEPT ![t] = now]
        /\ IF at[t].page = "task"
           THEN \E b \in FollowUps(at[t], session) : box' = [box EXCEPT ![t] = b]
           ELSE box' = [box EXCEPT ![t].due = @ \/ box[t].on]
        /\ UNCHANGED <<store, at, back, session, origin, sent, fresh, visits>>

\* useThreadNavigation puts the thread of a bare page into the address.
ReplaceCommits(t) ==
    /\ at[t] = Chat(None) /\ box[t].on
    /\ at' = [at EXCEPT ![t] = Chat(box[t].thread)]
    /\ UNCHANGED <<store, back, box, auth, session, origin, sent, fresh, visits>>

\* The history of an existing thread has arrived.
Unlock(t) ==
    /\ box[t].locked
    /\ box' = [box EXCEPT ![t].locked = FALSE, ![t].due = TRUE]
    /\ UNCHANGED <<store, at, back, auth, session, origin, sent, fresh, visits>>

-----------------------------------------------------------------------------
(* Writing, claiming and sending. *)

Write(m, t, landing) ==
    origin' = [origin EXCEPT ![m] = [on |-> TRUE, landing |-> landing, tab |-> t, path |-> at[t],
                                     scope |-> box[t].scope, task |-> box[t].task, thread |-> box[t].thread]]

\* sendMessageToApi, from the container of tab t.
SendFrom(t, m, b) ==
    /\ sent' = [sent EXCEPT ![m] = Append(@, [scope |-> b.scope, task |-> b.task, thread |-> b.thread])]
    /\ box' = [box EXCEPT ![t] = [b EXCEPT !.asked = TRUE]]

\* handleHeroSubmit: the message is saved first, then the account decides between chat and login.
HandleHeroSubmit(t) ==
    /\ at[t].page = "landing" /\ NextMessage \in Messages
    /\ Write(NextMessage, t, TRUE)
    /\ SavePendingHandoff(NextMessage, Chat(None), "workspace", None, None)
    /\ IF session THEN Open(t, Chat(None), session, TRUE)
       ELSE HandleLogin(t, Chat(None)) /\ UNCHANGED <<auth, fresh>>
    /\ UNCHANGED <<session, sent, visits>>

\* handleSendMessage; React has run the effects of the last render before it hands over an event.
HandleSendMessage(t) ==
    /\ box[t].on /\ ~box[t].locked /\ ~box[t].due /\ NextMessage \in Messages
    /\ Write(NextMessage, t, FALSE)
    /\ IF auth[t] = "in"
       THEN SendFrom(t, NextMessage, box[t]) /\ UNCHANGED <<store, at, back>>
       ELSE /\ SavePendingHandoff(NextMessage, at[t], box[t].scope, box[t].task, box[t].thread)
            /\ IF auth[t] = "out" THEN HandleLogin(t, at[t]) ELSE UNCHANGED <<at, back, box>>
            /\ UNCHANGED sent
    /\ UNCHANGED <<auth, session, fresh, visits>>

\* Mutant: the handoff is sent and left in its slot.
KeepHandoff == store

\* Claimed synchronously, before it is sent.
ClaimHandoff == {}

\* The effect on the pending message: it runs when the session, the lock or the thread changes.
PendingEffect(t) ==
    LET done == [box[t] EXCEPT !.due = FALSE]
        found == {h \in store : ~box[t].locked /\ auth[t] # "unknown" /\ Matches(h, at[t], box[t])}
    IN  /\ box[t].on /\ box[t].due
        /\ \/ found = {} /\ box' = [box EXCEPT ![t] = done] /\ UNCHANGED <<store, sent, at, back>>
           \/ found # {} /\ auth[t] = "out" /\ HandleLogin(t, at[t]) /\ UNCHANGED <<store, sent>>
           \/ /\ auth[t] = "in"
              /\ \E h \in found : SendFrom(t, h.text, done)
              /\ store' = ClaimHandoff
              /\ UNCHANGED <<at, back>>
        /\ UNCHANGED <<auth, session, origin, fresh, visits>>

\* A render gives the container a new handleSendMessage, on which the effect depends too.
Rerender(t) ==
    /\ box[t].on /\ ~box[t].due /\ store # {}
    /\ box' = [box EXCEPT ![t].due = TRUE]
    /\ UNCHANGED <<store, at, back, auth, session, origin, sent, fresh, visits>>

\* handleChatStarted of a digest: the thread its container made goes into the address.
HandleChatStarted(t) ==
    /\ box[t].scope = "source" /\ box[t].asked /\ ~box[t].due /\ box[t].thread = None /\ fresh < MaxFresh
    /\ fresh' = fresh + 1
    /\ box' = [box EXCEPT ![t].thread = fresh + 1, ![t].due = TRUE]
    /\ at' = [at EXCEPT ![t].thread = fresh + 1]
    /\ UNCHANGED <<store, back, auth, session, origin, sent, visits>>

-----------------------------------------------------------------------------
(* Signing in. *)

\* Mutant: signing in always leads to a new conversation.
RedirectHome(t) == Chat(None)

\* Where LoginForm and the callback go: the safe return path, or a new conversation.
RedirectTarget(t) == IF back[t].page = "login" THEN Chat(None) ELSE back[t]

\* A sign-in begun in tab u is completed in tab t by a full page load: in the same tab with a
\* password or a provider, in any tab with the link of a mail.
SignIn(u, t) ==
    /\ at[u].page = "login"
    /\ IF u = t THEN UNCHANGED visits ELSE visits < MaxVisits /\ visits' = visits + 1
    /\ session' = TRUE
    /\ Open(t, RedirectTarget(u), TRUE, FALSE)
    /\ UNCHANGED <<store, origin, sent>>

\* Google One Tap signs in where the reader is.
OneTap(t) ==
    /\ at[t].page = "landing" /\ auth[t] = "out" /\ ~session
    /\ session' = TRUE /\ auth' = [auth EXCEPT ![t] = "in"]
    /\ UNCHANGED <<store, at, back, box, origin, sent, fresh, visits>>

\* Signing out leads to the landing page.
SignOut(t) ==
    /\ session /\ auth[t] = "in" /\ visits < MaxVisits /\ visits' = visits + 1
    /\ session' = FALSE /\ auth' = [auth EXCEPT ![t] = "out"]
    /\ at' = [at EXCEPT ![t] = Page("landing")] /\ box' = [box EXCEPT ![t] = NoBox]
    /\ UNCHANGED <<store, back, origin, sent, fresh>>

-----------------------------------------------------------------------------
Init ==
    /\ store = {} /\ session \in BOOLEAN
    /\ at = [t \in Tabs |-> Page("landing")] /\ back = [t \in Tabs |-> Page("login")]
    /\ box = [t \in Tabs |-> NoBox] /\ auth = [t \in Tabs |-> "unknown"]
    /\ origin = [m \in Messages |-> [on |-> FALSE, landing |-> FALSE, tab |-> None, path |-> Page("landing"),
                                     scope |-> "workspace", task |-> None, thread |-> None]]
    /\ sent = [m \in Messages |-> <<>>]
    /\ fresh = 0 /\ visits = 0

Visitable == {Page("landing"), Page("settings"), Chat(None)}
             \cup {Chat(h) : h \in Threads} \cup {Digest(k) : k \in Tasks}

Next == \E t \in Tabs :
    \/ \E a \in Visitable : Visit(t, a)
    \/ AuthResolves(t) \/ ReplaceCommits(t) \/ Unlock(t)
    \/ HandleHeroSubmit(t) \/ HandleSendMessage(t) \/ PendingEffect(t)
    \/ Rerender(t) \/ HandleChatStarted(t)
    \/ \E u \in Tabs : SignIn(u, t)
    \/ OneTap(t) \/ SignOut(t)

Spec == Init /\ [][Next]_vars

\* The browser runs effects, answers and navigations it has started, and a reader on the login
\* page signs in; nobody has to write or to open a page.
Fairness == \A t \in Tabs :
    /\ WF_vars(AuthResolves(t)) /\ WF_vars(ReplaceCommits(t)) /\ WF_vars(Unlock(t))
    /\ WF_vars(PendingEffect(t)) /\ WF_vars(SignIn(t, t))

FairSpec == Spec /\ Fairness

-----------------------------------------------------------------------------
(* Properties. *)

\* A message is sent at most once, by whichever tab or container claims it.
SentOnce == \A m \in Messages : Len(sent[m]) <= 1

\* A message is sent only where it was written: same scope, same source, the thread it was
\* written in; one from the landing page never into a conversation that already exists (it is
\* sent nowhere as the code is: LandingIsSent).
SentWhereWritten ==
    \A m \in Messages : \A i \in 1..Len(sent[m]) :
        LET o == origin[m]
            b == sent[m][i]
        IN  /\ ~o.landing => b.scope = o.scope /\ b.task = o.task /\ (o.thread # None => b.thread = o.thread)
            /\ o.landing => b.scope = "workspace" /\ b.thread \notin Threads

Pending(m) == \E h \in store : h.text = m

\* The message was sent, or it had to leave the slot to one written after it.
SentOrReplaced(m) == sent[m] # <<>> \/ \E k \in Written : k > m

\* The tab in which message m waits is on the page the message belongs to, or on the login page
\* with that page to return to.
WaitsAt(m, belongs(_)) ==
    LET t == origin[m].tab
    IN  Pending(m) /\ (belongs(at[t]) \/ (at[t].page = "login" /\ belongs(back[t])))

\* Such a message, written in a conversation or under a digest that had its address by then.
Returning(m) ==
    ~origin[m].landing /\ origin[m].path # Chat(None) /\ WaitsAt(m, LAMBDA p : p = origin[m].path)

\* A message that a guest wrote in a conversation with an address, or under a digest, is sent once
\* the reader has been through login: login leads back to the page it was written on, and the
\* container there sends it. The reader may still open another page or write another message
\* first (ChatContainer's effect, LoginForm, the callback). A message of the landing page, or of a
\* bare /chat whose thread was not in the address yet, is not among them: see LandingIsSent.
WrittenIsSent ==
    \A m \in Messages : \A n \in 0..MaxVisits :
        (Returning(m) /\ visits = n) ~> (SentOrReplaced(m) \/ visits > n)

\* A message of the landing page belongs to a new conversation.
StartsNew(m) ==
    origin[m].landing /\ WaitsAt(m, LAMBDA p : p.page = "chat" /\ p.thread \notin Threads)

\* A message written on the landing page is sent once the reader is signed in and in a new
\* conversation ("The Agent will continue with this exact link inside your account",
\* i18n-messages.ts:101; "A landing submission belongs to a new conversation",
\* pending-handoff.ts:57). The code breaks this: a new conversation has its thread's identifier
\* before its container looks for the message, and line 58 refuses any container that has one.
LandingIsSent ==
    \A m \in Messages : \A n \in 0..MaxVisits :
        (StartsNew(m) /\ visits = n) ~> (SentOrReplaced(m) \/ visits > n)

\* A message carried through login is sent once, and only where it was written
\* (pending-handoff.ts:29-60, ChatContainer.tsx:438-459).
SentOnceWhereWritten == TypeOK /\ SentOnce /\ SentWhereWritten
=============================================================================
