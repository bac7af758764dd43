--------------------------- MODULE LibrarySearch ---------------------------
(* The library page's search box, source filter, topic links, clear and load-more links,
   and browser history (components/templates/CommunityTemplates.tsx, rendered by
   explore/page.tsx and topics/[topic]/page.tsx).

   The reader's choices live in one piece of React state, queryInput (`box`); what the
   server rendered last arrives as props (`shown`).  A choice becomes a router navigation
   (`pending`), at once or 220 ms after the last keystroke, and its answer arrives while
   the reader goes on.  The router is Next's: a navigation that starts discards the one
   in flight, an answer with the same path re-renders the component, an answer with
   another path mounts a new one.                                                       *)
EXTENDS Integers, Sequences, FiniteSets

CONSTANTS
  Paths,         \* the explore page and the topic pages
  Sources,       \* shows of the source filter, without "all"
  Words,         \* search words, without the empty query
  Home,          \* the path of /explore, where plain links lead
  MaxPage,       \* MAX_PAGE of the server, Math.min(page, 20) of the links
  MaxRemembered, \* submittedHrefs.slice(-31) and the new one: 32 in the code
  MaxHistory,    \* bound: entries of the browser history
  MaxMoves       \* bound: acts of the reader

ASSUME LibraryAssumption ==
  /\ Home \in Paths
  /\ MaxPage \in Nat \ {0} /\ MaxRemembered \in Nat \ {0}
  /\ MaxHistory \in Nat \ {0} /\ MaxMoves \in Nat

VARIABLES
  shown,     \* the request the server rendered: initialSource, initialQuery, page, pathname
  box,       \* queryInput: [path, source, draft, submitted, last]; observedHref is `shown`
  pending,   \* the navigation the router is waiting for, a Push, Replace or Pop; or None
  hist, at,  \* the browser's history entries and the current one
  onPage,    \* FALSE once a digest was opened and committed
  moves,     \* bound on the reader's acts
  stray      \* history: a link outside the component led to a request

libraryVars == <<shown, box, pending, hist, at, onPage, moves, stray>>

None == [kind |-> "none"]
Empty == ""

\* A draft is what the input holds: a word, or nothing, and possibly blanks around it.
Drafts == [word : Words \cup {Empty}, blanks : BOOLEAN]
Exactly(w) == [word |-> w, blanks |-> FALSE]

\* A parsed library href; buildLibraryHref trims the query and caps the page.
Requests ==
  [path : Paths, source : Sources \cup {"all"}, query : Words \cup {Empty},
   page : 1..MaxPage]

BuildLibraryHref(path, source, draft, page) ==
  [path |-> path, source |-> source, query |-> draft.word,
   page |-> IF page > MaxPage THEN MaxPage ELSE page]

\* Mutant: the cap of submittedHrefs is dropped.
RememberAll(sent, r) == Append(sent, r)

\* submittedHrefs: [...slice(-31), href]
Remember(sent, r) ==
  LET all == Append(sent, r)
  IN  IF Len(all) > MaxRemembered THEN Tail(all) ELSE all

\* submittedHrefs.filter((href) => href !== r)
Without(sent, r) ==
  LET others[n \in 0..Len(sent)] ==
        IF n = 0 THEN << >>
        ELSE IF sent[n] = r THEN others[n - 1] ELSE Append(others[n - 1], sent[n])
  IN  others[Len(sent)]

MountBox(r) ==
  [path |-> r.path, source |-> r.source, draft |-> Exactly(r.query),
   submitted |-> << >>, last |-> None]

LibraryInit ==
  /\ shown \in {r \in Requests : r.path = Home /\ r.page = 1 /\ r.query = Empty}
  /\ box = MountBox(shown)
  /\ pending = None
  /\ hist = <<shown>> /\ at = 1
  /\ onPage = TRUE /\ moves = 0 /\ stray = FALSE

-----------------------------------------------------------------------------
(* What the search effect computes after every render.                          *)

NextHref == BuildLibraryHref(box.path, box.source, box.draft, 1)

IsCurrentSearch ==
  box.draft.word = shown.query /\ box.source = shown.source /\ box.path = shown.path

\* The effect leaves a 220 ms timer running.
Due == onPage /\ ~IsCurrentSearch /\ NextHref /= box.last

\* The timer of the last render fires: remember the request and replace the URL.
SearchFires ==
  /\ Due
  /\ box' = [box EXCEPT !.submitted = Remember(@, NextHref), !.last = NextHref]
  /\ pending' = [kind |-> "replace", to |-> NextHref]
  /\ UNCHANGED <<shown, hist, at, onPage, moves, stray>>

-----------------------------------------------------------------------------
(* The reader.                                                                  *)

Move == onPage /\ moves < MaxMoves /\ moves' = moves + 1

TypeDraft(d) ==
  /\ Move /\ d /= box.draft
  /\ box' = [box EXCEPT !.draft = d, !.last = None]
  /\ UNCHANGED <<shown, pending, hist, at, onPage, stray>>

\* prepareLibraryNavigation: the running timer is cleared and the box shows the target.
Prepared(r) ==
  [path |-> r.path, source |-> r.source, draft |-> Exactly(r.query),
   submitted |-> Remember(box.submitted, r), last |-> r]

PrepareLibraryNavigation(r) ==
  /\ box' = Prepared(r)
  /\ pending' = [kind |-> "push", to |-> r]
  /\ UNCHANGED <<shown, hist, at, onPage, stray>>

FilterSource(s) ==
  Move /\ s /= box.source
  /\ PrepareLibraryNavigation(BuildLibraryHref(box.path, s, box.draft, 1))

FollowTopic(p) ==
  Move /\ PrepareLibraryNavigation(BuildLibraryHref(p, "all", box.draft, 1))

ClearFilters ==
  /\ Move /\ (box.source /= "all" \/ shown.query /= Empty)
  /\ PrepareLibraryNavigation(BuildLibraryHref(shown.path, "all", Exactly(Empty), 1))

\* The link is there only when the server found more than the pages shown.
LoadMore ==
  /\ Move /\ shown.page < MaxPage
  /\ PrepareLibraryNavigation(
       BuildLibraryHref(shown.path, box.source, Exactly(shown.query), shown.page + 1))

\* cancelPendingSearch: the pending search must not replace the digest's navigation.
OpenDigest ==
  /\ Move
  /\ box' = [box EXCEPT !.last = NextHref]
  /\ pending' = [kind |-> "digest"]
  /\ UNCHANGED <<shown, hist, at, onPage, stray>>

\* A link of the page header: no handler of this component runs.
FollowLink ==
  LET r == BuildLibraryHref(Home, "all", Exactly(Empty), 1)
  IN  /\ Move
      /\ pending' = [kind |-> "push", to |-> r]
      /\ stray' = TRUE
      /\ UNCHANGED <<shown, box, hist, at, onPage>>

\* Back or forward: the URL changes at once, syncHistoryQuery takes the box to it and the
\* router restores the page.
SyncHistoryQuery(i) ==
  LET r == hist[i]
  IN  /\ Move /\ i /= at
      /\ at' = i
      /\ box' = [path |-> r.path, source |-> r.source, draft |-> Exactly(r.query),
                 submitted |-> <<r>>, last |-> r]
      /\ pending' = [kind |-> "pop", to |-> r]
      /\ UNCHANGED <<shown, hist, onPage, stray>>

-----------------------------------------------------------------------------
(* The router's answer.                                                         *)

\* Mutant: only the latest request counts as the component's own.
ObserveLastOnly(r) ==
  IF box.last = r
    THEN [box EXCEPT !.submitted = Without(@, r)]
    ELSE MountBox(r)

\* Mutant: an own answer marks what the box holds by now as submitted.
ObserveForgetsDraft(r) ==
  IF \E i \in DOMAIN box.submitted : box.submitted[i] = r
    THEN [box EXCEPT !.submitted = Without(@, r), !.last = NextHref]
    ELSE MountBox(r)

\* What the render makes of a new initialHref: its own request's answer keeps the
\* reader's choices, any other request replaces them.
Observe(r) ==
  IF \E i \in DOMAIN box.submitted : box.submitted[i] = r
    THEN [box EXCEPT !.submitted = Without(@, r)]
    ELSE MountBox(r)

Rendered(r) ==
  CASE r = shown            -> box
    [] r.path /= shown.path -> MountBox(r)
    [] OTHER                -> Observe(r)

Entered(n) ==
  CASE n.kind = "push"    -> Append(SubSeq(hist, 1, at), n.to)
    [] n.kind = "replace" -> [hist EXCEPT ![at] = n.to]
    [] n.kind = "pop"     -> hist

Commit ==
  /\ pending.kind \in {"push", "replace", "pop"}
  /\ pending.kind = "push" => at < MaxHistory
  /\ hist' = Entered(pending)
  /\ at' = IF pending.kind = "push" THEN at + 1 ELSE at
  /\ shown' = pending.to
  /\ box' = Rendered(pending.to)
  /\ pending' = None
  /\ UNCHANGED <<onPage, moves, stray>>

Leave ==
  /\ pending.kind = "digest"
  /\ onPage' = FALSE /\ pending' = None
  /\ UNCHANGED <<shown, box, hist, at, moves, stray>>

LibraryNext ==
  \/ \E d \in Drafts : TypeDraft(d)
  \/ \E s \in Sources \cup {"all"} : FilterSource(s)
  \/ \E p \in Paths : FollowTopic(p)
  \/ ClearFilters \/ LoadMore \/ OpenDigest \/ FollowLink
  \/ \E i \in DOMAIN hist : SyncHistoryQuery(i)
  \/ SearchFires \/ Commit \/ Leave

LibrarySpec == LibraryInit /\ [][LibraryNext]_libraryVars

-----------------------------------------------------------------------------
(* Properties.                                                                  *)

LibraryTypeOK ==
  /\ shown \in Requests
  /\ box.path \in Paths /\ box.source \in Sources \cup {"all"} /\ box.draft \in Drafts
  /\ box.last \in Requests \cup {None}
  /\ Len(box.submitted) <= MaxRemembered
  /\ at \in DOMAIN hist /\ Len(hist) <= MaxHistory

\* The list answers the box: with no navigation in flight and no timer running, the page
\* shows what the query input and the filter say, unless a link outside the component
\* was followed (its request may be taken for an answer to a superseded search).
ListAnswersBox ==
  (onPage /\ pending = None /\ ~Due /\ ~stray) =>
    IsCurrentSearch

\* "a delayed response cannot undo a newer query or filter" (CommunityTemplates.tsx:655):
\* an answer on the same path leaves the draft and the filter as the reader set them.
NewerChoiceKept ==
  [][(Commit /\ ~stray /\ shown'.path = shown.path) =>
       (box'.draft = box.draft /\ box'.source = box.source)]_libraryVars

\* Searches, filters and history entries that overtake each other leave the box and the list
\* in agreement, and the newer choice standing (CommunityTemplates.tsx:655-743).
BoxAndListAgree == []LibraryTypeOK /\ []ListAnswersBox /\ NewerChoiceKept
=============================================================================
