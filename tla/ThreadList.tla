----------------------------- MODULE ThreadList -----------------------------
(***************************************************************************)
(* The list of conversations: the rows of chat_threads, the query cache    *)
(* that holds what a browser last read of them, and the two surfaces that  *)
(* show it, the sidebar of a wide window (AppSidebar.tsx) and the drawer of *)
(* a narrow one (MobileMenuDrawer.tsx).  The list is read by one request at *)
(* a time; a conversation is archived or restored by a PATCH whose answer  *)
(* is written into the cached list; both race with each other and with the *)
(* turns accepted from this or another tab.                                *)
(***************************************************************************)
EXTENDS Integers, FiniteSets, Sequences
LOCAL INSTANCE SequencesExt

CONSTANTS
    Threads,        \* the conversations the account may have
    Nobody,         \* no conversation, or one that is not in the list
    Batch,          \* THREAD_LIST_BATCH_SIZE (20 in the code)
    MaxWrites,      \* bound: writes of chat_threads
    MaxListFaults   \* bound: requests that fail

ASSUME ThreadListAssumption ==
    /\ Nobody \notin Threads
    /\ Batch \in Nat \ {0}
    /\ MaxWrites \in Nat
    /\ MaxListFaults \in Nat

VARIABLES
    rows,       \* chat_threads: [status, at] of every conversation; at = 0 before it exists
    written,    \* writes so far: the clock of updated_at
    list,       \* the cached list, as the last read or PATCH left it
    read,       \* the request of the list under way: none, asked or its answer
    patches,    \* the PATCH requests under way
    picked,     \* the conversation the navigation selects
    surface,    \* which surface the window shows
    opened,     \* the sidebar is expanded, or the drawer open
    chatsOpen, archivedOpen,    \* the two sections unfolded
    visible,    \* visibleCount of each section
    unseen,     \* ghost: some write may be missing from the cached list
    listFaults

listVars == <<rows, written, list, read, patches, picked, surface, opened,
              chatsOpen, archivedOpen, visible, unseen, listFaults>>
serverVars == <<rows, written>>
surfaceVars == <<surface, opened, chatsOpen, archivedOpen, visible>>

Sections == {"active", "archived"}
NoRead   == [phase |-> "none"]
Asked    == [phase |-> "asked"]

-----------------------------------------------------------------------------
(* What the server answers *)

Item(t) == [id |-> t, status |-> rows[t].status, at |-> rows[t].at]

\* sortThreadsByUpdatedAt and the ORDER BY of the route: newest first.
NewestFirst(items) == SetToSortSeq(items, LAMBDA x, y : x.at > y.at)

\* The mutant that lists deleted conversations.
ThreadsGetAll == NewestFirst({Item(t) : t \in {u \in Threads : rows[u].at > 0}})

\* The body of GET /api/threads: every conversation that is not deleted.
ThreadsGet == NewestFirst({Item(t) : t \in {u \in Threads : rows[u].at > 0 /\ rows[u].status # "deleted"}})

\* One write of a row; it moves updated_at.
WriteRow(t, s) ==
    /\ written < MaxWrites
    /\ written' = written + 1
    /\ rows' = [rows EXCEPT ![t] = [status |-> s, at |-> written + 1]]

\* The answer of a PATCH is still to be applied.
Overtaking == \E p \in patches : p.answer # Nobody

\* A write may go missing from the cached list when the answer of an earlier
\* read or PATCH is still to be applied.
Overtaken == read.phase = "answered" \/ Overtaking

-----------------------------------------------------------------------------
(* The rows *)

\* A turn is accepted in a conversation, from this tab or another one: the
\* row is created, or made active again; a deleted one is refused.
AcceptTurnIn(t) ==
    /\ rows[t].status # "deleted"
    /\ WriteRow(t, "active")
    /\ unseen' = TRUE
    /\ UNCHANGED <<list, read, patches, picked, listFaults>>
    /\ UNCHANGED surfaceVars

\* DELETE /api/threads/[id] from another tab: a soft deletion, whatever the
\* status was.
DeleteThread(t) ==
    /\ rows[t].at > 0
    /\ WriteRow(t, "deleted")
    /\ unseen' = TRUE
    /\ UNCHANGED <<list, read, patches, picked, listFaults>>
    /\ UNCHANGED surfaceVars

-----------------------------------------------------------------------------
(* The reads: the first one, a retry, the return of the focus to a stale   *)
(* list, the end of a turn.  One request serves all of them.               *)

FetchThreads ==
    /\ read.phase = "none"
    /\ read' = Asked
    /\ UNCHANGED <<rows, written, list, patches, picked, unseen, listFaults>>
    /\ UNCHANGED surfaceVars

ListAnswered ==
    /\ read.phase = "asked"
    /\ read' = [phase |-> "answered", items |-> ThreadsGet]
    /\ UNCHANGED <<rows, written, list, patches, picked, unseen, listFaults>>
    /\ UNCHANGED surfaceVars

\* The answer replaces the list: it holds every write so far unless one came
\* after it was read, or the answer of an older PATCH is still to be applied.
ListArrives ==
    /\ read.phase = "answered"
    /\ list' = read.items
    /\ unseen' = (read.items # ThreadsGet \/ Overtaking)
    /\ read' = NoRead
    /\ UNCHANGED <<rows, written, patches, picked, listFaults>>
    /\ UNCHANGED surfaceVars

\* A failed read keeps the list that was cached.
ListReadFails ==
    /\ read.phase # "none"
    /\ listFaults < MaxListFaults
    /\ listFaults' = listFaults + 1
    /\ read' = NoRead
    /\ UNCHANGED <<rows, written, list, patches, picked, unseen>>
    /\ UNCHANGED surfaceVars

-----------------------------------------------------------------------------
(* Archive and restore *)

OtherStatus(s) == IF s = "archived" THEN "active" ELSE "archived"

\* PATCH /api/threads/[id]: the row takes the status and a new updated_at.
PatchCommits(p) ==
    /\ p.answer = Nobody
    /\ rows[p.id].at > 0
    /\ WriteRow(p.id, p.status)
    /\ patches' = (patches \ {p}) \cup {[p EXCEPT !.answer = [id |-> p.id, status |-> p.status, at |-> written + 1]]}
    /\ unseen' = (unseen \/ Overtaken)
    /\ UNCHANGED <<list, read, picked, listFaults>>
    /\ UNCHANGED surfaceVars

\* The mutant of a cache that is not sorted again.
MergedAtEnd(row) == Append(SelectSeq(list, LAMBDA x : x.id # row.id), row)

\* setQueryData: the row takes its place in the list by its new updated_at;
\* one the list does not hold is added.
Merged(row) == NewestFirst({x \in ToSet(list) : x.id # row.id} \cup {row})

PatchAnswered(p) ==
    /\ p.answer # Nobody
    /\ list' = Merged(p.answer)
    /\ patches' = patches \ {p}
    /\ UNCHANGED <<rows, written, read, picked, unseen, listFaults>>
    /\ UNCHANGED surfaceVars

\* The request fails before or after the row was written: the toast tells,
\* and the cached list stays as it was.
PatchFails(p) ==
    /\ listFaults < MaxListFaults
    /\ listFaults' = listFaults + 1
    /\ patches' = patches \ {p}
    /\ unseen' = (unseen \/ p.answer # Nobody)
    /\ UNCHANGED <<rows, written, list, read, picked>>
    /\ UNCHANGED surfaceVars

-----------------------------------------------------------------------------
(* What a surface shows *)

SectionOf(s) == SelectSeq(list, LAMBDA x : (x.status = "archived") <=> (s = "archived"))

Has(items, t) == \E i \in DOMAIN items : items[i].id = t

\* The mutant that shows the batch alone.
VisibleBatch(s) == SubSeq(SectionOf(s), 1, IF visible[s] < Len(SectionOf(s)) THEN visible[s] ELSE Len(SectionOf(s)))

\* useProgressiveThreadList: the first batches, and the selected conversation
\* after them when it lies further down.
VisibleThreads(s) ==
    LET all   == SectionOf(s)
        first == SubSeq(all, 1, IF visible[s] < Len(all) THEN visible[s] ELSE Len(all))
    IN  first \o SelectSeq(all, LAMBDA x : x.id = picked /\ ~ Has(first, x.id))

\* The mutant with an off-by-one: one conversation is never worth a button.
HasMoreThreadsLate(s) == visible[s] + 1 < Len(SectionOf(s))
HasMoreThreads(s) == visible[s] < Len(SectionOf(s))

\* The archived section unfolds by itself for the selected conversation.
ShowArchived == archivedOpen \/ Has(SectionOf("archived"), picked)

\* The list as the sidebar renders it; a collapsed sidebar renders none.
SidebarItems ==
    IF ~ opened \/ ~ chatsOpen THEN <<>>
    ELSE VisibleThreads("active") \o (IF ShowArchived THEN VisibleThreads("archived") ELSE <<>>)

\* The list as the drawer renders it; a closed drawer renders nothing.
DrawerItems ==
    IF opened /\ chatsOpen
    THEN VisibleThreads("active") \o (IF ShowArchived THEN VisibleThreads("archived") ELSE <<>>)
    ELSE <<>>

ShownItems == IF surface = "sidebar" THEN SidebarItems ELSE DrawerItems

-----------------------------------------------------------------------------
(* What the user does *)

\* The button of the header or of the sidebar, and for the drawer its cross.
ToggleSurface ==
    /\ opened' = ~ opened
    /\ UNCHANGED <<rows, written, list, read, patches, picked, surface,
                   chatsOpen, archivedOpen, visible, unseen, listFaults>>

ToggleChats ==
    /\ opened
    /\ chatsOpen' = ~ chatsOpen
    /\ UNCHANGED <<rows, written, list, read, patches, picked, surface, opened,
                   archivedOpen, visible, unseen, listFaults>>

ToggleArchived ==
    /\ opened /\ chatsOpen
    /\ SectionOf("archived") # <<>>
    /\ archivedOpen' = ~ archivedOpen
    /\ UNCHANGED <<rows, written, list, read, patches, picked, surface, opened,
                   chatsOpen, visible, unseen, listFaults>>

ShowMore(s) ==
    /\ opened /\ chatsOpen
    /\ s = "archived" => ShowArchived
    /\ HasMoreThreads(s)
    /\ visible' = [visible EXCEPT ![s] = @ + Batch]
    /\ UNCHANGED <<rows, written, list, read, patches, picked, surface, opened,
                   chatsOpen, archivedOpen, unseen, listFaults>>

\* A conversation is opened; the drawer closes behind it.
ChooseThread(t) ==
    /\ Has(ShownItems, t)
    /\ picked' = t
    /\ opened' = (surface = "sidebar")
    /\ UNCHANGED <<rows, written, list, read, patches, surface,
                   chatsOpen, archivedOpen, visible, unseen, listFaults>>

\* "New chat": a conversation no list holds yet; the drawer closes.  The
\* collapsed sidebar has the button too.
NewThread ==
    /\ surface = "drawer" => opened
    /\ picked' = Nobody
    /\ opened' = (opened /\ surface = "sidebar")
    /\ UNCHANGED <<rows, written, list, read, patches, surface,
                   chatsOpen, archivedOpen, visible, unseen, listFaults>>

\* The menu of a conversation asks for the status it does not show.
AskStatus(i) ==
    /\ i \in DOMAIN ShownItems
    /\ LET x == ShownItems[i] IN
         /\ x.status \in Sections
         /\ patches' = patches \cup {[id |-> x.id, status |-> OtherStatus(x.status), answer |-> Nobody]}
    /\ UNCHANGED <<rows, written, list, read, picked, unseen, listFaults>>
    /\ UNCHANGED surfaceVars

\* The first message of a new conversation gives it its row, and the list is
\* read again (handleChatStarted).
ChatStarted(t) ==
    /\ picked = Nobody
    /\ rows[t].at = 0
    /\ WriteRow(t, "active")
    /\ picked' = t
    /\ unseen' = TRUE
    /\ read' = IF read.phase = "none" THEN Asked ELSE read
    /\ UNCHANGED <<list, patches, listFaults>>
    /\ UNCHANGED surfaceVars

-----------------------------------------------------------------------------
\* The account has some conversations when the page opens; the page's
\* sidebar starts collapsed, the drawer closed, the first read under way.
ThreadListInit ==
    /\ \E old \in SUBSET Threads :
         LET order == SetToSeq(old) IN
         /\ rows = [t \in Threads |->
               IF t \in old THEN [status |-> "active", at |-> CHOOSE i \in DOMAIN order : order[i] = t]
                            ELSE [status |-> "active", at |-> 0]]
         /\ written = Cardinality(old)
    /\ list = <<>>
    /\ read = Asked
    /\ patches = {}
    /\ picked = Nobody
    /\ surface \in {"sidebar", "drawer"}
    /\ opened = FALSE
    /\ chatsOpen = TRUE
    /\ archivedOpen = FALSE
    /\ visible = [s \in Sections |-> Batch]
    /\ unseen = TRUE
    /\ listFaults = 0

ThreadListNext ==
    \/ \E t \in Threads : AcceptTurnIn(t) \/ DeleteThread(t) \/ ChooseThread(t) \/ ChatStarted(t)
    \/ FetchThreads \/ ListAnswered \/ ListArrives \/ ListReadFails
    \/ \E p \in patches : PatchCommits(p) \/ PatchAnswered(p) \/ PatchFails(p)
    \/ ToggleSurface \/ ToggleChats \/ ToggleArchived \/ NewThread
    \/ \E s \in Sections : ShowMore(s)
    \/ \E i \in 1..Cardinality(Threads) : AskStatus(i)

ThreadListSpec == ThreadListInit /\ [][ThreadListNext]_listVars

-----------------------------------------------------------------------------
\* Type correctness of the rows, the cache and the surfaces.
ThreadListTypeOK ==
    /\ rows \in [Threads -> [status : Sections \cup {"deleted"}, at : Nat]]
    /\ ToSet(list) \subseteq [id : Threads, status : Sections, at : Nat]
    /\ picked \in Threads \cup {Nobody}
    /\ visible \in [Sections -> Nat \ {0}]
    /\ unseen \in BOOLEAN

\* The conversation the page is on is in the open list exactly once, wherever
\* it lies: beyond the first batch, or archived while that section is folded
\* (useProgressiveThreadList.ts:15-23, AppSidebar.tsx:71-72).
ChosenIsShown ==
    (opened /\ chatsOpen /\ Has(list, picked))
        => Cardinality({i \in DOMAIN ShownItems : ShownItems[i].id = picked}) = 1

\* The list holds every conversation once, the newest first, however the
\* answers of reads and of archive requests come in (useThreadsQuery.ts:33-39, 72-89).
ListInOrder ==
    \A i, j \in DOMAIN list : i < j => list[i].at > list[j].at /\ list[i].id # list[j].id

\* When no "load more" is left in the sections that are unfolded, every
\* conversation of them is on screen (useProgressiveThreadList.ts:31).
AllReachable ==
    (opened /\ chatsOpen) =>
        \A s \in Sections :
            ~ HasMoreThreads(s) /\ (s = "archived" => ShowArchived)
                => \A i \in DOMAIN SectionOf(s) : Has(ShownItems, SectionOf(s)[i].id)

\* The list read last, with the answers of this page's own archive and
\* restore requests written into it, is what a new read would answer, unless
\* another writer, a lost answer or an answer that was overtaken came in
\* between (useThreadsQuery.ts:72-89 against route.ts:8-38).
OwnChangesAreShown ==
    (~ unseen /\ \A p \in patches : p.answer = Nobody) => list = ThreadsGet

\* The list in the sidebar and in the drawer: whole, in order, up to date with this page's own
\* changes, with the open conversation in it (useThreadsQuery.ts, AppSidebar.tsx).
ListIsHonest ==
    ThreadListTypeOK /\ ChosenIsShown /\ ListInOrder /\ AllReachable /\ OwnChangesAreShown
=============================================================================
