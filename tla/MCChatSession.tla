--------------------------- MODULE MCChatSession ---------------------------
(* Small instances of the five parts of an answer: the messages the chat page keeps of it,
   what the page draws of them, the run of the agent that produces it, the code blocks of its
   tool calls, and the transcript the run searches and reads.  The page sees of a run what the
   database and the stream carry, which ChatSession and ChatView choose freely; a block is
   handed its text; the run counts characters, which the index of the transcript cuts.  In
   each behaviour one of them is active and the others rest.                              *)
EXTENDS ChatSession, ChatView, AgentRun, MCCodeHighlight, SourceIndex

CONSTANTS s1, s2

VARIABLE active

answerVars == <<active, vars, chatViewVars, runVars, highlightVars, sourceVars>>

Characters == {<<"x">>, <<" ">>, <<".">>, <<"h", "l">>}
ParagraphsDef == {<<"x">>} \cup {a \o b \o c \o d \o a \o c \o b \o d : a, b, c, d \in Characters}

\* Transcripts of up to three lines, with marks that are clocks or are not, and of two timed segments.
Lines == [clock : {<< >>, <<0, 5>>, <<90, 59>>, <<0, 60>>}, words : BOOLEAN] \cup [clock : {<<1, 0, 7>>, <<1, 60, 0>>}, words : {TRUE}]
ScriptsDef == {<<a, b, c>> : a, b, c \in Lines}
RawScriptsDef == LET Timings == [start : {-1, 0, 4}, duration : {-1, 3}, end : {-1, 2, 6}, words : BOOLEAN]
                 IN  {<<a, b>> : a, b \in Timings}

\* Stored conversations: a digest, a quota reply, a legacy marker, and rows that are no messages.
Said(k) == [kind |-> k, task |-> NoTask]
Of(k, t) == [kind |-> k, task |-> t]
Row(n, role, state, parts) == [id |-> n, role |-> role, list |-> TRUE, state |-> state, parts |-> parts]
Asked(n) == Row(n, "user", "none", <<Said("text")>>)
HistoriesDef == {
    << >>,
    <<Row(1, "assistant", "completed", <<Of("done", s1)>>)>>,
    <<Asked(1), Row(2, "assistant", "quota", <<Said("text")>>)>>,
    <<Row(1, "assistant", "none", <<Of("status", s1)>>), [Asked(2) EXCEPT !.role = "system"], Asked(3),
      Row(4, "assistant", "failed", <<Said("blank")>>)>>,
    <<[Asked(1) EXCEPT !.id = 0], Row(2, "assistant", "waiting", <<Said("step"), Of("status", s1)>>)>>,
    <<Asked(1), Row(2, "assistant", "completed", <<Said("lookup"), Of("status", s1), Of("status", s2)>>),
      [Asked(3) EXCEPT !.list = FALSE], Row(4, "assistant", "failed", <<Of("marker", s1), Said("lookupFailed")>>)>>,
    <<Asked(1), Row(2, "assistant", "completed", <<Of("status", s1)>>), Asked(3),
      Row(4, "assistant", "quota", <<Said("text")>>)>>,
    <<Asked(1), [Asked(2) EXCEPT !.parts = << >>], Row(3, "assistant", "completed", <<Said("untyped")>>),
      [Asked(4) EXCEPT !.role = "tool"], Asked(5)>> }

\* The view at rest, and the pages it is checked on: scrolling with at most one exchange stored.
ViewsOf(part) ==
    /\ ChatViewInit
    /\ part # "view" => following = "rows" /\ artifacts /\ stored = << >>
    /\ following = "rows" => ~ embedded /\ activeTask = NoTask
    /\ following = "box" => artifacts /\ activeTask = IF embedded THEN s1 ELSE NoTask
    /\ following = "scroll" => artifacts /\ ~ embedded /\ activeTask # s2 /\ Len(stored) <= 2

AnswerInit ==
    /\ active \in {"page", "view", "run", "code", "index"}
    /\ active # "index" => phase = "raw" /\ script = CHOOSE r \in RawScripts : TRUE
    /\ Init /\ ViewsOf(active) /\ AgentRunInit /\ HighlightInit /\ SourceInit
    /\ active # "run" => run.runtime = "api" /\ ~ run.readOnly

AnswerNext ==
    /\ UNCHANGED active
    /\ \/ active = "page" /\ Next /\ UNCHANGED <<chatViewVars, runVars, highlightVars, sourceVars>>
       \/ active = "view" /\ ChatViewNext /\ UNCHANGED <<vars, runVars, highlightVars, sourceVars>>
       \/ active = "run" /\ AgentRunNext /\ UNCHANGED <<vars, chatViewVars, highlightVars, sourceVars>>
       \/ active = "code" /\ HighlightNext /\ UNCHANGED <<vars, chatViewVars, runVars, sourceVars>>
       \/ active = "index" /\ SourceNext /\ UNCHANGED <<vars, chatViewVars, runVars, highlightVars>>

\* Bounds of the page: one loss or one retry, not both in one behaviour; in a second exchange
\* one change event at a time is on its way, and after a loss no button is pressed.
OneFault == drops + retries <= 1
QuietSecond == cur = 2 => Len(queue) <= 1 /\ (drops = 1 => action.kind = "none")

\* Bound of the view: a longer history leaves room for one step of the reader.
ShortHistories == Len(stored) > 2 => viewSteps <= 1

AnswerSpec == AnswerInit /\ [][AnswerNext]_answerVars
=============================================================================
