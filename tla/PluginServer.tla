---------------------------- MODULE PluginServer ----------------------------
(* The server of the agent plug-in (agent-plugin/mcp/server.mjs): it reads JSON-RPC messages
   line by line, answers the simple ones at once and runs the video intake CLI for each tool
   call, any number of them beside each other, each in a child process whose output arrives
   in pieces. Answers are written in the order in which the work is done.                  *)
EXTENDS Integers, Sequences, FiniteSets

CONSTANTS
    Urls,        \* videos a client asks for
    MaxLines,    \* messages a client sends
    MaxRuns      \* CLI runs

VARIABLES
    calls,    \* the messages read, in order: [msg, stage, child]
    replies      \* the lines written: [to (the message answered), id, body]

pluginVars == <<calls, replies>>

NoId    == 0
NoVideo == [status |-> "none"]

Methods == {"initialize", "ping", "tools/list", "tools/call", "other"}

\* The arguments of a tool call: the tool's name may be unknown, a text may be blank. Language
\* and strategy are treated alike.
Arguments ==
    [known : BOOLEAN, url : Urls \cup {"blank"}, option : {"none", "given", "blank"}, asr : BOOLEAN]
Plain == [known |-> TRUE, url |-> "blank", option |-> "none", asr |-> FALSE]

\* A client numbers its calls; a message without a number is a notification, of which the
\* server knows none.
Messages(n) ==
    {[method |-> m, id |-> n, params |-> Plain] : m \in Methods \ {"tools/call"}}
    \cup {[method |-> "tools/call", id |-> n, params |-> p] : p \in Arguments}
    \cup {[method |-> "other", id |-> NoId, params |-> Plain]}

-----------------------------------------------------------------------------
(* What the CLI prints: a JSON object with the video's context in it, written as bytes. The
   context stands behind its opening bracket, with a character of two bytes in it (captions
   are not ASCII).                                                                         *)

Contexts(url) ==
    {[url |-> url, titled |-> TRUE, status |-> "completed", source |-> "caption", errors |-> 0,
      markdown |-> TRUE]}
    \cup {[url |-> url, titled |-> t, status |-> IF t THEN "partial" ELSE "failed", source |-> "none",
           errors |-> 1, markdown |-> FALSE] : t \in BOOLEAN}

Byte(sort, context) == [sort |-> sort, of |-> context]
Bytes(context, noisy) ==
    LET sorts == (IF noisy THEN <<"noise">> ELSE << >>) \o <<"{", "lead", "trail", "}">>
    IN  [i \in DOMAIN sorts |-> Byte(sorts[i], context)]

\* chunk.toString(): the two bytes of a character are one in the same chunk and an unreadable one
\* each in different chunks.
Decoded(chunk) ==
    LET sort(i) == CASE chunk[i].sort = "lead"  -> IF i < Len(chunk) THEN "wide" ELSE "unreadable"
                     [] chunk[i].sort = "trail" -> IF i > 1 THEN "second" ELSE "unreadable"
                     [] OTHER                   -> chunk[i].sort
    IN  SelectSeq([i \in DOMAIN chunk |-> [chunk[i] EXCEPT !.sort = sort(i)]], LAMBDA c : c.sort # "second")

\* JSON.parse: one whole object. An unreadable character within a text is no error.
Parses(text)  == text # << >> /\ text[1].sort = "{" /\ text[Len(text)].sort = "}"
Context(text) == text[1].of
Damaged(text) == \E i \in DOMAIN text : text[i].sort = "unreadable"

\* summarizeForText: what the agent reads, lines that say nothing left out.
Summarize(context) ==
    <<IF context.titled THEN "title" ELSE "untitled", context.status, context.source>>
        \o (IF context.errors > 0 THEN <<"errors">> ELSE << >>)
        \o (IF context.markdown THEN <<"captions">> ELSE << >>)

-----------------------------------------------------------------------------
(* A child process: what is in its pipe, what has been read of it (heard), how it ended. *)

NoChild  == [state |-> "none", printed |-> NoVideo, noisy |-> FALSE, pipe |-> << >>, heard |-> << >>, code |-> 0]
NewChild == [NoChild EXCEPT !.state = "started"]

Result(what) == [type |-> "result", what |-> what]
Error(code)  == [type |-> "error", what |-> code]

Reply(n, body) == [to |-> n, id |-> calls[n].msg.id, body |-> body]

\* What a tool call's arguments lead to, in the order in which they are looked at; a text that is
\* blank throws.
Verdict(p) ==
    CASE ~p.known                                  -> "invalid"
      [] p.known /\ "blank" \in {p.url, p.option}  -> "throws"
      [] p.known /\ "blank" \notin {p.url, p.option} /\ p.asr -> "invalid"
      [] OTHER                                     -> "runs"

\* The line handler. A tool call that throws is answered after the lines read with it: the
\* rejected promise is looked at when the handler has returned. A line is an object here: a bare
\* `null' is a rejection nobody handles (server.mjs:125, 216), and a tool call has an id.
HandleRequest(msg) ==
    LET n       == Len(calls) + 1
        verdict == IF msg.method = "tools/call" THEN Verdict(msg.params) ELSE "answered"
        stage   == CASE verdict = "runs" -> "running" [] verdict = "throws" -> "thrown" [] OTHER -> "done"
        body    == CASE verdict = "invalid"    -> <<Error("invalid params")>>
                     [] verdict # "answered"   -> << >>
                     [] msg.method # "other"   -> <<Result(msg.method)>>
                     [] msg.id # NoId          -> <<Error("method not found")>>
                     [] OTHER                  -> << >>
    IN  /\ calls' = Append(calls, [msg |-> msg, stage |-> stage,
                                         child |-> IF verdict = "runs" THEN NewChild ELSE NoChild])
        /\ replies' = replies \o [i \in DOMAIN body |-> [to |-> n, id |-> msg.id, body |-> body[i]]]

ReadLine ==
    \E msg \in Messages(Len(calls) + 1) :
        /\ Len(calls) < MaxLines
        /\ Cardinality({n \in DOMAIN calls : calls[n].child # NoChild}) = MaxRuns =>
               msg.method # "tools/call"
        /\ HandleRequest(msg)

\* Rejections are looked at one after the other before any other event.
Caught == \A n \in DOMAIN calls : calls[n].stage # "thrown"

CatchRejection(n) ==
    /\ calls[n].stage = "thrown" /\ \A i \in 1..(n - 1) : calls[i].stage # "thrown"
    /\ calls' = [calls EXCEPT ![n].stage = "done"]
    /\ replies' = Append(replies, Reply(n, Error("internal error")))

\* The end of runCli: the promise settles once, and whatever the child does later is not heard.
Settle(n, child, body) ==
    /\ calls' = [calls EXCEPT ![n].child = child,
                                    ![n].stage = "done"]
    /\ replies' = IF calls[n].stage = "running" THEN Append(replies, Reply(n, body)) ELSE replies

-----------------------------------------------------------------------------
(* What the child does: external, up to what the server hears of it. *)

\* The command is not found: an error, and the close of a process that never was.
SpawnFails(n) ==
    /\ Caught /\ calls[n].child.state = "started" /\ calls[n].child.printed = NoVideo
    /\ Settle(n, [calls[n].child EXCEPT !.state = "exited", !.code = -2], Error("internal error"))

\* The CLI prints its answer at its end, behind whatever its libraries have printed.
Prints(n, context, noisy) ==
    /\ Caught /\ calls[n].child.state = "started" /\ calls[n].child.printed = NoVideo
    /\ calls' = [calls EXCEPT ![n].child.printed = context, ![n].child.noisy = noisy,
                                    ![n].child.pipe = Bytes(context, noisy)]
    /\ UNCHANGED replies

\* It ends well when it has printed, and badly at any time.
Exits(n, code) ==
    /\ Caught /\ calls[n].child.state = "started"
    /\ code = 0 => calls[n].child.printed # NoVideo
    /\ calls' = [calls EXCEPT ![n].child.state = "exited", ![n].child.code = code]
    /\ UNCHANGED replies

\* stdout 'data'.
HearsShared(n, k) ==
    /\ Caught /\ k <= Len(calls[n].child.pipe)
    /\ calls' = [i \in DOMAIN calls |->
           LET child == calls[i].child  text == Decoded(SubSeq(calls[n].child.pipe, 1, k)) IN
           IF child.state = "none" THEN calls[i]
           ELSE [calls[i] EXCEPT !.child.heard = @ \o text,
                                    !.child.pipe = IF i = n THEN SubSeq(@, k + 1, Len(@)) ELSE @]]
    /\ UNCHANGED replies

Hears(n, k) ==
    LET pipe == calls[n].child.pipe IN
    /\ Caught /\ k <= Len(pipe)
    /\ calls' = [calls EXCEPT ![n].child.pipe = SubSeq(pipe, k + 1, Len(pipe)),
                                    ![n].child.heard = @ \o Decoded(SubSeq(pipe, 1, k))]
    /\ UNCHANGED replies

\* 'close': the process has ended and all it had printed is read.
ClosesAtExit(n) ==
    LET child == calls[n].child IN
    /\ Caught /\ child.state = "exited"
    /\ Settle(n, [child EXCEPT !.state = "closed"],
              IF child.code = 0 /\ Parses(child.heard)
              THEN Result([context |-> Context(child.heard), text |-> Summarize(Context(child.heard)),
                           damaged |-> Damaged(child.heard)])
              ELSE Error("internal error"))

Closes(n) == calls[n].child.pipe = << >> /\ ClosesAtExit(n)

PluginInit == calls = << >> /\ replies = << >>

PluginNext ==
    \/ ReadLine
    \/ \E n \in DOMAIN calls :
        \/ CatchRejection(n) \/ SpawnFails(n) \/ Closes(n)
        \/ \E c \in Contexts(calls[n].msg.params.url), noisy \in BOOLEAN : Prints(n, c, noisy)
        \/ \E code \in {0, 1} : Exits(n, code)
        \/ \E k \in 1..5 : Hears(n, k)

PluginSpec == PluginInit /\ [][PluginNext]_pluginVars

-----------------------------------------------------------------------------
(* Properties. *)

AnswersTo(n) == {i \in DOMAIN replies : replies[i].to = n}

\* A message is answered once, when the work on it is done, whatever its child still does, and
\* under the number it came with; only an unknown notification is not answered.
AnsweredOnce ==
    \A n \in DOMAIN calls :
        LET silent == calls[n].msg.method = "other" /\ calls[n].msg.id = NoId IN
        /\ Cardinality(AnswersTo(n)) = IF calls[n].stage = "done" /\ ~silent THEN 1 ELSE 0
        /\ \A i \in AnswersTo(n) : replies[i].id = calls[n].msg.id

\* However the outputs of several runs arrive, a call gets what its own run has printed, all of
\* it, and gets it whenever that run ended well and printed nothing else: it is never told of
\* an error instead. Captions are read only from a run that found them (SKILL.md: only a
\* completed context is evidence).
CallsGetTheirOwn ==
    \A i \in DOMAIN replies :
        LET n == replies[i].to  child == calls[n].child  body == replies[i].body IN
        calls[n].stage = "done" /\ child # NoChild =>
            /\ body.type = "result" <=> child.state = "closed" /\ child.code = 0 /\ ~child.noisy
            /\ body.type = "result" =>
                 /\ body.what.context = child.printed
                 /\ (\E k \in DOMAIN body.what.text : body.what.text[k] = "captions")
                        <=> child.printed.status = "completed"

PluginAnswers == AnsweredOnce /\ CallsGetTheirOwn
=============================================================================
