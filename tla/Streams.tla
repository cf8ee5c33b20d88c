------------------------------- MODULE Streams -------------------------------
(***************************************************************************)
(* The agent loop of one client through the provider adapters: the history *)
(* a client sends is converted into the provider's form, the provider's    *)
(* stream is folded into chunks, and the chunks become the events the      *)
(* client reads (adapter/out/llm, application/agent/usecase.go and         *)
(* adapter/in/http/agent_handler.go).  The active provider may be switched *)
(* between two turns.                                                      *)
(*                                                                         *)
(* Texts and arguments are numbered pieces.  Every call carries its origin *)
(* (the turn and its place in it) beside the id the client knows it by, so *)
(* that properties can tell whether a result still belongs to its call.    *)
(***************************************************************************)
EXTENDS Integers, Sequences, SequencesExt

CONSTANTS
    Adapters,       \* the wire protocols to consider
    MaxText,        \* bounds of the answer to each request: pieces of text,
    MaxCalls,       \* tool calls,
    MaxParts,       \* pieces of arguments of a call,
    Forms,          \* and the forms in which the client returns results; the last request
                    \* is sent and its answer not looked at
    Counts          \* the token counts a provider may report

Protocols == {"claude", "openai", "responses", "gemini", "ollama"}

ASSUME StreamsAssumption ==
    /\ Adapters \subseteq Protocols
    /\ \A bound \in {MaxText, MaxCalls, MaxParts} : bound \in [1 .. Len(Forms) -> Nat]
    /\ Forms \in Seq(SUBSET [reversed : BOOLEAN, named : BOOLEAN, note : BOOLEAN])
    /\ Counts \subseteq [fresh : Nat, cached : Nat, out : Nat]

MaxTurns == Len(Forms) + 1

VARIABLES
    turn,       \* requests so far
    adapter,    \* the adapter of this turn
    phase,      \* "idle", "stream", "final" or "done"
    history,    \* the client's conversation: the messages of its next request
    sent,       \* the messages of the request in the provider's form
    said,       \* what the provider said in this turn
    acc,        \* the adapter's locals in ChatStream
    todo,       \* events of the final chunk still to be written
    out,        \* the events written
    alive       \* the client is still reading

streamVars == <<turn, adapter, phase, history, sent, said, acc, todo, out, alive>>

NoUsage == [total |-> -1]
NothingSaid == [text |-> 0, thought |-> 0, calls |-> <<>>, why |-> "none", used |-> NoUsage]
NothingKept == [calls |-> <<>>, finish |-> "", usage |-> NoUsage, thinking |-> 0]

StreamInit ==
    /\ turn = 0 /\ adapter = "openai"
    /\ phase = "idle"
    /\ history = <<>> /\ sent = <<>>
    /\ said = NothingSaid /\ acc = NothingKept
    /\ todo = <<>> /\ out = <<>> /\ alive = TRUE

-----------------------------------------------------------------------------
(* Messages of the client and of the provider.                             *)

\* A call: its origin, the id the client knows, and the arguments: how many pieces, and
\* whether they are whole JSON.
Call(of, id, args, whole) == [of |-> of, id |-> id, args |-> args, whole |-> whole]

Msg(role) == [role |-> role, text |-> 0, think |-> 0, calls |-> <<>>, of |-> <<0, 0>>,
              id |-> <<0, 0>>, named |-> FALSE]

\* A part of a provider's message.  name: the call whose function a result names; only
\* Gemini's and Ollama's forms have a place for it.
Nameless == <<0, 0>>
Part(kind, of, id, args) == [kind |-> kind, of |-> of, id |-> id, args |-> args, name |-> Nameless]
TextOf(m) == IF m.text = 0 THEN <<>> ELSE <<Part("text", <<m.text, 0>>, <<0, 0>>, 0)>>
ResultOf(m) == Part("result", m.of, m.id, 0)
NamedResult(m, name) == [ResultOf(m) EXCEPT !.name = name]
Out(role, parts) == [role |-> role, parts |-> parts]

\* Arguments that do not parse become an empty object.
Decoded(c) == IF c.whole THEN c.args ELSE 0
CallParts(m, args(_)) == [k \in DOMAIN m.calls |->
                            Part("call", m.calls[k].of, m.calls[k].id, args(m.calls[k]))]
RawArgs(c) == c.args

ClaudeAssistant(m) ==
    Out("assistant",
        (IF m.calls # <<>> /\ m.think # 0 THEN <<Part("think", <<m.think, 0>>, <<0, 0>>, 0)>> ELSE <<>>)
          \o TextOf(m) \o CallParts(m, Decoded))

Flushed(st) == IF st.pending = <<>> THEN st.out ELSE Append(st.out, Out("user", st.pending))
ClaudeStep(st, m) ==
    CASE m.role = "tool"      -> [st EXCEPT !.pending = Append(@, ResultOf(m))]
      [] m.role = "assistant" -> [out |-> Append(Flushed(st), ClaudeAssistant(m)), pending |-> <<>>]
      [] m.role = "user"      -> [out |-> Append(Flushed(st), Out("user", TextOf(m))), pending |-> <<>>]
      [] OTHER                -> st

\* claudeBuildMessages: consecutive results go into one user message; system messages,
\* wherever they stand, go to the top of the request.
ClaudeBuild(msgs) ==
    LET upTo[n \in Nat] == IF n = 0 THEN [out |-> <<>>, pending |-> <<>>]
                           ELSE ClaudeStep(upTo[n - 1], msgs[n])
    IN  Flushed(upTo[Len(msgs)])

\* buildOpenAIMessages
OpenAIBuild(msgs) ==
    [k \in DOMAIN msgs |->
        Out(msgs[k].role, CASE msgs[k].role = "tool" -> <<ResultOf(msgs[k])>>
                            [] OTHER -> TextOf(msgs[k]) \o CallParts(msgs[k], RawArgs))]

\* The name as the client gave it, if it did.
GivenName(m) == IF m.named THEN m.of ELSE Nameless

\* buildOllamaMessages: a result is named by what the client sent, and by nothing else.
OllamaBuild(msgs) ==
    [k \in DOMAIN msgs |->
        Out(msgs[k].role, CASE msgs[k].role = "tool" -> <<NamedResult(msgs[k], GivenName(msgs[k]))>>
                            [] OTHER -> TextOf(msgs[k]) \o CallParts(msgs[k], Decoded))]

\* buildResponsesInput: every text, call and result is an item of its own.
ResponsesBuild(msgs) ==
    LET items == FlattenSeq([k \in DOMAIN msgs |->
            [j \in DOMAIN OpenAIBuild(msgs)[k].parts |->
                Out(msgs[k].role, <<OpenAIBuild(msgs)[k].parts[j]>>)]])
    IN  items

NameForFirst(msgs, k) ==
    LET asked == FlattenSeq([j \in 1 .. k - 1 |-> msgs[j].calls])
        same == {j \in DOMAIN asked : asked[j].id = msgs[k].id}
    IN  IF msgs[k].named THEN msgs[k].of
        ELSE IF same = {} THEN Nameless
        ELSE asked[CHOOSE j \in same : \A i \in same : j <= i].of

\* callIDToName when message k is converted: the last call before it with its id.
NameFor(msgs, k) ==
    LET asked == FlattenSeq([j \in 1 .. k - 1 |-> msgs[j].calls])
        same == {j \in DOMAIN asked : asked[j].id = msgs[k].id}
    IN  IF msgs[k].named THEN msgs[k].of
        ELSE IF same = {} THEN Nameless
        ELSE asked[CHOOSE j \in same : \A i \in same : i <= j].of

GeminiMsg(msgs, k) ==
    CASE msgs[k].role = "tool"      -> <<Out("user", <<NamedResult(msgs[k], NameFor(msgs, k))>>)>>
      [] msgs[k].role = "system"    -> <<>>
      [] msgs[k].role = "assistant" ->
            LET parts == TextOf(msgs[k]) \o CallParts(msgs[k], Decoded)
            IN  IF parts = <<>> THEN <<>> ELSE <<Out("model", parts)>>
      [] OTHER                      -> <<Out("user", TextOf(msgs[k]))>>

\* geminiBuildContents
GeminiBuild(msgs) == FlattenSeq([k \in DOMAIN msgs |-> GeminiMsg(msgs, k)])

Build(a, msgs) ==
    CASE a = "claude"    -> ClaudeBuild(msgs)
      [] a = "responses" -> ResponsesBuild(msgs)
      [] a = "gemini"    -> GeminiBuild(msgs)
      [] a = "ollama"    -> OllamaBuild(msgs)
      [] OTHER           -> OpenAIBuild(msgs)

\* Ollama refuses a history whose arguments do not parse; the others take it.
Buildable(a, msgs) ==
    a = "ollama" => \A k \in DOMAIN msgs : \A j \in DOMAIN msgs[k].calls : msgs[k].calls[j].whole

-----------------------------------------------------------------------------
(* What each adapter keeps of a provider's event and what it passes on.    *)

Nothing == [kind |-> "nothing"]
Delta(n) == [kind |-> "content", piece |-> n]
Thought == [kind |-> "thinking"]

\* A chunk passed on at once, and the adapter's locals after the event.
Does(chunk, a) == [chunk |-> chunk, acc |-> a]
Keeps(a) == Does(Nothing, a)

AddCall(a, key, id, args) == [a EXCEPT !.calls = Append(@, [key |-> key, id |-> id, args |-> args])]
Longer(b) == [b EXCEPT !.args = @ + 1]
MoreArgs(a, key) ==
    [a EXCEPT !.calls = [j \in DOMAIN a.calls |->
                            IF a.calls[j].key = key THEN Longer(a.calls[j]) ELSE a.calls[j]]]

\* claudeUsage: Anthropic leaves the cached tokens out of the input, so they are added.
ClaudeUsage(u) == [total |-> u.input + u.cached + u.out]

\* ClaudeAdapter.ChatStream: the SDK accumulates blocks; the answer's thinking is that of
\* the last thinking block.
ClaudeOn(a, e) ==
    CASE e.kind = "text"    -> Does(Delta(e.piece), a)
      [] e.kind = "thought" -> Does(Thought, [a EXCEPT !.thinking = turn])
      [] e.kind = "call"    -> Keeps(AddCall(a, e.key, e.id, 0))
      [] e.kind = "args"    -> Keeps(MoreArgs(a, a.calls[Len(a.calls)].key))
      [] e.kind = "finish"  -> Keeps([a EXCEPT !.finish = e.reason, !.usage = ClaudeUsage(e.counts)])

\* OpenAIAdapter.ChatStream: pieces of calls are collected by index; usage comes with the
\* last chunk, if at all.
OpenAIOn(a, e) ==
    CASE e.kind = "text"    -> Does(Delta(e.piece), a)
      [] e.kind = "call"    -> Keeps(AddCall(a, e.key, e.id, 0))
      [] e.kind = "args"    -> Keeps(MoreArgs(a, e.key))
      [] e.kind = "finish"  -> Keeps([a EXCEPT !.finish = e.reason,
                                        !.usage = IF e.counts = NoUsage THEN @
                                                  ELSE [total |-> e.counts.input + e.counts.out]])

\* chatStreamResponses: the reason is told only for an answer cut at the token limit.
ResponsesOn(a, e) ==
    CASE e.kind = "text"    -> Does(Delta(e.piece), a)
      [] e.kind = "thought" -> Does(Thought, a)
      [] e.kind = "call"    -> Keeps(AddCall(a, e.key, e.id, 0))
      [] e.kind = "args"    -> Keeps(MoreArgs(a, e.key))
      [] e.kind = "finish"  -> Keeps([a EXCEPT
                                        !.finish = IF e.reason = "max_output_tokens" THEN "max_tokens" ELSE "",
                                        !.usage = [total |-> e.counts.input + e.counts.out]])

\* geminiToToolCall: a call without an id is named after its place in the answer.
GeminiId(a, e) == IF e.id = <<0, 0>> THEN <<0, Len(a.calls) + 1>> ELSE e.id

\* GeminiAdapter.ChatStream: calls come whole.
GeminiOn(a, e) ==
    CASE e.kind = "text"    -> Does(Delta(e.piece), a)
      [] e.kind = "call"    -> Keeps(AddCall(a, e.key, GeminiId(a, e), 0))
      [] e.kind = "finish"  -> Keeps([a EXCEPT !.finish = e.reason,
                                        !.usage = IF e.counts = NoUsage THEN @
                                                  ELSE [total |-> e.counts.input + e.counts.out]])

\* The callback of OllamaAdapter.ChatStream.
OllamaOn(a, e) ==
    CASE e.kind = "text"    -> Does(Delta(e.piece), a)
      [] e.kind = "call"    -> Keeps(AddCall(a, e.key, e.id, 0))
      [] e.kind = "finish"  -> Keeps([a EXCEPT !.finish = e.reason,
                                        !.usage = [total |-> e.counts.input + e.counts.out]])

On(a, e) ==
    CASE adapter = "claude"    -> ClaudeOn(a, e)
      [] adapter = "openai"    -> OpenAIOn(a, e)
      [] adapter = "responses" -> ResponsesOn(a, e)
      [] adapter = "gemini"    -> GeminiOn(a, e)
      [] adapter = "ollama"    -> OllamaOn(a, e)

\* In the order of their keys, which differ.
ByKey(calls) ==
    LET order == CHOOSE p \in [DOMAIN calls -> DOMAIN calls] :
                    \A i, j \in DOMAIN calls : i < j => calls[p[i]].key < calls[p[j]].key
    IN  [j \in DOMAIN calls |-> calls[order[j]]]

OpenAICollectUnsorted(calls) == calls

\* collectOpenAIToolCalls: by index.
OpenAICollect(calls) == ByKey(calls)

\* collectResponsesToolCalls: by output_index.
ResponsesCollect(calls) == ByKey(calls)

Collect(calls) ==
    CASE adapter = "openai"    -> OpenAICollect(calls)
      [] adapter = "responses" -> ResponsesCollect(calls)
      [] OTHER                 -> calls

-----------------------------------------------------------------------------
(* The provider's stream (external).                                       *)

\* Claude, Gemini and Ollama report calls one after the other; the two OpenAI protocols
\* number them and may mix their pieces.  Gemini and Ollama send a call whole.
Mixes == adapter \in {"openai", "responses"}
InPieces == adapter \in {"claude", "openai", "responses"}
Begun == {k \in DOMAIN said.calls : said.calls[k] >= 0}

\* Gemini may leave ids out.
IdsOf(k) == IF adapter = "gemini" THEN {<<turn, k>>, <<0, 0>>} ELSE {<<turn, k>>}

\* The reason of a stop as each provider spells it.
RawReason(why) ==
    CASE adapter = "claude"    -> IF why = "cut" THEN "max_tokens" ELSE IF Begun # {} THEN "tool_use" ELSE "end_turn"
      [] adapter = "openai"    -> IF why = "cut" THEN "length" ELSE IF Begun # {} THEN "tool_calls" ELSE "stop"
      [] adapter = "responses" -> IF why = "cut" THEN "max_output_tokens" ELSE ""
      [] adapter = "gemini"    -> IF why = "cut" THEN "MAX_TOKENS" ELSE "STOP"
      [] adapter = "ollama"    -> IF why = "cut" THEN "length" ELSE "stop"

\* What the provider processed, as it reports it.
Reported(c) ==
    [input |-> IF adapter = "claude" THEN c.fresh ELSE c.fresh + c.cached, cached |-> c.cached, out |-> c.out]

\* OpenAI-compatible servers and Gemini may report no usage.
Reports(c) == {Reported(c)} \cup IF adapter \in {"openai", "gemini"} THEN {NoUsage} ELSE {}

Streaming == phase = "stream" /\ turn < MaxTurns
Saying == Streaming /\ said.why = "none"

\* Write of one event to the client; what is written to a client that left is lost.
Emit(e) == out' = IF alive THEN Append(out, e) ELSE out

\* An event of the provider goes through the adapter, AgentService.Stream and the handler.
Comes(e) ==
    /\ acc' = On(acc, e).acc
    /\ IF On(acc, e).chunk = Nothing THEN UNCHANGED out ELSE Emit(On(acc, e).chunk)
    /\ UNCHANGED <<turn, adapter, phase, history, sent, todo, alive>>

SayText ==
    /\ Saying /\ said.text < MaxText[turn]
    /\ said' = [said EXCEPT !.text = @ + 1]
    /\ Comes([kind |-> "text", piece |-> said.text + 1])

SayThought ==
    /\ Saying /\ said.thought < MaxText[turn] /\ adapter \in {"claude", "responses"}
    /\ said' = [said EXCEPT !.thought = @ + 1]
    /\ Comes([kind |-> "thought"])

SayCall(k) ==
    /\ Saying /\ said.calls[k] < 0
    /\ Mixes \/ \A j \in 1 .. k - 1 : j \in Begun
    /\ said' = [said EXCEPT !.calls[k] = 0]
    /\ \E id \in IdsOf(k) : Comes([kind |-> "call", key |-> k, id |-> id])

SayArguments(k) ==
    /\ Saying /\ InPieces /\ k \in Begun /\ said.calls[k] < MaxParts[turn]
    /\ Mixes \/ k + 1 \notin Begun
    /\ said' = [said EXCEPT !.calls[k] = @ + 1]
    /\ Comes([kind |-> "args", key |-> k])

SayFinish(why) ==
    /\ Saying
    /\ \A k \in Begun : 1 .. k \subseteq Begun
    /\ \E c \in Counts : \E counts \in Reports(c) :
          /\ said' = [said EXCEPT !.why = why,
                         !.used = IF counts = NoUsage THEN @ ELSE [total |-> c.fresh + c.cached + c.out]]
          /\ Comes([kind |-> "finish", reason |-> RawReason(why), counts |-> counts])

-----------------------------------------------------------------------------
(* The end of a turn.                                                      *)

\* NormalizeStopReason
NormalizeStopReason(raw, hasCalls) ==
    CASE raw \in {"tool_calls", "tool_use"} -> "tool_use"
      [] raw \in {"length", "max_tokens"}   -> "max_tokens"
      [] OTHER -> IF hasCalls THEN "tool_use" ELSE "end_turn"

\* Arguments broken off are those of the last call.
Whole(k) == said.why = "end" \/ ~ InPieces \/ k + 1 \in Begun

\* The final chunk: the calls collected, the reason, the usage and Claude's thinking.
CallEvents ==
    [j \in DOMAIN acc.calls |->
        LET b == Collect(acc.calls)[j]
        IN  [kind |-> "tool_call", call |-> Call(<<turn, b.key>>, b.id, b.args, Whole(b.key))]]

StopEvent ==
    [kind |-> "stop", reason |-> NormalizeStopReason(acc.finish, acc.calls # <<>>),
     usage |-> acc.usage, thinking |-> acc.thinking]

FinalEventsStopFirst == <<StopEvent>> \o CallEvents

\* AgentService.Stream turns the final chunk into the calls and the stop.
FinalEvents == CallEvents \o <<StopEvent>>

\* The provider's stream ends without an error, whether or not it said that it finished.
StreamEnds ==
    /\ Streaming
    /\ phase' = "final" /\ todo' = FinalEvents
    /\ UNCHANGED <<turn, adapter, history, sent, said, acc, out, alive>>

WriteFinal ==
    /\ phase = "final" /\ todo # <<>>
    /\ Emit(Head(todo))
    /\ todo' = Tail(todo)
    /\ phase' = IF Len(todo) = 1 THEN "stopped" ELSE "final"
    /\ UNCHANGED <<turn, adapter, history, sent, said, acc, alive>>

\* The turn ends in an error: an event if the stream had begun, else an HTTP error.
FailTurn ==
    /\ phase' = "failed" /\ todo' = <<>>
    /\ IF out = <<>> THEN UNCHANGED out ELSE Emit([kind |-> "error"])
    /\ UNCHANGED <<turn, adapter, history, sent, said, acc, alive>>

\* The provider reports an error or the connection to it breaks.
UpstreamFails == Streaming /\ FailTurn

ClientLeaves ==
    /\ Streaming \/ phase = "final"
    /\ alive
    /\ alive' = FALSE
    /\ UNCHANGED <<turn, adapter, phase, history, sent, said, acc, todo, out>>

\* A write fails, or the cancelled request ends the provider's stream.
ClientMissed == phase \in {"stream", "final"} /\ ~ alive /\ FailTurn

-----------------------------------------------------------------------------
(* The client's next request.                                              *)

\* The events of a kind, in their order.
Only(s, kind) ==
    LET upTo[n \in Nat] ==
            IF n = 0 THEN <<>>
            ELSE IF s[n].kind = kind THEN Append(upTo[n - 1], s[n]) ELSE upTo[n - 1]
    IN  upTo[Len(s)]

Seen(kind) == Only(out, kind)
Has(kind) == \E k \in DOMAIN out : out[k].kind = kind
Told == Has("stop")

Answer ==
    [Msg("assistant") EXCEPT
        !.text = IF Seen("content") = <<>> THEN 0 ELSE turn,
        !.think = Seen("stop")[1].thinking,
        !.calls = [k \in DOMAIN Seen("tool_call") |-> Seen("tool_call")[k].call]]

Result(c, named) == [Msg("tool") EXCEPT !.of = c.of, !.id = c.id, !.named = named]
User(n) == [Msg("user") EXCEPT !.text = n]
System == [Msg("system") EXCEPT !.text = 1]

\* The results of an answer's calls, in either order, with the tools' names or without, and
\* perhaps with a system message after the first.
Results(calls, form) ==
    LET order == IF form.reversed THEN Reverse(calls) ELSE calls
        results == [k \in DOMAIN order |-> Result(order[k], form.named)]
    IN  IF form.note THEN <<results[1], System>> \o Tail(results) ELSE results

Continuations ==
    IF ~ Told THEN {<<>>}
    ELSE IF Answer.calls # <<>> THEN {<<Answer>> \o Results(Answer.calls, f) : f \in Forms[turn]}
    ELSE {(IF Answer.text = 0 THEN <<>> ELSE <<Answer>>) \o <<User(turn + 1)>>}

\* The next request: the conversation so far continued, or the same again after a failure.
Ask ==
    /\ phase \in {"idle", "stopped", "failed"} /\ turn < MaxTurns
    /\ turn' = turn + 1
    /\ \E more \in IF turn = 0 THEN {<<System, User(1)>>} ELSE Continuations :
          history' = history \o more
    /\ phase' = "ask"
    /\ adapter' \in Adapters
    /\ said' = [NothingSaid EXCEPT !.calls = [k \in 1 .. IF turn' < MaxTurns THEN MaxCalls[turn'] ELSE 0 |-> -1]]
    /\ acc' = NothingKept /\ sent' = <<>> /\ out' = <<>> /\ alive' = TRUE
    /\ UNCHANGED todo

\* The adapter has a key, the history converts, and the provider accepts the request.
Connect ==
    /\ phase = "ask" /\ Buildable(adapter, history)
    /\ phase' = "stream"
    /\ sent' = Build(adapter, history)
    /\ UNCHANGED <<turn, adapter, history, said, acc, todo, out, alive>>

ConnectFails == phase = "ask" /\ turn < MaxTurns /\ FailTurn

StreamNext ==
    \/ Ask \/ Connect \/ ConnectFails
    \/ SayText \/ SayThought
    \/ \E k \in DOMAIN said.calls : SayCall(k) \/ SayArguments(k)
    \/ \E why \in {"end", "cut"} : SayFinish(why)
    \/ StreamEnds \/ UpstreamFails
    \/ WriteFinal
    \/ ClientLeaves \/ ClientMissed

StreamSpec == StreamInit /\ [][StreamNext]_streamVars

-----------------------------------------------------------------------------

\* A client that is told that the answer is complete has all of it, as the model said it:
\* the text in order, every call once, in the model's order and with all its arguments, under
\* an id of its own; what counts against the quota is all the provider processed; and a stop
\* is told as tool_use exactly if there are calls and as max_tokens only if it was cut
\* (ChatStream of the adapters, AgentService.Stream).
AnswerWhole ==
    (phase = "stopped" /\ Told /\ said.why # "none") =>
        LET stop == Seen("stop")[1]
            calls == [k \in DOMAIN Seen("tool_call") |-> Seen("tool_call")[k].call]
        IN  /\ Seen("content") = [n \in 1 .. said.text |-> [kind |-> "content", piece |-> n]]
            /\ DOMAIN calls = Begun
            /\ \A k \in Begun : calls[k].of = <<turn, k>> /\ calls[k].args = said.calls[k]
            /\ \A j, k \in DOMAIN calls : calls[j].id = calls[k].id => j = k
            /\ stop.usage = said.used
            /\ said.why = "end" => (stop.reason = IF calls = <<>> THEN "end_turn" ELSE "tool_use")
            /\ stop.reason = "max_tokens" => said.why = "cut"

\* The parts of the request, each with its message.
Parts == FlattenSeq([m \in DOMAIN sent |->
            [j \in DOMAIN sent[m].parts |-> [p |-> sent[m].parts[j], msg |-> m, role |-> sent[m].role]]])

\* The client named the function of the result of this call.
Given(call) == \E k \in DOMAIN history : history[k].role = "tool" /\ history[k].of = call /\ history[k].named

\* Whatever adapters answered before and whatever ids they gave, a result reaches the
\* provider once, after the call it answers, under that call's id, and nothing of another
\* turn stands between the two.  In Gemini's form it names the call's function, whether or
\* not the client did and although ids repeat; in Ollama's it does if the client did.  For
\* Anthropic the results of a turn make up the message after its calls, and the turn's
\* thinking leads the calls
\* (claudeBuildMessages, buildResponsesInput, buildOllamaMessages, geminiBuildContents).
ResultsReachTheirCalls ==
    \A c \in DOMAIN Parts : Parts[c].p.kind = "call" =>
        \E r \in DOMAIN Parts :
            /\ c < r /\ Parts[r].p.kind = "result"
            /\ Parts[r].p.of = Parts[c].p.of /\ Parts[r].p.id = Parts[c].p.id
            /\ adapter = "gemini" \/ (adapter = "ollama" /\ Given(Parts[c].p.of)) =>
                  Parts[r].p.name = Parts[c].p.of
            /\ \A q \in DOMAIN Parts \ {r} : Parts[q].p.kind = "result" => Parts[q].p.of # Parts[c].p.of
            /\ \A q \in c .. r : Parts[q].role = "system" \/ Parts[q].p.of[1] = Parts[c].p.of[1]
            /\ adapter = "claude" =>
                  /\ Parts[r].msg = Parts[c].msg + 1
                  /\ LET first == sent[Parts[c].msg].parts[1]
                     IN  \A k \in DOMAIN history :
                           (history[k].calls # <<>> /\ history[k].calls[1].of[1] = Parts[c].p.of[1]
                              /\ history[k].think # 0) => first.kind = "think"

\* A turn as its client sees it: one that the handler completed after the client left has
\* failed for him.
Status ==
    CASE phase = "idle" -> "none"
      [] phase \in {"ask", "stream"} -> "open"
      [] phase = "final" -> IF Has("tool_call") THEN "calls" ELSE "open"
      [] OTHER -> IF Told THEN "stopped" ELSE "failed"

\* The adapters, the use case and the handler together keep the contract of a turn.
Contract == INSTANCE TurnStream WITH read <- [k \in DOMAIN out |-> out[k].kind], status <- Status
StreamContract == Contract!Spec

\* docs/API-SPEC.md: message_stop gives end_turn, tool_use or max_tokens, whatever the
\* provider calls it.
TruncationTold ==
    (phase = "stopped" /\ Told /\ said.why = "cut") => Seen("stop")[1].reason = "max_tokens"
=============================================================================
