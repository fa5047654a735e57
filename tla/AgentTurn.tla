------------------------------ MODULE AgentTurn ------------------------------
(***************************************************************************)
(* One question to the agent: the request to a language model, its tool    *)
(* calls, their results, and the request again until it answers.           *)
(*                                                                         *)
(* The messages of the turn are kept one by one, each call and the result  *)
(* that names it; what a message says is reduced to whether it says        *)
(* anything, and whether it is an answer or goes beside a tool call.  The  *)
(* model on the other side (external) may do anything.                     *)
(***************************************************************************)
EXTENDS Naturals, SequencesExt

CONSTANTS
    MaxIterations,   \* llm_max_iterations
    MaxCalls,        \* bound: the calls of one reply
    MaxTokens,       \* llm_max_tokens
    HistoryCap,      \* MAX_HISTORY_MESSAGES
    HistoryTurns     \* bound: the turns a client sends back

ASSUME AgentConstants ==
    /\ MaxIterations \in Nat \ {0}
    /\ MaxCalls \in Nat /\ MaxTokens \in Nat
    /\ HistoryCap \in Nat \ {0} /\ HistoryTurns \in Nat

Providers == {"anthropic", "groq", "nvidia"}
SingleCallProviders == {"nvidia"}

VARIABLES
    asking,          \* a turn is under way
    provider,
    msgs,            \* the messages of the next request, after the system prompt
    iter,            \* iterations spent
    tokens,          \* max_tokens of the next request
    forceSupported,  \* the endpoint has not refused tool_choice="required"
    nudged,          \* sent back to search (the second attempt, with Anthropic)
    answerNudged,    \* asked to answer from the results it read
    retries,         \* botched tool generations drawn again
    used,            \* tools_used is not empty
    text,            \* what the model said last
    requests,        \* history: the requests of the turn, counted to one past RequestBound
    result           \* what the caller got

loop == <<msgs, iter, tokens, forceSupported, nudged, answerNudged, retries, used, text, requests>>
vars == <<asking, provider, loop, result>>

(* A message: the ids of the calls it makes, or the id of the call it      *)
(* answers, and what a tool result holds.                                  *)
Message(role, calls, id, body) == [role |-> role, calls |-> calls, id |-> id, body |-> body]
User == Message("user", <<>>, <<>>, "words")
Assistant(calls) == Message("assistant", calls, <<>>, "words")
ToolResult(id, body) == Message("tool", <<>>, id, body)

Texts == {"none", "unsearched", "narration", "answer"}
Result(status, said, detail) == [status |-> status, text |-> said, detail |-> detail]
Nothing == Result(0, "none", "none")

-----------------------------------------------------------------------------
(* The history a client sends: role/content messages, or its own           *)
(* question-and-answer pairs; some of them blank, or no message at all.    *)
Turns == {"user", "assistant", "answered", "unanswered", "blank"}
MessagesOf(turn) ==
    CASE turn \in {"user", "unanswered"} -> <<User>>
      [] turn = "assistant" -> <<Assistant(<<>>)>>
      [] turn = "answered" -> <<User, Assistant(<<>>)>>
      [] turn = "blank" -> <<>>

LastMessages(s) == SubSeq(s, IF Len(s) > HistoryCap THEN Len(s) - HistoryCap + 1 ELSE 1, Len(s))

(* A plausible mistake: the cap may leave an answer first, and it stays.   *)
NormaliseHistoryAsCut(turns) == LastMessages(FlattenSeq([n \in DOMAIN turns |-> MessagesOf(turns[n])]))

NormaliseHistory(turns) ==
    LET kept == LastMessages(FlattenSeq([n \in DOMAIN turns |-> MessagesOf(turns[n])]))
        first == SelectInSeq(kept, LAMBDA m : m.role = "user")
    IN IF first = 0 THEN <<>> ELSE SubSeq(kept, first, Len(kept))

-----------------------------------------------------------------------------
(* A reply: calls the endpoint parsed, and the content as a sequence of    *)
(* pieces, each the text of a call to a known tool or anything else.       *)
Calls == {"runs", "raises", "unknown_tool", "unparsable"}
Replies == [calls : BoundedSeq(Calls, MaxCalls),
            content : {<<>>, <<"prose">>, <<"call">>, <<"call", "call">>, <<"call", "prose">>}]

(* Read back as calls only when the whole message is calls.                *)
TextToolCalls(content) ==
    IF \A n \in DOMAIN content : content[n] = "call"
    THEN [n \in DOMAIN content |-> "runs"] ELSE <<>>

(* With some providers the calls after the first are dropped, and made     *)
(* again when the model has seen the first one's result.                   *)
CallsOf(p, reply) ==
    LET given == IF reply.calls = <<>> THEN TextToolCalls(reply.content) ELSE reply.calls
    IN IF Len(given) > 1 /\ p \in SingleCallProviders THEN <<Head(given)>> ELSE given

(* The content, unless it was the calls themselves.                        *)
Says(reply) == reply.content # <<>> /\ (reply.calls # <<>> \/ TextToolCalls(reply.content) = <<>>)

(* A tool that does not exist or fails, and arguments that do not parse,   *)
(* come back in words, not as an exception.                                *)
Parses(call) == call # "unparsable"
Dispatch(call) == IF call \in {"unknown_tool", "raises"} THEN "complaint" ELSE "lines"
ResultOf(call) == IF Parses(call) THEN Dispatch(call) ELSE "complaint"

(* A plausible mistake: arguments that do not parse are skipped.           *)
ResultsIfParsed(calls) ==
    SelectSeq([n \in DOMAIN calls |-> <<n, ResultOf(calls[n])>>], LAMBDA r : Parses(calls[r[1]]))

Results(calls) == [n \in DOMAIN calls |-> <<n, ResultOf(calls[n])>>]

(* What each provider's replies come to.                                   *)
Heard == [p \in Providers |->
            {[calls |-> Len(CallsOf(p, r)), results |-> Results(CallsOf(p, r)), says |-> Says(r)] : r \in Replies}]

Exchange(heard) ==
    <<Assistant([n \in 1 .. heard.calls |-> <<iter + 1, n>>])>>
        \o [k \in DOMAIN heard.results |-> ToolResult(<<iter + 1, heard.results[k][1]>>, heard.results[k][2])]

-----------------------------------------------------------------------------
(* Making the next request smaller.                                        *)
Trimmable(ms) == {n \in DOMAIN ms : ms[n].role = "tool" /\ ms[n].body # "trimmed"}
LastAssistant(ms) == SelectLastInSeq(ms, LAMBDA m : m.role = "assistant")

(* A plausible mistake: the results after the last message count as older. *)
OlderAfter(ms) == {n \in Trimmable(ms) : n > LastAssistant(ms)}

Older(ms) == {n \in Trimmable(ms) : n < LastAssistant(ms)}

Compact(ms) ==
    LET trim == IF Older(ms) # {} THEN Older(ms) ELSE Trimmable(ms)
    IN [n \in DOMAIN ms |-> IF n \in trim THEN [ms[n] EXCEPT !.body = "trimmed"] ELSE ms[n]]

(* A plausible mistake: results that were trimmed count as trimmable.      *)
CanCompactAgain(ms) == \E n \in DOMAIN ms : ms[n].role = "tool"

CanCompact(ms) == Trimmable(ms) # {}

(* A plausible mistake: the reservation is set where it should be lowered. *)
RelieveSetting ==
    \/ /\ tokens # 2048
       /\ tokens' = 2048 /\ UNCHANGED msgs
    \/ /\ tokens = 2048 /\ CanCompact(msgs)
       /\ msgs' = Compact(msgs) /\ UNCHANGED tokens
    \/ /\ tokens = 2048 /\ ~CanCompact(msgs)
       /\ tokens' = 1024 /\ UNCHANGED msgs

Relieve ==
    \/ /\ tokens > 2048
       /\ tokens' = 2048 /\ UNCHANGED msgs
    \/ /\ tokens <= 2048 /\ CanCompact(msgs)
       /\ msgs' = Compact(msgs) /\ UNCHANGED tokens
    \/ /\ tokens > 1024 /\ tokens <= 2048 /\ ~CanCompact(msgs)
       /\ tokens' = 1024 /\ UNCHANGED msgs

-----------------------------------------------------------------------------
(* Each iteration is a request and all but the last add results to trim;   *)
(* besides, tool_choice is refused once and the reservation lowered twice. *)
RequestBound == 2 * MaxIterations + 2
Sent == requests' = IF requests > RequestBound THEN requests ELSE requests + 1

Init ==
    /\ asking = FALSE /\ provider = "groq" /\ result = Nothing
    /\ msgs = <<>> /\ iter = 0 /\ tokens = MaxTokens /\ forceSupported = TRUE
    /\ answerNudged = FALSE /\ retries = 0 /\ text = "none" /\ requests = 0
    /\ nudged = FALSE /\ used = FALSE

(* The locals of the loop start over with every question.                  *)
FreshLocals ==
    /\ iter' = 0 /\ tokens' = MaxTokens /\ forceSupported' = TRUE
    /\ answerNudged' = FALSE /\ retries' = 0 /\ text' = "none" /\ requests' = 0

(* POST /v1/agent/ask, past the gates.                                     *)
Ask ==
    /\ ~asking
    /\ \E p \in Providers, history \in BoundedSeq(Turns, HistoryTurns) :
          /\ provider' = p
          /\ msgs' = Append(NormaliseHistory(history), User)
    /\ asking' = TRUE /\ result' = Nothing
    /\ FreshLocals /\ nudged' = FALSE /\ used' = FALSE

(* Disabled, an unknown provider or no key: 503 before anything is read.   *)
AskUnavailable ==
    /\ ~asking
    /\ result' = Result(503, "none", "none")
    /\ UNCHANGED <<asking, provider, loop>>

Finish(r) ==
    /\ asking' = FALSE /\ result' = r
    /\ msgs' = <<>> /\ FreshLocals
    /\ UNCHANGED <<provider, nudged>>
Return(r) == Finish(r) /\ UNCHANGED used

(* The provider fails the request beyond the loop's own recovery (502), or *)
(* publishing a progress event fails and nobody catches it (500).          *)
ProviderFails == asking /\ Return(Result(502, "none", "none"))
PublishFails == asking /\ Return(Result(500, "none", "none"))

-----------------------------------------------------------------------------
(* The hand-written loop of the OpenAI-shaped endpoints.                   *)
Requesting == asking /\ provider # "anthropic" /\ iter < MaxIterations

Forced == forceSupported /\ ~used

RefusesToolChoice ==
    /\ Requesting /\ Sent /\ Forced
    /\ forceSupported' = FALSE
    /\ UNCHANGED <<asking, provider, result, msgs, iter, tokens, nudged, answerNudged, retries, used, text>>

(* A plausible mistake: botched generations are drawn again without limit. *)
BotchesToolCallAgain ==
    /\ Requesting /\ Sent
    /\ retries' = retries + 1 /\ iter' = iter + 1
    /\ UNCHANGED <<asking, provider, result, msgs, tokens, forceSupported, nudged, answerNudged, used, text>>

BotchesToolCall ==
    /\ Requesting /\ Sent /\ retries < 2
    /\ retries' = retries + 1 /\ iter' = iter + 1
    /\ UNCHANGED <<asking, provider, result, msgs, tokens, forceSupported, nudged, answerNudged, used, text>>

FindsTooLarge ==
    /\ Requesting /\ Sent
    /\ Relieve
    /\ UNCHANGED <<asking, provider, result, iter, forceSupported, nudged, answerNudged, retries, used, text>>

CallsTools ==
    /\ Requesting /\ Sent
    /\ \E heard \in Heard[provider] :
          /\ heard.calls > 0
          /\ msgs' = msgs \o Exchange(heard)
          /\ text' = IF heard.says THEN "narration" ELSE text
    /\ iter' = iter + 1 /\ used' = TRUE
    /\ UNCHANGED <<asking, provider, result, tokens, forceSupported, nudged, answerNudged, retries>>

(* A plausible mistake: what it said unsearched stays what it said last.   *)
NudgeKeepingText ==
    /\ Requesting /\ Sent /\ ~used /\ ~nudged
    /\ nudged' = TRUE /\ msgs' = msgs \o <<Assistant(<<>>), User>> /\ iter' = iter + 1
    /\ text' \in {text, "unsearched"}
    /\ UNCHANGED <<asking, provider, result, tokens, forceSupported, answerNudged, retries, used>>

(* No call and no tool has run: sent back once to search.                  *)
NudgeToSearch ==
    /\ Requesting /\ Sent /\ ~used /\ ~nudged
    /\ nudged' = TRUE /\ msgs' = msgs \o <<Assistant(<<>>), User>> /\ iter' = iter + 1
    /\ text' = "none"
    /\ UNCHANGED <<asking, provider, result, tokens, forceSupported, answerNudged, retries, used>>

(* Nothing said after the results: asked once to answer from them.         *)
NudgeToAnswer ==
    /\ Requesting /\ Sent /\ used /\ ~answerNudged
    /\ answerNudged' = TRUE /\ msgs' = msgs \o <<Assistant(<<>>), User>> /\ iter' = iter + 1
    /\ UNCHANGED <<asking, provider, result, tokens, forceSupported, nudged, retries, used, text>>

Answers ==
    /\ Requesting /\ (used \/ nudged)
    /\ Return(Result(200, "answer", "none"))

(* Neither content nor a call, and no nudge is left.                       *)
ReturnsNothing ==
    /\ Requesting /\ (used \/ nudged) /\ (used => answerNudged)
    /\ Return(Result(200, "none", "empty"))

OutOfIterations ==
    /\ asking /\ provider # "anthropic" /\ iter = MaxIterations
    /\ Return(Result(200, text, "stopped"))

-----------------------------------------------------------------------------
(* The SDK's tool runner, which runs the tools itself (external), inside   *)
(* the two attempts of _run_anthropic.                                     *)
Running == asking /\ provider = "anthropic" /\ iter < MaxIterations

RunnerCallsTools ==
    /\ Running /\ Sent /\ iter + 1 < MaxIterations
    /\ \E heard \in Heard[provider] : heard.calls > 0 /\ msgs' = msgs \o Exchange(heard)
    /\ iter' = iter + 1 /\ used' = TRUE
    /\ UNCHANGED <<asking, provider, result, tokens, forceSupported, nudged, answerNudged, retries, text>>

RunnerRefused == Running /\ Return(Result(200, "none", "refused"))

(* A message without calls, or the runner's last: its text is the answer,  *)
(* whatever it went with.                                                  *)
RunnerEnds ==
    /\ Running
    /\ \E heard \in Heard[provider] :
          /\ heard.calls = 0 \/ iter + 1 = MaxIterations
          /\ LET said == IF ~heard.says THEN "none" ELSE IF heard.calls = 0 THEN "answer" ELSE "narration"
             IN IF used \/ heard.calls > 0 \/ nudged
                THEN Finish(Result(200, said, "none")) /\ used' = (used \/ heard.calls > 0)
                ELSE /\ Sent /\ nudged' = TRUE /\ iter' = 0
                     /\ msgs' = msgs \o <<Assistant(<<>>), User>>
                     /\ UNCHANGED <<asking, provider, result, tokens, forceSupported, answerNudged,
                                    retries, used, text>>

-----------------------------------------------------------------------------
Step ==
    \/ ProviderFails \/ PublishFails
    \/ RefusesToolChoice \/ BotchesToolCall \/ FindsTooLarge
    \/ CallsTools \/ NudgeToSearch \/ NudgeToAnswer
    \/ Answers \/ ReturnsNothing \/ OutOfIterations
    \/ RunnerCallsTools \/ RunnerRefused \/ RunnerEnds

Next == Ask \/ AskUnavailable \/ Step

Spec == Init /\ [][Next]_vars

-----------------------------------------------------------------------------
Roles == {"user", "assistant", "tool"}
TypeOK ==
    /\ asking \in BOOLEAN /\ provider \in Providers
    /\ \A n \in DOMAIN msgs : msgs[n].role \in Roles /\ msgs[n].body \in {"words", "lines", "complaint", "trimmed"}
    /\ iter \in 0 .. MaxIterations /\ tokens \in {MaxTokens, 2048, 1024}
    /\ forceSupported \in BOOLEAN /\ nudged \in BOOLEAN /\ answerNudged \in BOOLEAN
    /\ retries \in 0 .. 2 /\ used \in BOOLEAN /\ text \in Texts
    /\ result.status \in {0, 200, 500, 502, 503} /\ result.text \in Texts

(* What providers reject outright: every request opens with the user, ends *)
(* with something to answer, and has after each assistant message exactly  *)
(* the results of its calls, in their order, under ids used once; however  *)
(* the history was cut, the results trimmed and the calls written.         *)
(* _run_openai_compatible, _compact, normalise_history.                    *)
WellFormedRequest ==
    asking =>
        /\ msgs[1].role = "user"
        /\ msgs[Len(msgs)].role # "assistant"
        /\ \A n \in DOMAIN msgs :
              /\ \A k \in DOMAIN msgs[n].calls :
                    n + k \in DOMAIN msgs /\ msgs[n + k].role = "tool" /\ msgs[n + k].id = msgs[n].calls[k]
              /\ msgs[n].role = "tool" =>
                    \E m \in 1 .. n - 1 : n - m \in DOMAIN msgs[m].calls /\ msgs[m].calls[n - m] = msgs[n].id
              /\ \A m \in DOMAIN msgs : m # n /\ msgs[m].role = "tool" => msgs[m].id # msgs[n].id
              /\ provider \in SingleCallProviders => Len(msgs[n].calls) <= 1

(* What the model is about to reason over is given up last: however relief,*)
(* new results and nudges alternate, no result is trimmed while one before *)
(* it is whole.  _compact.                                                 *)
EarlierResultsFirst ==
    \A m, n \in DOMAIN msgs :
        m < n /\ msgs[m].role = "tool" /\ msgs[n].body = "trimmed" => msgs[m].body = "trimmed"

(* Whatever is returned was said after a tool had run, or after the model  *)
(* had been sent back to search; the unsearched answer is never returned.  *)
NeverUnsearched ==
    result.status = 200 /\ result.text # "none" => result.text # "unsearched" /\ (used \/ nudged)

(* A turn stops rather than spends: however errors, trims, nudges and      *)
(* calls follow each other, its requests are bounded by the iterations.    *)
(* _run_openai_compatible, relieve, _compact.                              *)
RequestsBounded == requests <= RequestBound
=============================================================================
