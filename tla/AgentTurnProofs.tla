---------------------------- MODULE AgentTurnProofs ----------------------------
(***************************************************************************)
(* What a turn returns, asks for and trims, for any number of iterations,  *)
(* calls and turns of history, and whatever the model on the other side    *)
(* replies.                                                                *)
(***************************************************************************)
EXTENDS AgentTurn, SequenceTheorems, FiniteSetTheorems, Induction, TLAPS

(* While a turn is under way nothing was returned, and what the model said *)
(* last is nothing or the narration beside a call that has run.            *)
TurnInv ==
    /\ used \in BOOLEAN /\ nudged \in BOOLEAN
    /\ asking => result = Nothing
    /\ asking /\ text # "none" => text = "narration" /\ used
    /\ NeverUnsearched

(* The requests that go on with the turn.                                  *)
GoesOn ==
    \/ RefusesToolChoice \/ BotchesToolCall \/ FindsTooLarge
    \/ CallsTools \/ NudgeToSearch \/ NudgeToAnswer \/ RunnerCallsTools

(* A request that goes on returns nothing, and what is said beside a call  *)
(* is kept only with the call.                                             *)
LEMMA TurnGoesOn == TurnInv /\ GoesOn => TurnInv'
<1> SUFFICES ASSUME TurnInv, GoesOn PROVE TurnInv'
  OBVIOUS
<1>1. asking /\ UNCHANGED <<asking, result>>
  BY DEF GoesOn, RefusesToolChoice, BotchesToolCall, FindsTooLarge, CallsTools, NudgeToSearch,
         NudgeToAnswer, RunnerCallsTools, Requesting, Running
<1>2. \/ UNCHANGED <<text, used>>
      \/ used' = TRUE /\ text' \in {"narration", text}
      \/ text' = "none" /\ UNCHANGED used
  BY DEF GoesOn, RefusesToolChoice, BotchesToolCall, FindsTooLarge, CallsTools, NudgeToSearch,
         NudgeToAnswer, RunnerCallsTools
<1>3. nudged' \in {nudged, TRUE}
  BY DEF GoesOn, RefusesToolChoice, BotchesToolCall, FindsTooLarge, CallsTools, NudgeToSearch,
         NudgeToAnswer, RunnerCallsTools
<1>4. result.status # 200
  BY <1>1 DEF TurnInv, Nothing, Result
<1> QED
  BY <1>1, <1>2, <1>3, <1>4 DEF TurnInv, NeverUnsearched

(* The ends of a turn: an answer or narration only after a tool or a nudge.*)
LEMMA TurnEnds == TurnInv /\ Step /\ ~GoesOn => TurnInv'
<1> SUFFICES ASSUME TurnInv, Step, ~GoesOn PROVE TurnInv'
  OBVIOUS
<1>1. CASE ProviderFails \/ PublishFails \/ RunnerRefused
  <2>1. asking' = FALSE /\ UNCHANGED <<used, nudged>>
    BY <1>1 DEF ProviderFails, PublishFails, RunnerRefused, Return, Finish
  <2>2. result'.status # 200 \/ result'.text = "none"
    BY <1>1 DEF ProviderFails, PublishFails, RunnerRefused, Return, Finish, Result
  <2> QED
    BY <2>1, <2>2 DEF TurnInv, NeverUnsearched
<1>2. CASE Answers \/ ReturnsNothing \/ OutOfIterations
  <2>1. asking' = FALSE /\ UNCHANGED <<used, nudged>>
    BY <1>2 DEF Answers, ReturnsNothing, OutOfIterations, Return, Finish
  <2>2. CASE Answers \/ ReturnsNothing
    <3>1. used \/ nudged
      BY <2>2 DEF Answers, ReturnsNothing
    <3>2. Answers => result'.text = "answer"
      BY DEF Answers, Return, Finish, Result
    <3>3. ReturnsNothing => result'.text = "none"
      BY DEF ReturnsNothing, Return, Finish, Result
    <3> QED
      BY <2>1, <2>2, <3>1, <3>2, <3>3 DEF TurnInv, NeverUnsearched
  <2>3. CASE OutOfIterations
    <3>1. asking
      BY <2>3 DEF OutOfIterations
    <3>2. result'.text = text
      BY <2>3 DEF OutOfIterations, Return, Finish, Result
    <3> QED
      BY <2>1, <3>1, <3>2 DEF TurnInv, NeverUnsearched
  <2> QED
    BY <1>2, <2>2, <2>3
<1>3. CASE RunnerEnds
  <2>1. PICK heard \in Heard[provider] :
           LET said == IF ~heard.says THEN "none" ELSE IF heard.calls = 0 THEN "answer" ELSE "narration"
           IN IF used \/ heard.calls > 0 \/ nudged
              THEN Finish(Result(200, said, "none")) /\ used' = (used \/ heard.calls > 0)
              ELSE nudged' = TRUE /\ UNCHANGED <<asking, result, used, text>>
    BY <1>3 DEF RunnerEnds
  <2>2. CASE used \/ heard.calls > 0 \/ nudged
    <3>1. asking' = FALSE /\ UNCHANGED nudged /\ used' = (used \/ heard.calls > 0)
      BY <2>1, <2>2 DEF Finish
    <3>2. result'.text \in {"none", "answer", "narration"}
      BY <2>1, <2>2 DEF Finish, Result
    <3> QED
      BY <2>2, <3>1, <3>2 DEF TurnInv, NeverUnsearched
  <2>3. CASE ~(used \/ heard.calls > 0 \/ nudged)
    <3>1. asking /\ nudged' = TRUE /\ UNCHANGED <<asking, result, used, text>>
      BY <1>3, <2>1, <2>3 DEF RunnerEnds, Running
    <3> QED
      BY <3>1 DEF TurnInv, NeverUnsearched, Nothing, Result
  <2> QED
    BY <2>2, <2>3
<1> QED
  BY <1>1, <1>2, <1>3 DEF Step, GoesOn

(* Nothing that was said without searching is returned to the caller: what *)
(* is returned was said after a tool had run or after the model had been   *)
(* sent back to search.  _run_openai_compatible, _run_anthropic.           *)
THEOREM NothingUnsearchedIsReturned == Spec => []NeverUnsearched
<1>1. Init => TurnInv
  <2>1. Init => result.status # 200
    BY DEF Init, Nothing, Result
  <2> QED
    BY <2>1 DEF Init, TurnInv, NeverUnsearched
<1>2. TurnInv /\ Ask => TurnInv'
  <2>1. Ask => result'.status # 200
    BY DEF Ask, Nothing, Result
  <2> QED
    BY <2>1 DEF Ask, FreshLocals, TurnInv, NeverUnsearched
<1>3. TurnInv /\ AskUnavailable => TurnInv'
  <2>1. AskUnavailable => result'.status # 200 /\ asking' = FALSE /\ UNCHANGED <<used, nudged>>
    BY DEF AskUnavailable, loop, Result
  <2> QED
    BY <2>1 DEF TurnInv, NeverUnsearched
<1>4. TurnInv /\ UNCHANGED vars => TurnInv'
  BY DEF TurnInv, NeverUnsearched, vars, loop
<1>5. TurnInv /\ [Next]_vars => TurnInv'
  BY <1>2, <1>3, <1>4, TurnGoesOn, TurnEnds DEF Next
<1>6. TurnInv => NeverUnsearched
  BY DEF TurnInv
<1> QED
  BY <1>1, <1>5, <1>6, PTL DEF Spec

-----------------------------------------------------------------------------
(* The messages of a turn.  Ids are <<iteration, place in the reply>>.     *)
Bodies == {"words", "lines", "complaint", "trimmed"}
Ids == Nat \X Nat
Messages == [role : Roles, calls : Seq(Ids), id : Ids \cup {<<>>}, body : Bodies]
Plain == {User, Assistant(<<>>)}

(* Sequences joined are a sequence over what they were over.               *)
LEMMA SequencesJoined ==
    ASSUME NEW S, NEW seqs \in Seq(Seq(S)) PROVE FlattenSeq(seqs) \in Seq(S)
<1>0. CASE Len(seqs) = 0
  <2>1. FlattenSeq(seqs) = seqs /\ seqs = <<>>
    BY <1>0 DEF FlattenSeq
  <2> QED
    BY <2>1
<1> SUFFICES ASSUME Len(seqs) # 0 PROVE FlattenSeq(seqs) \in Seq(S)
  BY <1>0
<1> DEFINE N == Len(seqs)
           next == [i \in 1 .. N |-> [s \in Seq(S) |-> IF i = 1 THEN seqs[i] ELSE s \o seqs[i]]]
<1>1. N \in Nat /\ <<>> \in Seq(S) /\ 1 \in 1 .. N /\ N \in 1 .. N
  OBVIOUS
<1>2. \A i \in 1 .. N : \A d \in Seq(S) : next[i][d] \in Seq(S)
  OBVIOUS
<1>3. PICK f \in [0 .. N -> Seq(S)] : f[0] = <<>> /\ \A i \in 1 .. N : f[i] = next[i][f[i - 1]]
  <2>1. \E f : StepByStep(f, N, Seq(S), <<>>, next)
    <3> HIDE DEF next, N
    <3> QED
      BY <1>1, <1>2, Recursion
  <2> HIDE DEF next, N
  <2> QED
    BY <2>1 DEF StepByStep
<1> DEFINE g == [i \in 1 .. N |-> f[i]]
           F == CHOOSE h : h = [i \in 1 .. N |-> IF i = 1 THEN seqs[i] ELSE h[i - 1] \o seqs[i]]
<1>4. g = [i \in 1 .. N |-> IF i = 1 THEN seqs[i] ELSE g[i - 1] \o seqs[i]]
  <2> SUFFICES ASSUME NEW i \in 1 .. N PROVE f[i] = IF i = 1 THEN seqs[i] ELSE g[i - 1] \o seqs[i]
    OBVIOUS
  <2>1. i - 1 \in 0 .. N /\ (i # 1 => i - 1 \in 1 .. N)
    OBVIOUS
  <2>2. f[i] = IF i = 1 THEN seqs[i] ELSE f[i - 1] \o seqs[i]
    BY <1>3, <2>1
  <2> QED
    BY <2>1, <2>2
<1>5. F = [i \in 1 .. N |-> IF i = 1 THEN seqs[i] ELSE F[i - 1] \o seqs[i]]
  <2> HIDE DEF g
  <2> QED
    BY <1>4
<1>6. FlattenSeq(seqs) = F[N]
  BY DEF FlattenSeq
<1> HIDE DEF F
<1>8. \A i \in 1 .. N : F[i] = IF i = 1 THEN seqs[i] ELSE F[i - 1] \o seqs[i]
  BY <1>5
<1>7. \A n \in Nat : n \in 1 .. N => F[n] \in Seq(S)
  <2> DEFINE Good == {n \in Nat : n \in 1 .. N => F[n] \in Seq(S)}
  <2>1. 0 \in Good
    OBVIOUS
  <2>2. ASSUME NEW n \in Nat, n \in Good PROVE n + 1 \in Good
    <3> SUFFICES ASSUME n + 1 \in 1 .. N PROVE F[n + 1] \in Seq(S)
      OBVIOUS
    <3>1. F[n + 1] = IF n + 1 = 1 THEN seqs[n + 1] ELSE F[n] \o seqs[n + 1]
      <4>1. (n + 1) - 1 = n
        OBVIOUS
      <4> QED
        BY <1>8, <4>1
    <3>2. n + 1 # 1 => F[n] \in Seq(S)
      BY <2>2
    <3>3. seqs[n + 1] \in Seq(S)
      OBVIOUS
    <3> QED
      BY <3>1, <3>2, <3>3, ConcatProperties
  <2> HIDE DEF Good
  <2>3. Nat \subseteq Good
    BY <2>1, <2>2, NumberInduction
  <2> QED
    BY <2>3 DEF Good
<1> QED
  BY <1>1, <1>6, <1>7

(* What history and nudges are made of are messages.                       *)
LEMMA PlainMessages == Seq(Plain) \subseteq Seq(Messages)
<1>1. User \in Messages /\ Assistant(<<>>) \in Messages
  BY DEF User, Assistant, Message, Messages, Roles, Bodies
<1> QED
  BY <1>1 DEF Plain

(* The first message of the user, when there is one.                       *)
LEMMA FirstUser ==
    ASSUME NEW s \in Seq(Messages), NEW first, first = SelectInSeq(s, LAMBDA m : m.role = "user"), first # 0
    PROVE  first \in 1 .. Len(s) /\ s[first].role = "user"
<1> DEFINE Users == {i \in 1 .. Len(s) : s[i].role = "user"}
<1>1. first = IF Users # {} THEN Min(Users) ELSE 0
  BY DEF SelectInSeq
<1> HIDE DEF Users
<1>2. Users # {}
  BY <1>1
<1>3. Users \subseteq Nat
  BY DEF Users
<1>4. Min(Users) \in Users
  <2>1. PICK m \in Users : \A k \in Users : m <= k
    BY <1>2, <1>3, LeastNumber
  <2> QED
    BY <2>1 DEF Min
<1> QED
  BY <1>1, <1>2, <1>4 DEF Users

(* What comes before the last assistant message comes before one.          *)
LEMMA LastAssistantIsLast ==
    ASSUME NEW s \in Seq(Messages), NEW n \in 1 .. Len(s), n < LastAssistant(s)
    PROVE  LastAssistant(s) \in 1 .. Len(s) /\ s[LastAssistant(s)].role = "assistant"
<1> DEFINE I == {i \in 1 .. Len(s) : s[i].role = "assistant"}
<1>1. LastAssistant(s) = IF I # {} THEN Max(I) ELSE 0
  BY DEF LastAssistant, SelectLastInSeq
<1> HIDE DEF I
<1>2. I # {}
  BY <1>1
<1>3. I \in SUBSET (0 .. Len(s)) /\ Len(s) \in Nat
  BY DEF I
<1>4. Max(I) \in I
  <2>1. PICK m \in I : \A k \in I : k <= m
    BY <1>2, <1>3, GreatestNumber
  <2>2. m \in I /\ \A k \in I : m >= k
    <3> SUFFICES ASSUME NEW k \in I PROVE m >= k
      BY <2>1
    <3>1. k <= m /\ k \in 0 .. Len(s) /\ m \in 0 .. Len(s)
      BY <2>1, <1>3
    <3> QED
      BY <3>1
  <2> QED
    BY <2>2 DEF Max
<1> QED
  BY <1>1, <1>2, <1>4 DEF I

(* The history that is kept opens with the user.  normalise_history.       *)
LEMMA HistoryIsPlain ==
    ASSUME NEW history \in Seq(Turns)
    PROVE  /\ NormaliseHistory(history) \in Seq(Plain)
           /\ NormaliseHistory(history) # <<>> => NormaliseHistory(history)[1] = User
<1> DEFINE all == FlattenSeq([n \in DOMAIN history |-> MessagesOf(history[n])])
           kept == LastMessages(all)
           first == SelectInSeq(kept, LAMBDA m : m.role = "user")
<1>1. all \in Seq(Plain)
  <2>1. ASSUME NEW turn \in Turns PROVE MessagesOf(turn) \in Seq(Plain)
    <3>1. User \in Plain /\ Assistant(<<>>) \in Plain
      BY DEF Plain
    <3>2. CASE turn = "user" \/ turn = "unanswered"
      BY <3>1, <3>2 DEF MessagesOf
    <3>3. CASE turn = "assistant"
      BY <3>1, <3>3 DEF MessagesOf
    <3>4. CASE turn = "answered"
      BY <3>1, <3>4 DEF MessagesOf
    <3>5. CASE turn = "blank"
      BY <3>5 DEF MessagesOf
    <3> QED
      BY <3>2, <3>3, <3>4, <3>5 DEF Turns
  <2>2. Len(history) \in Nat /\ DOMAIN history = 1 .. Len(history)
        /\ \A n \in 1 .. Len(history) : MessagesOf(history[n]) \in Seq(Plain)
    BY <2>1
  <2>3. [n \in 1 .. Len(history) |-> MessagesOf(history[n])] \in Seq(Seq(Plain))
    BY <2>2
  <2> QED
    BY <2>2, <2>3, SequencesJoined
<1>2. kept \in Seq(Plain)
  <2> HIDE DEF all
  <2>1. Len(all) \in Nat /\ HistoryCap \in Nat \ {0}
    BY <1>1, AgentConstants
  <2>2. CASE Len(all) > HistoryCap
    BY <1>1, <2>1, <2>2, SubSeqProperties DEF LastMessages
  <2>3. CASE ~(Len(all) > HistoryCap)
    BY <1>1, <2>1, <2>3, SubSeqProperties DEF LastMessages
  <2> QED
    BY <2>2, <2>3
<1> HIDE DEF kept
<1>3. kept \in Seq(Messages)
  BY <1>2, PlainMessages
<1>4. CASE first = 0
  BY <1>4 DEF NormaliseHistory, kept
<1>5. CASE first # 0
  <2>1. first \in 1 .. Len(kept) /\ kept[first].role = "user"
    BY <1>3, <1>5, FirstUser
  <2> HIDE DEF first
  <2>2. NormaliseHistory(history) = SubSeq(kept, first, Len(kept))
    BY <1>5 DEF NormaliseHistory, kept, first
  <2>3. SubSeq(kept, first, Len(kept)) \in Seq(Plain) /\ SubSeq(kept, first, Len(kept))[1] = kept[first]
    BY <1>2, <2>1, SubSeqProperties
  <2>4. kept[first] = User
    <3>1. kept[first] \in Plain
      BY <1>2, <2>1
    <3> QED
      BY <2>1, <3>1 DEF Plain, User, Assistant, Message
  <2> QED
    BY <2>2, <2>3, <2>4
<1> QED
  BY <1>4, <1>5

(* What a reply comes to, once the calls a provider may not make are       *)
(* dropped: its calls, and a result for each, in their order.              *)
Hears(heard, p) ==
    /\ heard.calls \in Nat
    /\ p \in SingleCallProviders => heard.calls <= 1
    /\ DOMAIN heard.results = 1 .. heard.calls
    /\ \A k \in 1 .. heard.calls : heard.results[k][1] = k /\ heard.results[k][2] \in Bodies \ {"trimmed"}

(* Every reply comes to that, parsed by the endpoint or read out of text.  *)
LEMMA WhatIsHeard ==
    ASSUME NEW p \in Providers, NEW heard \in Heard[p] PROVE Hears(heard, p)
<1>1. PICK r \in Replies :
         heard = [calls |-> Len(CallsOf(p, r)), results |-> Results(CallsOf(p, r)), says |-> Says(r)]
  BY DEF Heard
<1>2. r.calls \in Seq(Calls)
  <2>1. PICK m \in 0 .. MaxCalls : r.calls \in [1 .. m -> Calls]
    BY <1>1 DEF Replies, BoundedSeq, SeqOf
  <2> QED
    BY <2>1, AgentConstants
<1>3. TextToolCalls(r.content) \in Seq(Calls)
  <2>1. PICK c : c = r.content /\ Len(c) \in Nat /\ DOMAIN c = 1 .. Len(c)
    BY <1>1 DEF Replies
  <2>2. "runs" \in Calls
    BY DEF Calls
  <2> QED
    BY <2>1, <2>2 DEF TextToolCalls
<1> DEFINE given == IF r.calls = <<>> THEN TextToolCalls(r.content) ELSE r.calls
<1>4. given \in Seq(Calls)
  BY <1>2, <1>3
<1>5. CallsOf(p, r) = IF Len(given) > 1 /\ p \in SingleCallProviders THEN <<Head(given)>> ELSE given
  BY DEF CallsOf
<1> HIDE DEF given
<1> DEFINE calls == CallsOf(p, r)
<1>6. calls \in Seq(Calls) /\ (p \in SingleCallProviders => Len(calls) <= 1)
  BY <1>4, <1>5
<1> HIDE DEF calls
<1>7. heard.calls = Len(calls) /\ heard.results = Results(calls)
  BY <1>1 DEF calls
<1>8. ASSUME NEW call \in Calls PROVE ResultOf(call) \in Bodies \ {"trimmed"}
  BY DEF ResultOf, Dispatch, Bodies
<1>9. DOMAIN Results(calls) = 1 .. Len(calls)
      /\ \A k \in 1 .. Len(calls) : Results(calls)[k] = <<k, ResultOf(calls[k])>>
  BY <1>6 DEF Results
<1>10. \A k \in 1 .. Len(calls) : calls[k] \in Calls
  BY <1>6
<1> QED
  BY <1>6, <1>7, <1>8, <1>9, <1>10 DEF Hears

(* What the loop appends for it.                                           *)
Block(top, heard) ==
    <<Assistant([n \in 1 .. heard.calls |-> <<top, n>>])>>
        \o [k \in DOMAIN heard.results |-> ToolResult(<<top, heard.results[k][1]>>, heard.results[k][2])]

(* An assistant message, and after it the results of its calls, each under *)
(* the id of the call.                                                     *)
LEMMA ExchangeOf ==
    ASSUME NEW p, NEW heard, Hears(heard, p), NEW top \in Nat
    PROVE  LET b == Block(top, heard)
           IN /\ b \in Seq(Messages) /\ Len(b) = heard.calls + 1
              /\ b[1] = Assistant([n \in 1 .. heard.calls |-> <<top, n>>])
              /\ \A k \in 1 .. heard.calls :
                    /\ b[1 + k].role = "tool" /\ b[1 + k].calls = <<>>
                    /\ b[1 + k].id = <<top, k>> /\ b[1 + k].body # "trimmed"
<1> DEFINE ids == [n \in 1 .. heard.calls |-> <<top, n>>]
           res == [k \in DOMAIN heard.results |-> ToolResult(<<top, heard.results[k][1]>>, heard.results[k][2])]
<1>1. heard.calls \in Nat
  BY DEF Hears
<1>2. ids \in Seq(Ids)
  BY <1>1 DEF Ids
<1>3. <<Assistant(ids)>> \in Seq(Messages)
  <2> HIDE DEF ids
  <2>1. Assistant(ids) \in Messages
    BY <1>2 DEF Assistant, Message, Messages, Roles, Bodies
  <2> QED
    BY <2>1
<1>4. \A k \in 1 .. heard.calls : /\ res[k] \in Messages /\ res[k].role = "tool" /\ res[k].calls = <<>>
                                  /\ res[k].id = <<top, k>> /\ res[k].body # "trimmed"
  <2> SUFFICES ASSUME NEW k \in 1 .. heard.calls
               PROVE  /\ res[k] \in Messages /\ res[k].role = "tool" /\ res[k].calls = <<>>
                      /\ res[k].id = <<top, k>> /\ res[k].body # "trimmed"
    OBVIOUS
  <2>1. PICK body \in Bodies \ {"trimmed"} : res[k] = ToolResult(<<top, k>>, body)
    BY DEF Hears
  <2>2. <<top, k>> \in Ids
    BY <1>1 DEF Ids
  <2> QED
    <3>1. PICK id : id = <<top, k>>
      OBVIOUS
    <3>2. ToolResult(id, body) = [role |-> "tool", calls |-> <<>>, id |-> id, body |-> body]
      BY DEF ToolResult, Message
    <3>3. <<>> \in Seq(Ids) /\ "tool" \in Roles /\ id \in Ids \cup {<<>>}
      BY <2>2, <3>1 DEF Roles
    <3>4. ToolResult(id, body) \in Messages
      BY <3>2, <3>3 DEF Messages
    <3> HIDE DEF res
    <3>5. res[k] = ToolResult(id, body)
      BY <2>1, <3>1
    <3> QED
      BY <3>1, <3>2, <3>4, <3>5
<1>5. res \in Seq(Messages) /\ Len(res) = heard.calls
  <2>1. DOMAIN res = 1 .. heard.calls
    BY DEF Hears
  <2>2. res \in [1 .. heard.calls -> Messages]
    <3>1. PICK f : f = res
      OBVIOUS
    <3>2. f = [k \in 1 .. heard.calls |-> f[k]]
      BY <2>1, <3>1
    <3> HIDE DEF res
    <3> QED
      BY <1>4, <3>1, <3>2
  <2> HIDE DEF res
  <2> QED
    BY <1>1, <2>2
<1> HIDE DEF ids, res
<1>6. Block(top, heard) = <<Assistant(ids)>> \o res
  BY DEF Block, ids, res
<1>7. Len(<<Assistant(ids)>>) = 1 /\ <<Assistant(ids)>>[1] = Assistant(ids)
  OBVIOUS
<1> DEFINE b == <<Assistant(ids)>> \o res
<1>8. b \in Seq(Messages) /\ Len(b) = heard.calls + 1 /\ b[1] = Assistant(ids)
      /\ \A k \in 1 .. heard.calls : b[1 + k] = res[k]
  BY <1>1, <1>3, <1>5, <1>7, ConcatProperties
<1> QED
  BY <1>4, <1>6, <1>8 DEF ids

(* What the requests of a turn keep to, at each iteration: an opening by   *)
(* the user and something to answer at the end; calls from the assistant   *)
(* only and ids on results only; after each assistant message the results  *)
(* of its calls; each result under the id of a call of this turn; the      *)
(* results of an iteration at the places their ids say, after one message; *)
(* and one call at a time where the provider asks for it.                  *)
FromUser(ms) ==
    ms \in Seq(Messages) /\ ms # <<>> /\ ms[1].role = "user" /\ ms[Len(ms)].role # "assistant"
OnlyAssistantsCall(ms) == \A n \in DOMAIN ms : ms[n].role # "assistant" => ms[n].calls = <<>>
OnlyResultsHaveIds(ms) == \A n \in DOMAIN ms : ms[n].role # "tool" => ms[n].id = <<>>
CallsAreAnswered(ms) ==
    \A n \in DOMAIN ms : \A k \in DOMAIN ms[n].calls :
        n + k \in DOMAIN ms /\ ms[n + k].role = "tool" /\ ms[n + k].id = ms[n].calls[k]
ResultsWereAsked(ms, top) ==
    \A n \in DOMAIN ms : ms[n].role = "tool" =>
        \E i \in 1 .. top, k \in 1 .. n - 1 :
            ms[n].id = <<i, k>> /\ k \in DOMAIN ms[n - k].calls /\ ms[n - k].calls[k] = <<i, k>>
Together(ms) ==
    \A m, n \in DOMAIN ms : \A i, j, k \in Nat :
        ms[m].id = <<i, j>> /\ ms[n].id = <<i, k>> => m - j = n - k
OneCallEach(ms, p) == p \in SingleCallProviders => \A n \in DOMAIN ms : Len(ms[n].calls) <= 1
Conversation(ms, top, p) ==
    /\ FromUser(ms) /\ OnlyAssistantsCall(ms) /\ OnlyResultsHaveIds(ms)
    /\ CallsAreAnswered(ms) /\ ResultsWereAsked(ms, top) /\ Together(ms) /\ OneCallEach(ms, p)

(* Nothing but questions and answers: no call, and no result to place.     *)
LEMMA PlainConversation ==
    ASSUME NEW ms \in Seq(Plain), ms # <<>>, ms[1] = User, ms[Len(ms)] = User, NEW p
    PROVE  Conversation(ms, 0, p)
<1>1. Len(ms) \in Nat \ {0} /\ DOMAIN ms = 1 .. Len(ms) /\ ms \in Seq(Messages)
  BY PlainMessages
<1>2. \A n \in DOMAIN ms : ms[n].role # "tool" /\ ms[n].calls = <<>> /\ ms[n].id = <<>>
  <2>1. \A m \in Plain : m.role # "tool" /\ m.calls = <<>> /\ m.id = <<>>
    BY DEF Plain, User, Assistant, Message
  <2> QED
    BY <2>1
<1>3. FromUser(ms)
  BY <1>1 DEF FromUser, User, Message
<1>4. OnlyAssistantsCall(ms) /\ OnlyResultsHaveIds(ms)
  BY <1>2 DEF OnlyAssistantsCall, OnlyResultsHaveIds
<1>5. CallsAreAnswered(ms) /\ OneCallEach(ms, p)
  <2>1. DOMAIN <<>> = {} /\ Len(<<>>) = 0
    OBVIOUS
  <2> QED
    BY <1>2, <2>1 DEF CallsAreAnswered, OneCallEach
<1>6. ResultsWereAsked(ms, 0)
  BY <1>2 DEF ResultsWereAsked
<1>7. Together(ms)
  <2>1. \A i, j : <<>> # <<i, j>>
    OBVIOUS
  <2> QED
    BY <1>2, <2>1 DEF Together
<1> QED
  BY <1>3, <1>4, <1>5, <1>6, <1>7 DEF Conversation

(* An iteration that adds no message changes nothing.                      *)
LEMMA ConversationGoesOn ==
    ASSUME NEW ms, NEW top \in Nat, NEW p, Conversation(ms, top, p)
    PROVE  Conversation(ms, top + 1, p)
<1>1. \A i \in 1 .. top : i \in 1 .. top + 1
  OBVIOUS
<1>2. ResultsWereAsked(ms, top) => ResultsWereAsked(ms, top + 1)
  BY <1>1 DEF ResultsWereAsked
<1> QED
  BY <1>2 DEF Conversation

(* An id in the messages is that of a result, from an iteration that ran.  *)
LEMMA IdsAreOld ==
    ASSUME NEW ms, NEW top \in Nat, NEW p, Conversation(ms, top, p),
           NEW n \in DOMAIN ms, NEW i, NEW k, ms[n].id = <<i, k>>
    PROVE  ms[n].role = "tool" /\ i \in 1 .. top
<1>1. <<>> # <<i, k>>
  OBVIOUS
<1>2. ms[n].role = "tool"
  BY <1>1 DEF Conversation, OnlyResultsHaveIds
<1>3. PICK i2 \in 1 .. top, k2 \in 1 .. n - 1 : ms[n].id = <<i2, k2>>
  BY <1>2 DEF Conversation, ResultsWereAsked
<1> QED
  BY <1>2, <1>3

(* A reply with calls and the results of the calls go on with it.          *)
LEMMA ExchangeContinues ==
    ASSUME NEW ms, NEW top \in Nat, NEW p, NEW heard,
           Conversation(ms, top, p), Hears(heard, p), heard.calls > 0
    PROVE  Conversation(ms \o Block(top + 1, heard), top + 1, p)
<1> DEFINE L == Len(ms)
           C == heard.calls
           b == Block(top + 1, heard)
           r == ms \o b
           ids == [n \in 1 .. C |-> <<top + 1, n>>]
<1>1. L \in Nat \ {0} /\ C \in Nat \ {0} /\ DOMAIN ms = 1 .. L /\ ms \in Seq(Messages)
  BY DEF Conversation, FromUser, Hears
<1>2. /\ b \in Seq(Messages) /\ Len(b) = C + 1 /\ b[1] = Assistant(ids)
      /\ \A k \in 1 .. C : b[1 + k].role = "tool" /\ b[1 + k].calls = <<>> /\ b[1 + k].id = <<top + 1, k>>
  <2>1. top + 1 \in Nat
    OBVIOUS
  <2> QED
    BY <2>1, ExchangeOf
<1> HIDE DEF b, ids
<1>3. r \in Seq(Messages) /\ Len(r) = L + (C + 1)
      /\ \A n \in 1 .. L + (C + 1) : r[n] = IF n <= L THEN ms[n] ELSE b[n - L]
  <2>1. /\ ms \o b \in Seq(Messages) /\ Len(ms \o b) = Len(ms) + Len(b)
        /\ \A n \in 1 .. Len(ms) + Len(b) : (ms \o b)[n] = IF n <= Len(ms) THEN ms[n] ELSE b[n - Len(ms)]
    BY <1>1, <1>2, ConcatProperties
  <2>2. Len(b) = C + 1
    BY <1>2
  <2> HIDE DEF C
  <2> QED
    BY <2>1, <2>2
<1> HIDE DEF r
<1>4. DOMAIN r = 1 .. L + (C + 1)
  BY <1>3
<1>5. \A n \in 1 .. L : n \in DOMAIN r /\ r[n] = ms[n]
  BY <1>1, <1>3, <1>4
<1>6. L + 1 \in DOMAIN r /\ r[L + 1] = Assistant(ids)
  <2>1. L + 1 \in 1 .. L + (C + 1) /\ ~(L + 1 <= L) /\ (L + 1) - L = 1
    BY <1>1
  <2> QED
    BY <1>2, <1>3, <1>4, <2>1
<1>7. ASSUME NEW k \in 1 .. C
      PROVE  /\ L + 1 + k \in DOMAIN r
             /\ r[L + 1 + k].role = "tool" /\ r[L + 1 + k].calls = <<>> /\ r[L + 1 + k].id = <<top + 1, k>>
  <2>1. L + 1 + k \in 1 .. L + (C + 1) /\ ~(L + 1 + k <= L) /\ (L + 1 + k) - L = 1 + k
    BY <1>1
  <2>2. r[L + 1 + k] = b[1 + k]
    BY <1>3, <2>1
  <2> QED
    BY <1>2, <1>4, <2>1, <2>2
<1>8. /\ Assistant(ids).role = "assistant" /\ Assistant(ids).id = <<>> /\ Assistant(ids).calls = ids
      /\ DOMAIN ids = 1 .. C /\ Len(ids) = C /\ \A k \in 1 .. C : ids[k] = <<top + 1, k>>
  BY <1>1 DEF Assistant, Message, ids
<1>9. ASSUME NEW n \in DOMAIN r
      PROVE  n \in 1 .. L \/ n = L + 1 \/ \E k \in 1 .. C : n = L + 1 + k
  <2> SUFFICES ASSUME ~(n \in 1 .. L), n # L + 1 PROVE n - L - 1 \in 1 .. C /\ n = L + 1 + (n - L - 1)
    OBVIOUS
  <2> HIDE DEF L, C
  <2> QED
    BY <1>1, <1>4
<1>10. FromUser(r)
  <2>1. r[1] = ms[1] /\ r # <<>>
    BY <1>1, <1>4, <1>5
  <2>2. r[Len(r)].role = "tool"
    <3>1. Len(r) = L + 1 + C /\ C \in 1 .. C
      BY <1>1, <1>3
    <3> QED
      BY <1>7, <3>1
  <2> QED
    BY <1>3, <2>1, <2>2 DEF FromUser, Conversation
<1> HIDE DEF L, C
<1>11. OnlyAssistantsCall(r)
  <2> SUFFICES ASSUME NEW n \in DOMAIN r, r[n].role # "assistant" PROVE r[n].calls = <<>>
    BY DEF OnlyAssistantsCall
  <2>1. CASE n \in 1 .. L
    BY <1>1, <1>5, <2>1 DEF OnlyAssistantsCall, Conversation
  <2> QED
    BY <1>6, <1>7, <1>8, <1>9, <2>1
<1>12. OnlyResultsHaveIds(r)
  <2> SUFFICES ASSUME NEW n \in DOMAIN r, r[n].role # "tool" PROVE r[n].id = <<>>
    BY DEF OnlyResultsHaveIds
  <2>1. CASE n \in 1 .. L
    BY <1>1, <1>5, <2>1 DEF OnlyResultsHaveIds, Conversation
  <2> QED
    BY <1>6, <1>7, <1>8, <1>9, <2>1
<1>13. CallsAreAnswered(r)
  <2> SUFFICES ASSUME NEW n \in DOMAIN r, NEW k \in DOMAIN r[n].calls
               PROVE  n + k \in DOMAIN r /\ r[n + k].role = "tool" /\ r[n + k].id = r[n].calls[k]
    BY DEF CallsAreAnswered
  <2>1. CASE n \in 1 .. L
    <3>1. r[n] = ms[n]
      BY <1>5, <2>1
    <3>2. n + k \in DOMAIN ms /\ ms[n + k].role = "tool" /\ ms[n + k].id = ms[n].calls[k]
      BY <1>1, <2>1, <3>1 DEF Conversation, CallsAreAnswered
    <3> QED
      BY <1>1, <1>5, <3>1, <3>2
  <2>2. CASE n = L + 1
    <3>1. k \in 1 .. C /\ r[n].calls[k] = <<top + 1, k>>
      BY <1>6, <1>8, <2>2
    <3> QED
      BY <1>7, <2>2, <3>1
  <2>3. CASE \E j \in 1 .. C : n = L + 1 + j
    BY <1>7, <2>3
  <2> QED
    BY <1>9, <2>1, <2>2, <2>3
<1>14. ResultsWereAsked(r, top + 1)
  <2> SUFFICES ASSUME NEW n \in DOMAIN r, r[n].role = "tool"
               PROVE  \E i \in 1 .. top + 1, k \in 1 .. n - 1 :
                         r[n].id = <<i, k>> /\ k \in DOMAIN r[n - k].calls /\ r[n - k].calls[k] = <<i, k>>
    BY DEF ResultsWereAsked
  <2>1. CASE n \in 1 .. L
    <3>1. r[n] = ms[n]
      BY <1>5, <2>1
    <3>2. PICK i \in 1 .. top, k \in 1 .. n - 1 :
             ms[n].id = <<i, k>> /\ k \in DOMAIN ms[n - k].calls /\ ms[n - k].calls[k] = <<i, k>>
      BY <1>1, <2>1, <3>1 DEF Conversation, ResultsWereAsked
    <3>3. n - k \in 1 .. L /\ i \in 1 .. top + 1
      BY <1>1, <2>1
    <3>4. r[n - k] = ms[n - k]
      BY <1>5, <3>3
    <3> QED
      BY <3>1, <3>2, <3>3, <3>4
  <2>2. CASE n = L + 1
    BY <1>6, <1>8, <2>2
  <2>3. CASE \E j \in 1 .. C : n = L + 1 + j
    <3>1. PICK k \in 1 .. C : n = L + 1 + k
      BY <2>3
    <3>2. k \in 1 .. n - 1 /\ n - k = L + 1 /\ top + 1 \in 1 .. top + 1
      BY <1>1, <3>1
    <3>3. r[n].id = <<top + 1, k>> /\ k \in DOMAIN r[n - k].calls /\ r[n - k].calls[k] = <<top + 1, k>>
      BY <1>6, <1>7, <1>8, <3>1, <3>2
    <3> QED
      BY <3>2, <3>3
  <2> QED
    BY <1>9, <2>1, <2>2, <2>3
<1>15. Together(r)
  <2> SUFFICES ASSUME NEW m \in DOMAIN r, NEW n \in DOMAIN r, NEW i \in Nat, NEW j \in Nat, NEW k \in Nat,
                      r[m].id = <<i, j>>, r[n].id = <<i, k>>
               PROVE  m - j = n - k
    BY DEF Together
  <2>1. ASSUME NEW a \in DOMAIN r, NEW x \in Nat, NEW y \in Nat, r[a].id = <<x, y>>
        PROVE  \/ a \in 1 .. L /\ x # top + 1
               \/ x = top + 1 /\ a - y = L + 1
    <3>1. CASE a \in 1 .. L
      <4>1. a \in DOMAIN ms /\ ms[a].id = <<x, y>>
        BY <1>1, <1>5, <2>1, <3>1
      <4>2. x \in 1 .. top
        BY <4>1, IdsAreOld
      <4> QED
        BY <3>1, <4>2
    <3>2. CASE a = L + 1
      <4>1. <<x, y>> # <<>>
        OBVIOUS
      <4> QED
        BY <1>6, <1>8, <2>1, <3>2, <4>1
    <3>3. CASE \E c \in 1 .. C : a = L + 1 + c
      <4>1. PICK c \in 1 .. C : a = L + 1 + c
        BY <3>3
      <4>2. r[a].id = <<top + 1, c>>
        BY <1>7, <4>1
      <4>3. x = top + 1 /\ y = c
        BY <2>1, <4>2
      <4> QED
        BY <1>1, <4>1, <4>3
    <3> QED
      BY <1>9, <3>1, <3>2, <3>3
  <2>2. CASE i = top + 1
    BY <2>1, <2>2
  <2>3. CASE i # top + 1
    <3>1. m \in 1 .. L /\ n \in 1 .. L
      BY <2>1, <2>3
    <3>2. m \in DOMAIN ms /\ n \in DOMAIN ms /\ ms[m].id = <<i, j>> /\ ms[n].id = <<i, k>>
      BY <1>1, <1>5, <3>1
    <3> QED
      BY <3>2 DEF Conversation, Together
  <2> QED
    BY <2>2, <2>3
<1>16. OneCallEach(r, p)
  <2> SUFFICES ASSUME p \in SingleCallProviders, NEW n \in DOMAIN r PROVE Len(r[n].calls) <= 1
    BY DEF OneCallEach
  <2>1. CASE n \in 1 .. L
    BY <1>1, <1>5, <2>1 DEF Conversation, OneCallEach
  <2>2. CASE n = L + 1
    BY <1>6, <1>8, <2>2 DEF Hears, C
  <2>3. CASE \E j \in 1 .. C : n = L + 1 + j
    <3>1. r[n].calls = <<>>
      BY <1>7, <2>3
    <3> QED
      BY <3>1
  <2> QED
    BY <1>9, <2>1, <2>2, <2>3
<1> QED
  BY <1>10, <1>11, <1>12, <1>13, <1>14, <1>15, <1>16 DEF Conversation, r, b

(* So does sending the model back, to search or to answer.                 *)
LEMMA NudgeContinues ==
    ASSUME NEW ms, NEW top \in Nat, NEW p, Conversation(ms, top, p)
    PROVE  Conversation(ms \o <<Assistant(<<>>), User>>, top, p)
<1> DEFINE L == Len(ms)
           b == <<Assistant(<<>>), User>>
           r == ms \o b
<1>1. L \in Nat \ {0} /\ DOMAIN ms = 1 .. L /\ ms \in Seq(Messages)
  BY DEF Conversation, FromUser
<1>2. b \in Seq(Messages) /\ Len(b) = 2 /\ b[1] = Assistant(<<>>) /\ b[2] = User
  <2>1. b \in Seq(Plain)
    BY DEF Plain
  <2> QED
    BY <2>1, PlainMessages
<1> HIDE DEF b
<1>3. r \in Seq(Messages) /\ Len(r) = L + 2
      /\ \A n \in 1 .. L + 2 : r[n] = IF n <= L THEN ms[n] ELSE b[n - L]
  <2>1. /\ ms \o b \in Seq(Messages) /\ Len(ms \o b) = Len(ms) + Len(b)
        /\ \A n \in 1 .. Len(ms) + Len(b) : (ms \o b)[n] = IF n <= Len(ms) THEN ms[n] ELSE b[n - Len(ms)]
    BY <1>1, <1>2, ConcatProperties
  <2> QED
    BY <1>2, <2>1
<1> HIDE DEF r
<1>4. DOMAIN r = 1 .. L + 2
  BY <1>3
<1>5. \A n \in 1 .. L : n \in DOMAIN r /\ r[n] = ms[n]
  BY <1>1, <1>3, <1>4
<1>6. ASSUME NEW n \in DOMAIN r, ~(n \in 1 .. L)
      PROVE  r[n].role # "tool" /\ r[n].calls = <<>> /\ r[n].id = <<>>
  <2>1. n = L + 1 \/ n = L + 2
    BY <1>1, <1>4, <1>6
  <2>2. r[n] = b[1] \/ r[n] = b[2]
    BY <1>1, <1>3, <2>1
  <2> QED
    BY <1>2, <2>2 DEF User, Assistant, Message
<1>7. FromUser(r)
  <2>1. r[1] = ms[1] /\ r # <<>>
    BY <1>1, <1>4, <1>5
  <2>2. r[Len(r)] = User
    BY <1>1, <1>2, <1>3
  <2> QED
    BY <1>3, <2>1, <2>2 DEF FromUser, Conversation, User, Message
<1> HIDE DEF L
<1>8. OnlyAssistantsCall(r) /\ OnlyResultsHaveIds(r)
  BY <1>1, <1>5, <1>6 DEF OnlyAssistantsCall, OnlyResultsHaveIds, Conversation
<1>9. CallsAreAnswered(r)
  <2> SUFFICES ASSUME NEW n \in DOMAIN r, NEW k \in DOMAIN r[n].calls
               PROVE  n + k \in DOMAIN r /\ r[n + k].role = "tool" /\ r[n + k].id = r[n].calls[k]
    BY DEF CallsAreAnswered
  <2>1. n \in 1 .. L
    BY <1>6
  <2>2. r[n] = ms[n]
    BY <1>5, <2>1
  <2>3. n + k \in DOMAIN ms /\ ms[n + k].role = "tool" /\ ms[n + k].id = ms[n].calls[k]
    BY <1>1, <2>1, <2>2 DEF Conversation, CallsAreAnswered
  <2> QED
    BY <1>1, <1>5, <2>2, <2>3
<1>10. ResultsWereAsked(r, top)
  <2> SUFFICES ASSUME NEW n \in DOMAIN r, r[n].role = "tool"
               PROVE  \E i \in 1 .. top, k \in 1 .. n - 1 :
                         r[n].id = <<i, k>> /\ k \in DOMAIN r[n - k].calls /\ r[n - k].calls[k] = <<i, k>>
    BY DEF ResultsWereAsked
  <2>1. n \in 1 .. L
    BY <1>6
  <2>2. r[n] = ms[n]
    BY <1>5, <2>1
  <2>3. PICK i \in 1 .. top, k \in 1 .. n - 1 :
           ms[n].id = <<i, k>> /\ k \in DOMAIN ms[n - k].calls /\ ms[n - k].calls[k] = <<i, k>>
    BY <1>1, <2>1, <2>2 DEF Conversation, ResultsWereAsked
  <2>4. n - k \in 1 .. L
    BY <1>1, <2>1
  <2>5. r[n - k] = ms[n - k]
    BY <1>5, <2>4
  <2> QED
    BY <2>2, <2>3, <2>5
<1>11. Together(r)
  <2> SUFFICES ASSUME NEW m \in DOMAIN r, NEW n \in DOMAIN r, NEW i \in Nat, NEW j \in Nat, NEW k \in Nat,
                      r[m].id = <<i, j>>, r[n].id = <<i, k>>
               PROVE  m - j = n - k
    BY DEF Together
  <2>1. <<i, j>> # <<>> /\ <<i, k>> # <<>>
    OBVIOUS
  <2>2. m \in 1 .. L /\ n \in 1 .. L
    BY <1>6, <2>1
  <2>3. m \in DOMAIN ms /\ n \in DOMAIN ms /\ ms[m].id = <<i, j>> /\ ms[n].id = <<i, k>>
    BY <1>1, <1>5, <2>2
  <2> QED
    BY <2>3 DEF Conversation, Together
<1>12. OneCallEach(r, p)
  <2>1. Len(<<>>) = 0
    OBVIOUS
  <2> QED
    BY <1>1, <1>5, <1>6, <2>1 DEF Conversation, OneCallEach
<1> QED
  BY <1>7, <1>8, <1>9, <1>10, <1>11, <1>12 DEF Conversation, r, b

(* Trimming changes what results hold, never which messages there are.     *)
LEMMA CompactKeepsShape ==
    ASSUME NEW ms \in Seq(Messages)
    PROVE  /\ Compact(ms) \in Seq(Messages) /\ DOMAIN Compact(ms) = DOMAIN ms /\ Len(Compact(ms)) = Len(ms)
           /\ \A n \in DOMAIN ms : /\ Compact(ms)[n].role = ms[n].role
                                   /\ Compact(ms)[n].calls = ms[n].calls
                                   /\ Compact(ms)[n].id = ms[n].id
                                   /\ Compact(ms)[n].body \in {ms[n].body, "trimmed"}
<1> DEFINE trim == IF Older(ms) # {} THEN Older(ms) ELSE Trimmable(ms)
           r == Compact(ms)
           L == Len(ms)
<1>1. L \in Nat /\ DOMAIN ms = 1 .. L /\ \A n \in 1 .. L : ms[n] \in Messages
  OBVIOUS
<1>2. DOMAIN r = DOMAIN ms /\ \A n \in DOMAIN ms : r[n] = IF n \in trim THEN [ms[n] EXCEPT !.body = "trimmed"] ELSE ms[n]
  BY DEF Compact
<1> HIDE DEF r, L, trim
<1>3. \A m \in Messages : LET t == [m EXCEPT !.body = "trimmed"]
                          IN t \in Messages /\ t.role = m.role /\ t.calls = m.calls /\ t.id = m.id /\ t.body = "trimmed"
  BY DEF Messages, Bodies
<1>4. \A n \in 1 .. L : r[n] \in Messages /\ r[n].role = ms[n].role /\ r[n].calls = ms[n].calls
                        /\ r[n].id = ms[n].id /\ r[n].body \in {ms[n].body, "trimmed"}
  <2> SUFFICES ASSUME NEW n \in 1 .. L
               PROVE  r[n] \in Messages /\ r[n].role = ms[n].role /\ r[n].calls = ms[n].calls
                      /\ r[n].id = ms[n].id /\ r[n].body \in {ms[n].body, "trimmed"}
    OBVIOUS
  <2>1. CASE n \in trim
    <3>1. r[n] = [ms[n] EXCEPT !.body = "trimmed"] /\ ms[n] \in Messages
      BY <1>1, <1>2, <2>1
    <3> QED
      BY <1>3, <3>1
  <2>2. CASE n \notin trim
    BY <1>1, <1>2, <2>2
  <2> QED
    BY <2>1, <2>2
<1>5. r \in Seq(Messages) /\ Len(r) = L
  <2>1. r = [n \in DOMAIN ms |-> r[n]]
    BY DEF r, Compact
  <2>2. r \in [1 .. L -> Messages]
    BY <1>1, <1>4, <2>1
  <2> QED
    BY <1>1, <2>2
<1> QED
  BY <1>1, <1>2, <1>4, <1>5 DEF r, L

(* So a request made smaller is one the provider accepts still.            *)
LEMMA CompactContinues ==
    ASSUME NEW ms, NEW top \in Nat, NEW p, Conversation(ms, top, p)
    PROVE  Conversation(Compact(ms), top, p)
<1> DEFINE r == Compact(ms)
<1>1. ms \in Seq(Messages) /\ ms # <<>> /\ Len(ms) \in Nat \ {0} /\ DOMAIN ms = 1 .. Len(ms)
  BY DEF Conversation, FromUser
<1>2. /\ r \in Seq(Messages) /\ DOMAIN r = DOMAIN ms /\ Len(r) = Len(ms)
      /\ \A n \in DOMAIN ms : r[n].role = ms[n].role /\ r[n].calls = ms[n].calls /\ r[n].id = ms[n].id
  BY <1>1, CompactKeepsShape
<1> HIDE DEF r
<1>3. FromUser(r)
  <2>1. 1 \in DOMAIN ms /\ Len(ms) \in DOMAIN ms /\ r # <<>>
    BY <1>1, <1>2
  <2> QED
    BY <1>2, <2>1 DEF Conversation, FromUser
<1>4. OnlyAssistantsCall(r) /\ OnlyResultsHaveIds(r) /\ OneCallEach(r, p)
  BY <1>2 DEF Conversation, OnlyAssistantsCall, OnlyResultsHaveIds, OneCallEach
<1>5. CallsAreAnswered(r)
  BY <1>2 DEF Conversation, CallsAreAnswered
<1>6. ResultsWereAsked(r, top)
  <2> SUFFICES ASSUME NEW n \in DOMAIN r, r[n].role = "tool"
               PROVE  \E i \in 1 .. top, k \in 1 .. n - 1 :
                         r[n].id = <<i, k>> /\ k \in DOMAIN r[n - k].calls /\ r[n - k].calls[k] = <<i, k>>
    BY DEF ResultsWereAsked
  <2>1. PICK i \in 1 .. top, k \in 1 .. n - 1 :
           ms[n].id = <<i, k>> /\ k \in DOMAIN ms[n - k].calls /\ ms[n - k].calls[k] = <<i, k>>
    <3>1. ResultsWereAsked(ms, top)
      BY DEF Conversation
    <3>2. n \in DOMAIN ms /\ ms[n].role = "tool"
      BY <1>2
    <3> QED
      BY <3>1, <3>2 DEF ResultsWereAsked
  <2>2. n - k \in DOMAIN ms
    BY <1>1, <1>2
  <2> QED
    BY <1>2, <2>1, <2>2
<1>7. Together(r)
  <2> SUFFICES ASSUME NEW m \in DOMAIN r, NEW n \in DOMAIN r, NEW i \in Nat, NEW j \in Nat, NEW k \in Nat,
                      r[m].id = <<i, j>>, r[n].id = <<i, k>>
               PROVE  m - j = n - k
    BY DEF Together
  <2>1. m \in DOMAIN ms /\ n \in DOMAIN ms /\ ms[m].id = <<i, j>> /\ ms[n].id = <<i, k>>
    BY <1>2
  <2> QED
    BY <2>1 DEF Conversation, Together
<1> QED
  BY <1>3, <1>4, <1>5, <1>6, <1>7 DEF Conversation, r

(* Which is all a provider looks at.                                       *)
LEMMA ConversationIsWellFormed ==
    ASSUME NEW ms, NEW top \in Nat, NEW p, Conversation(ms, top, p)
    PROVE  /\ ms[1].role = "user"
           /\ ms[Len(ms)].role # "assistant"
           /\ \A n \in DOMAIN ms :
              /\ \A k \in DOMAIN ms[n].calls :
                    n + k \in DOMAIN ms /\ ms[n + k].role = "tool" /\ ms[n + k].id = ms[n].calls[k]
              /\ ms[n].role = "tool" =>
                    \E m \in 1 .. n - 1 : n - m \in DOMAIN ms[m].calls /\ ms[m].calls[n - m] = ms[n].id
              /\ \A m \in DOMAIN ms : m # n /\ ms[m].role = "tool" => ms[m].id # ms[n].id
              /\ p \in SingleCallProviders => Len(ms[n].calls) <= 1
<1>1. ms \in Seq(Messages) /\ ms[1].role = "user" /\ ms[Len(ms)].role # "assistant"
  BY DEF Conversation, FromUser
<1>2. Len(ms) \in Nat /\ DOMAIN ms = 1 .. Len(ms)
  BY <1>1
<1>3. ASSUME NEW n \in DOMAIN ms, NEW k \in DOMAIN ms[n].calls
      PROVE  n + k \in DOMAIN ms /\ ms[n + k].role = "tool" /\ ms[n + k].id = ms[n].calls[k]
  BY DEF Conversation, CallsAreAnswered
<1>4. ASSUME NEW n \in DOMAIN ms, ms[n].role = "tool"
      PROVE  \E i \in Nat, k \in 1 .. n - 1 :
                ms[n].id = <<i, k>> /\ k \in DOMAIN ms[n - k].calls /\ ms[n - k].calls[k] = <<i, k>>
  BY <1>4 DEF Conversation, ResultsWereAsked
<1>5. ASSUME NEW n \in DOMAIN ms, ms[n].role = "tool"
      PROVE  \E m \in 1 .. n - 1 : n - m \in DOMAIN ms[m].calls /\ ms[m].calls[n - m] = ms[n].id
  <2>1. PICK i \in Nat, k \in 1 .. n - 1 :
           ms[n].id = <<i, k>> /\ k \in DOMAIN ms[n - k].calls /\ ms[n - k].calls[k] = <<i, k>>
    BY <1>4, <1>5
  <2>2. n - k \in 1 .. n - 1 /\ n - (n - k) = k
    BY <1>2
  <2> QED
    BY <2>1, <2>2
<1>6. ASSUME NEW n \in DOMAIN ms, NEW m \in DOMAIN ms, ms[m].role = "tool", ms[m].id = ms[n].id
      PROVE  m = n
  <2>1. PICK i \in Nat, k \in 1 .. m - 1 : ms[m].id = <<i, k>>
    BY <1>4, <1>6
  <2>2. k \in Nat /\ ms[n].id = <<i, k>>
    BY <1>6, <2>1
  <2>3. m - k = n - k
    BY <2>1, <2>2 DEF Conversation, Together
  <2> QED
    BY <1>2, <2>2, <2>3
<1>7. p \in SingleCallProviders => \A n \in DOMAIN ms : Len(ms[n].calls) <= 1
  BY DEF Conversation, OneCallEach
<1> QED
  BY <1>1, <1>3, <1>5, <1>6, <1>7

(* The iterations with a result left to trim.                              *)
Batches(ms) == {i \in Nat : \E n \in Trimmable(ms), k \in Nat : ms[n].id = <<i, k>>}

(* They are among the iterations that ran.                                 *)
LEMMA BatchesAreFinite ==
    ASSUME NEW ms, NEW top \in Nat, NEW p, Conversation(ms, top, p)
    PROVE  IsFiniteSet(Batches(ms)) /\ Batches(ms) \subseteq 1 .. top
<1>1. Batches(ms) \subseteq 1 .. top
  BY IdsAreOld DEF Batches, Trimmable
<1>2. IsFiniteSet(1 .. top)
  BY FS_Interval
<1> QED
  BY <1>1, <1>2, FS_Subset

(* A part of them is no more, and less when it is not all of them.         *)
LEMMA FewerBatches ==
    ASSUME NEW ms, NEW top \in Nat, NEW p, Conversation(ms, top, p),
           NEW T, T \subseteq Batches(ms)
    PROVE  /\ IsFiniteSet(T) /\ Cardinality(T) \in Nat /\ Cardinality(Batches(ms)) \in Nat
           /\ Cardinality(T) <= Cardinality(Batches(ms))
           /\ T # Batches(ms) => Cardinality(T) < Cardinality(Batches(ms))
<1>1. IsFiniteSet(Batches(ms))
  BY BatchesAreFinite
<1>2. IsFiniteSet(T) /\ Cardinality(T) <= Cardinality(Batches(ms)) /\ (Cardinality(Batches(ms)) = Cardinality(T) => Batches(ms) = T)
  BY <1>1, FS_Subset
<1> QED
  BY <1>1, <1>2, FS_CardinalityType

(* The results of an iteration are all before the last assistant message   *)
(* or none is: they follow one message, with nothing between.              *)
LEMMA SameSide ==
    ASSUME NEW ms, NEW top \in Nat, NEW p, Conversation(ms, top, p),
           NEW n \in DOMAIN ms, NEW m \in DOMAIN ms, NEW i \in Nat, NEW k \in Nat, NEW j \in Nat,
           ms[n].id = <<i, k>>, ms[m].id = <<i, j>>, n < LastAssistant(ms)
    PROVE  m < LastAssistant(ms)
<1>1. ms \in Seq(Messages) /\ Len(ms) \in Nat /\ DOMAIN ms = 1 .. Len(ms)
  BY DEF Conversation, FromUser
<1>2. LastAssistant(ms) \in DOMAIN ms /\ ms[LastAssistant(ms)].role = "assistant"
  BY <1>1, LastAssistantIsLast
<1>3. PICK L \in DOMAIN ms : L = LastAssistant(ms)
  BY <1>2
<1>4. ms[n].role = "tool" /\ ms[m].role = "tool"
  BY IdsAreOld
<1>5. PICK i1 \in 1 .. top, k1 \in 1 .. n - 1 : ms[n].id = <<i1, k1>> /\ k1 \in DOMAIN ms[n - k1].calls
  BY <1>4 DEF Conversation, ResultsWereAsked
<1>6. PICK i2 \in 1 .. top, j2 \in 1 .. m - 1 : ms[m].id = <<i2, j2>> /\ j2 \in DOMAIN ms[m - j2].calls
  BY <1>4 DEF Conversation, ResultsWereAsked
<1>7. k = k1 /\ j = j2
  BY <1>5, <1>6
<1>8. m - j = n - k
  BY DEF Conversation, Together
<1>9. PICK a \in DOMAIN ms : a = n - k /\ a = m - j
  BY <1>1, <1>5, <1>7, <1>8
<1>10. PICK c : c = ms[a].calls
  OBVIOUS
<1>11. c \in Seq(Ids) /\ k \in DOMAIN c /\ j \in DOMAIN c
  <2>1. ms[a] \in Messages
    BY <1>1
  <2> QED
    BY <1>5, <1>6, <1>7, <1>9, <1>10, <2>1 DEF Messages
<1>12. \A x \in DOMAIN c : ms[a + x].role = "tool"
  BY <1>10 DEF Conversation, CallsAreAnswered
<1>13. SUFFICES ASSUME ~(m < L) PROVE FALSE
  BY <1>3
<1>14. L - a \in 1 .. j /\ a + (L - a) = L
  <2>1. n \in Nat /\ m \in Nat /\ L \in Nat /\ a \in Nat /\ n < L
    BY <1>1, <1>3
  <2>2. a + k = n /\ a + j = m
    BY <1>9, <2>1
  <2>3. L <= m
    BY <1>13, <2>1
  <2> QED
    BY ONLY <2>1, <2>2, <2>3, k \in Nat, j \in Nat
<1>15. L - a \in DOMAIN c
  <2>1. PICK y \in Nat : y = Len(c) /\ DOMAIN c = 1 .. y
    BY <1>11
  <2> QED
    BY <1>11, <1>14, <2>1
<1> QED
  BY <1>2, <1>3, <1>12, <1>14, <1>15

(* So making a request smaller leaves an iteration with nothing to trim.   *)
LEMMA TrimmingTakesABatch ==
    ASSUME NEW ms, NEW top \in Nat, NEW p, Conversation(ms, top, p), CanCompact(ms)
    PROVE  Batches(Compact(ms)) \subseteq Batches(ms) /\ Batches(Compact(ms)) # Batches(ms)
<1> DEFINE r == Compact(ms)
           trim == IF Older(ms) # {} THEN Older(ms) ELSE Trimmable(ms)
<1>1. ms \in Seq(Messages) /\ Len(ms) \in Nat /\ DOMAIN ms = 1 .. Len(ms)
  BY DEF Conversation, FromUser
<1>2. DOMAIN r = DOMAIN ms /\ \A n \in DOMAIN ms : r[n].role = ms[n].role /\ r[n].id = ms[n].id
                                                  /\ r[n].body \in {ms[n].body, "trimmed"}
  BY <1>1, CompactKeepsShape
<1>3. \A n \in trim : n \in DOMAIN ms => r[n].body = "trimmed"
  <2>1. \A n \in DOMAIN ms : r[n] = IF n \in trim THEN [ms[n] EXCEPT !.body = "trimmed"] ELSE ms[n]
    BY DEF Compact
  <2>2. \A n \in DOMAIN ms : ms[n] \in Messages
    BY <1>1
  <2>3. \A m \in Messages : [m EXCEPT !.body = "trimmed"].body = "trimmed"
    BY DEF Messages
  <2> HIDE DEF r, trim
  <2> QED
    BY <2>1, <2>2, <2>3
<1> HIDE DEF r
<1>4. Trimmable(r) \subseteq Trimmable(ms) /\ Trimmable(r) \cap trim = {}
  BY <1>2, <1>3 DEF Trimmable
<1>5. Batches(r) \subseteq Batches(ms)
  BY <1>2, <1>4 DEF Batches, Trimmable
<1>6. PICK n \in trim : n \in Trimmable(ms)
  BY DEF CanCompact, Older
<1>7. n \in DOMAIN ms /\ ms[n].role = "tool"
  BY <1>6 DEF Trimmable
<1>8. PICK i \in Nat, k \in 1 .. n - 1 : ms[n].id = <<i, k>> /\ k \in DOMAIN ms[n - k].calls
  BY <1>7 DEF Conversation, ResultsWereAsked
<1>9. k \in Nat /\ n \in Nat /\ n - k \in DOMAIN ms
  BY <1>1, <1>7
<1>10. i \in Batches(ms)
  BY <1>6, <1>8, <1>9 DEF Batches
<1>11. ASSUME NEW m \in Trimmable(r), NEW j \in Nat, r[m].id = <<i, j>> PROVE FALSE
  <2>1. m \in Trimmable(ms) /\ m \notin trim /\ m \in DOMAIN ms /\ ms[m].role = "tool" /\ ms[m].id = <<i, j>>
    BY <1>2, <1>4, <1>11 DEF Trimmable
  <2>2. Older(ms) # {} /\ n < LastAssistant(ms) /\ ~(m < LastAssistant(ms))
    BY <1>6, <2>1 DEF Older
  <2> QED
    BY <1>7, <1>8, <1>9, <2>1, <2>2, SameSide
<1>12. i \notin Batches(r)
  BY <1>11 DEF Batches
<1> QED
  BY <1>5, <1>10, <1>12 DEF r


-----------------------------------------------------------------------------
(* The counters and flags of a turn stay what they are.                    *)
CountersOK ==
    /\ asking \in BOOLEAN /\ provider \in Providers
    /\ iter \in 0 .. MaxIterations /\ tokens \in {MaxTokens, 2048, 1024}
    /\ forceSupported \in BOOLEAN /\ nudged \in BOOLEAN /\ answerNudged \in BOOLEAN
    /\ retries \in 0 .. 2 /\ used \in BOOLEAN /\ text \in Texts
    /\ result.status \in {0, 200, 500, 502, 503} /\ result.text \in Texts
    /\ requests \in Nat

(* The actions that end a turn; and their effect on what it counts.        *)
LEMMA EndsAreFresh ==
    ASSUME Step, ~GoesOn
    PROVE  \/ asking' = FALSE /\ msgs' = <<>> /\ FreshLocals /\ UNCHANGED provider
           \/ /\ asking /\ provider = "anthropic" /\ ~used /\ ~nudged /\ iter < MaxIterations
              /\ Sent /\ nudged' = TRUE /\ iter' = 0 /\ msgs' = msgs \o <<Assistant(<<>>), User>>
              /\ UNCHANGED <<asking, provider, result, tokens, forceSupported, answerNudged, retries, used, text>>
<1>1. CASE ProviderFails \/ PublishFails \/ Answers \/ ReturnsNothing \/ OutOfIterations \/ RunnerRefused
  BY <1>1 DEF ProviderFails, PublishFails, Answers, ReturnsNothing, OutOfIterations, RunnerRefused,
              Return, Finish
<1>2. CASE RunnerEnds
  <2>1. PICK heard \in Heard[provider] :
           LET said == IF ~heard.says THEN "none" ELSE IF heard.calls = 0 THEN "answer" ELSE "narration"
           IN IF used \/ heard.calls > 0 \/ nudged
              THEN Finish(Result(200, said, "none")) /\ used' = (used \/ heard.calls > 0)
              ELSE /\ Sent /\ nudged' = TRUE /\ iter' = 0
                   /\ msgs' = msgs \o <<Assistant(<<>>), User>>
                   /\ UNCHANGED <<asking, provider, result, tokens, forceSupported, answerNudged,
                                  retries, used, text>>
    BY <1>2 DEF RunnerEnds
  <2>2. CASE used \/ heard.calls > 0 \/ nudged
    BY <2>1, <2>2 DEF Finish
  <2>3. CASE ~(used \/ heard.calls > 0 \/ nudged)
    BY <1>2, <2>1, <2>3 DEF RunnerEnds, Running
  <2> QED
    BY <2>2, <2>3
<1> QED
  BY <1>1, <1>2 DEF Step, GoesOn

(* What a turn returns has one of the known shapes.                        *)
LEMMA ResultsAreTyped ==
    ASSUME CountersOK, [Next]_vars
    PROVE  /\ result'.status \in {0, 200, 500, 502, 503} /\ result'.text \in Texts
           /\ text' \in Texts
<1>0. text \in Texts /\ result.status \in {0, 200, 500, 502, 503} /\ result.text \in Texts
  BY DEF CountersOK
<1> USE DEF Texts
<1>1. CASE Ask
  BY <1>1 DEF Ask, FreshLocals, Nothing, Result
<1>6. CASE AskUnavailable
  <2>1. text' = text /\ result' = Result(503, "none", "none")
    BY <1>6 DEF AskUnavailable, loop
  <2> QED
    BY <1>0, <2>1 DEF Result
<1>2. CASE GoesOn
  <2>1. result' = result
    BY <1>2 DEF GoesOn, RefusesToolChoice, BotchesToolCall, FindsTooLarge, CallsTools, NudgeToSearch,
                NudgeToAnswer, RunnerCallsTools
  <2>2. text' \in {text, "narration", "none"}
    BY <1>2 DEF GoesOn, RefusesToolChoice, BotchesToolCall, FindsTooLarge, CallsTools, NudgeToSearch,
                NudgeToAnswer, RunnerCallsTools
  <2> QED
    BY <1>0, <2>1, <2>2
<1>3. CASE UNCHANGED vars
  BY <1>0, <1>3 DEF vars, loop
<1>4. CASE ProviderFails \/ PublishFails \/ Answers \/ ReturnsNothing \/ OutOfIterations \/ RunnerRefused
  BY <1>0, <1>4 DEF ProviderFails, PublishFails, Answers, ReturnsNothing, OutOfIterations, RunnerRefused,
                    Return, Finish, FreshLocals, Result
<1>5. CASE RunnerEnds
  <2>1. PICK heard \in Heard[provider] :
           LET said == IF ~heard.says THEN "none" ELSE IF heard.calls = 0 THEN "answer" ELSE "narration"
           IN IF used \/ heard.calls > 0 \/ nudged
              THEN Finish(Result(200, said, "none"))
              ELSE UNCHANGED <<result, text>>
    BY <1>5 DEF RunnerEnds
  <2>2. CASE used \/ heard.calls > 0 \/ nudged
    <3>1. PICK said \in Texts : Finish(Result(200, said, "none"))
      BY <2>1, <2>2
    <3>2. text' = "none" /\ result' = Result(200, said, "none")
      BY <3>1 DEF Finish, FreshLocals
    <3> QED
      BY <3>2 DEF Result
  <2>3. CASE ~(used \/ heard.calls > 0 \/ nudged)
    BY <1>0, <2>1, <2>3
  <2> QED
    BY <2>2, <2>3
<1> QED
  BY <1>1, <1>2, <1>3, <1>4, <1>5, <1>6 DEF Next, Step, GoesOn

(* A flag is left alone, raised or lowered.                                *)
LEMMA FlagsAreSet ==
    ASSUME Next
    PROVE  /\ asking' = asking \/ asking' = TRUE \/ asking' = FALSE
           /\ forceSupported' = forceSupported \/ forceSupported' = TRUE \/ forceSupported' = FALSE
           /\ nudged' = nudged \/ nudged' = TRUE \/ nudged' = FALSE
           /\ answerNudged' = answerNudged \/ answerNudged' = TRUE \/ answerNudged' = FALSE
           /\ used' = used \/ used' = TRUE \/ used' = FALSE
<1>1. CASE Ask \/ AskUnavailable
  BY <1>1 DEF Ask, AskUnavailable, FreshLocals, loop
<1>2. CASE GoesOn
  <2>1. CASE RefusesToolChoice \/ BotchesToolCall \/ FindsTooLarge
    BY <2>1 DEF RefusesToolChoice, BotchesToolCall, FindsTooLarge
  <2>2. CASE CallsTools \/ NudgeToSearch \/ NudgeToAnswer \/ RunnerCallsTools
    BY <2>2 DEF CallsTools, NudgeToSearch, NudgeToAnswer, RunnerCallsTools
  <2> QED
    BY <1>2, <2>1, <2>2 DEF GoesOn
<1>3. CASE ProviderFails \/ PublishFails \/ Answers \/ ReturnsNothing \/ OutOfIterations \/ RunnerRefused
  BY <1>3 DEF ProviderFails, PublishFails, Answers, ReturnsNothing, OutOfIterations, RunnerRefused,
              Return, Finish, FreshLocals
<1>4. CASE RunnerEnds
  <2>1. PICK heard \in Heard[provider] :
           LET said == IF ~heard.says THEN "none" ELSE IF heard.calls = 0 THEN "answer" ELSE "narration"
           IN IF used \/ heard.calls > 0 \/ nudged
              THEN Finish(Result(200, said, "none")) /\ used' = (used \/ heard.calls > 0)
              ELSE nudged' = TRUE /\ UNCHANGED <<asking, forceSupported, answerNudged, used>>
    BY <1>4 DEF RunnerEnds
  <2>2. CASE used \/ heard.calls > 0 \/ nudged
    <3>1. used' = TRUE \/ used' = FALSE
      BY <2>1, <2>2
    <3> QED
      BY <2>1, <2>2, <3>1 DEF Finish, FreshLocals
  <2>3. CASE ~(used \/ heard.calls > 0 \/ nudged)
    BY <2>1, <2>3
  <2> QED
    BY <2>2, <2>3
<1> QED
  BY <1>1, <1>2, <1>3, <1>4 DEF Next, Step, GoesOn

(* So the flags stay flags.                                                *)
LEMMA FlagsStay ==
    ASSUME CountersOK, [Next]_vars
    PROVE  /\ asking' \in BOOLEAN /\ forceSupported' \in BOOLEAN /\ nudged' \in BOOLEAN
           /\ answerNudged' \in BOOLEAN /\ used' \in BOOLEAN
<1>1. /\ asking \in BOOLEAN /\ forceSupported \in BOOLEAN /\ nudged \in BOOLEAN
      /\ answerNudged \in BOOLEAN /\ used \in BOOLEAN
  BY DEF CountersOK
<1>2. CASE Next
  BY <1>1, <1>2, FlagsAreSet
<1>3. CASE UNCHANGED vars
  BY <1>1, <1>3 DEF vars, loop
<1> QED
  BY <1>2, <1>3

(* Each counter is checked before it is raised.                            *)
LEMMA CountersStay == CountersOK /\ [Next]_vars => CountersOK'
<1> SUFFICES ASSUME CountersOK, [Next]_vars PROVE CountersOK'
  OBVIOUS
<1>0. /\ provider \in Providers /\ iter \in 0 .. MaxIterations /\ tokens \in {MaxTokens, 2048, 1024}
      /\ retries \in 0 .. 2 /\ requests \in Nat
  BY DEF CountersOK
<1>1. /\ result'.status \in {0, 200, 500, 502, 503} /\ result'.text \in Texts
      /\ text' \in Texts
  BY ResultsAreTyped
<1>2. SUFFICES /\ provider' \in Providers
               /\ iter' \in 0 .. MaxIterations /\ tokens' \in {MaxTokens, 2048, 1024}
               /\ retries' \in 0 .. 2 /\ requests' \in Nat
  BY <1>1, FlagsStay DEF CountersOK
<1>3. MaxIterations \in Nat \ {0} /\ (Sent => requests' \in Nat)
  BY <1>0, AgentConstants DEF Sent
<1>4. FreshLocals => /\ iter' \in 0 .. MaxIterations /\ tokens' \in {MaxTokens, 2048, 1024}
                     /\ retries' \in 0 .. 2 /\ requests' \in Nat
  BY <1>3 DEF FreshLocals
<1> HIDE DEF FreshLocals, Sent
<1>5. CASE Ask
  BY <1>4, <1>5 DEF Ask
<1>6. CASE AskUnavailable \/ UNCHANGED vars
  BY <1>0, <1>6 DEF AskUnavailable, vars, loop
<1>7. CASE RefusesToolChoice
  BY <1>0, <1>3, <1>7 DEF RefusesToolChoice
<1>11. CASE FindsTooLarge
  <2>1. tokens' \in {tokens, 2048, 1024}
    BY <1>11 DEF FindsTooLarge, Relieve
  <2>2. UNCHANGED <<provider, iter, retries>> /\ Sent
    BY <1>11 DEF FindsTooLarge
  <2> QED
    BY <1>0, <1>3, <2>1, <2>2
<1>8. CASE BotchesToolCall
  <2>1. Sent /\ iter' = iter + 1 /\ iter < MaxIterations /\ retries' = retries + 1 /\ retries < 2
        /\ UNCHANGED <<provider, tokens>>
    BY <1>8 DEF BotchesToolCall, Requesting
  <2> QED
    BY <1>0, <1>3, <2>1
<1>9. CASE CallsTools \/ NudgeToSearch \/ NudgeToAnswer \/ RunnerCallsTools
  <2>1. Sent /\ iter' = iter + 1 /\ iter < MaxIterations
    BY <1>9 DEF CallsTools, NudgeToSearch, NudgeToAnswer, RunnerCallsTools, Requesting, Running
  <2>2. iter' \in 0 .. MaxIterations
    BY <1>0, <1>3, <2>1
  <2>3. UNCHANGED <<provider, tokens, retries>>
    BY <1>9 DEF CallsTools, NudgeToSearch, NudgeToAnswer, RunnerCallsTools
  <2> QED
    BY <1>0, <1>3, <2>1, <2>2, <2>3
<1>10. CASE Step /\ ~GoesOn
  <2>1. \/ FreshLocals /\ UNCHANGED provider
        \/ Sent /\ iter' = 0 /\ UNCHANGED <<provider, tokens, retries>>
    BY <1>10, EndsAreFresh
  <2> QED
    BY <1>0, <1>3, <1>4, <2>1
<1> QED
  BY <1>5, <1>6, <1>7, <1>8, <1>9, <1>10, <1>11 DEF Next, Step, GoesOn

(* They start so.                                                          *)
LEMMA CountersAlways == Spec => []CountersOK
<1>1. Init => CountersOK
  <2>1. MaxIterations \in Nat
    BY AgentConstants
  <2>2. Init => /\ asking \in BOOLEAN /\ forceSupported \in BOOLEAN /\ nudged \in BOOLEAN
                /\ answerNudged \in BOOLEAN /\ used \in BOOLEAN
    BY DEF Init
  <2>3. Init => /\ provider \in Providers
                /\ iter \in 0 .. MaxIterations /\ tokens \in {MaxTokens, 2048, 1024}
                /\ retries \in 0 .. 2 /\ text \in Texts /\ requests \in Nat
    BY <2>1 DEF Init, Texts, Providers
  <2>4. Nothing.status = 0 /\ Nothing.text = "none" /\ "none" \in Texts
    BY DEF Nothing, Result, Texts
  <2>5. Init => result.status \in {0, 200, 500, 502, 503} /\ result.text \in Texts
    BY <2>4 DEF Init
  <2> QED
    BY <2>2, <2>3, <2>5 DEF CountersOK
<1> QED
  BY <1>1, CountersStay, PTL DEF Spec

-----------------------------------------------------------------------------
(* The results that were trimmed come before the ones that are whole.      *)
OldestFirst(ms) ==
    \A m, n \in DOMAIN ms : m < n /\ ms[m].role = "tool" /\ ms[n].body = "trimmed" => ms[m].body = "trimmed"

(* While a turn is under way its next request is one a provider accepts.   *)
TalkOK == IF asking THEN Conversation(msgs, iter, provider) ELSE msgs = <<>>

(* A turn opens with the history and the question.                         *)
LEMMA QuestionOpens == Ask => Conversation(msgs', 0, provider') /\ Trimmable(msgs') = {}
<1> SUFFICES ASSUME Ask PROVE Conversation(msgs', 0, provider') /\ Trimmable(msgs') = {}
  OBVIOUS
<1>1. PICK history \in BoundedSeq(Turns, HistoryTurns) : msgs' = Append(NormaliseHistory(history), User)
  BY DEF Ask
<1>2. history \in Seq(Turns)
  <2>1. PICK m \in 0 .. HistoryTurns : history \in [1 .. m -> Turns]
    BY DEF BoundedSeq, SeqOf
  <2> QED
    BY <2>1, AgentConstants
<1> DEFINE h == NormaliseHistory(history)
<1>3. h \in Seq(Plain) /\ (h # <<>> => h[1] = User)
  BY <1>2, HistoryIsPlain
<1> HIDE DEF h
<1>4. PICK r : r = Append(h, User)
  OBVIOUS
<1>5. r \in Seq(Plain) /\ r # <<>> /\ r[1] = User /\ r[Len(r)] = User
  <2>1. User \in Plain
    BY DEF Plain
  <2>2. /\ r \in Seq(Plain) /\ r # <<>> /\ Len(r) = Len(h) + 1
        /\ \A i \in 1 .. Len(h) : r[i] = h[i]
        /\ r[Len(h) + 1] = User
    BY <1>3, <1>4, <2>1, AppendProperties
  <2>3. CASE h = <<>>
    BY <2>2, <2>3
  <2>4. CASE h # <<>>
    <3>1. 1 \in 1 .. Len(h)
      BY <1>3, <2>4
    <3> QED
      BY <1>3, <2>2, <2>4, <3>1
  <2> QED
    BY <2>2, <2>3, <2>4
<1>6. Conversation(r, 0, provider')
  BY <1>5, PlainConversation
<1>7. Trimmable(r) = {}
  <2>1. \A m \in Plain : m.role # "tool"
    BY DEF Plain, User, Assistant, Message
  <2> QED
    BY <1>5, <2>1 DEF Trimmable
<1> QED
  BY <1>1, <1>4, <1>6, <1>7 DEF h

(* A reply with calls, on either path, is heard like this.                 *)
LEMMA CallsAreHeard ==
    ASSUME CountersOK, CallsTools \/ RunnerCallsTools
    PROVE  \E heard : /\ Hears(heard, provider) /\ heard.calls > 0
                      /\ msgs' = msgs \o Block(iter + 1, heard)
<1>1. PICK heard \in Heard[provider] : heard.calls > 0 /\ msgs' = msgs \o Exchange(heard)
  BY DEF CallsTools, RunnerCallsTools
<1>2. Exchange(heard) = Block(iter + 1, heard)
  BY DEF Exchange, Block
<1>3. Hears(heard, provider)
  BY WhatIsHeard DEF CountersOK
<1> QED
  BY <1>1, <1>2, <1>3

(* Every request that goes on with a turn keeps to what providers accept.  *)
LEMMA TalkGoesOn ==
    ASSUME CountersOK, TalkOK, GoesOn
    PROVE  asking' = TRUE /\ Conversation(msgs', iter', provider')
<1>1. asking /\ asking' = TRUE /\ provider' = provider
  BY DEF GoesOn, RefusesToolChoice, BotchesToolCall, FindsTooLarge, CallsTools, NudgeToSearch,
         NudgeToAnswer, RunnerCallsTools, Requesting, Running
<1>2. Conversation(msgs, iter, provider) /\ iter \in Nat
  BY <1>1 DEF TalkOK, CountersOK
<1>3. SUFFICES Conversation(msgs', iter', provider)
  BY <1>1
<1>4. CASE RefusesToolChoice
  BY <1>2, <1>4 DEF RefusesToolChoice
<1>5. CASE BotchesToolCall
  BY <1>2, <1>5, ConversationGoesOn DEF BotchesToolCall
<1>6. CASE FindsTooLarge
  <2>1. iter' = iter /\ (msgs' = msgs \/ msgs' = Compact(msgs))
    BY <1>6 DEF FindsTooLarge, Relieve
  <2>2. Conversation(Compact(msgs), iter, provider)
    BY <1>2, CompactContinues
  <2> QED
    BY <1>2, <2>1, <2>2
<1>7. CASE CallsTools \/ RunnerCallsTools
  <2>1. PICK heard : /\ Hears(heard, provider) /\ heard.calls > 0
                     /\ msgs' = msgs \o Block(iter + 1, heard)
    BY <1>7, CallsAreHeard
  <2>2. iter' = iter + 1
    BY <1>7 DEF CallsTools, RunnerCallsTools
  <2>3. Conversation(msgs \o Block(iter + 1, heard), iter + 1, provider)
    BY <1>2, <2>1, ExchangeContinues
  <2> QED
    BY <2>1, <2>2, <2>3
<1>8. CASE NudgeToSearch \/ NudgeToAnswer
  <2>1. iter' = iter + 1 /\ msgs' = msgs \o <<Assistant(<<>>), User>>
    BY <1>8 DEF NudgeToSearch, NudgeToAnswer
  <2>2. Conversation(msgs \o <<Assistant(<<>>), User>>, iter, provider)
    BY <1>2, NudgeContinues
  <2>3. Conversation(msgs \o <<Assistant(<<>>), User>>, iter + 1, provider)
    BY <1>2, <2>2, ConversationGoesOn
  <2> QED
    BY <2>1, <2>3
<1> QED
  BY <1>4, <1>5, <1>6, <1>7, <1>8 DEF GoesOn

(* With Anthropic the second attempt counts its iterations again; no tool  *)
(* has run in the first.                                                   *)
SecondAttempt ==
    asking /\ provider = "anthropic" =>
        requests <= iter + 1 /\ (~nudged => requests <= iter) /\ (~used => iter = 0)

(* Its requests are one more than its iterations at most.                  *)
LEMMA SecondAttemptStays == CountersOK /\ SecondAttempt /\ [Next]_vars => SecondAttempt'
<1> SUFFICES ASSUME CountersOK, SecondAttempt, [Next]_vars, asking' = TRUE, provider' = "anthropic"
             PROVE  /\ requests' <= iter' + 1 /\ (nudged' = FALSE => requests' <= iter')
                    /\ (used' = FALSE => iter' = 0)
  BY FlagsStay DEF SecondAttempt
<1>0. iter \in Nat /\ requests \in Nat /\ (Sent => requests' <= requests + 1 /\ requests' \in Nat)
  BY DEF CountersOK, Sent
<1> HIDE DEF Sent
<1>1. CASE Ask
  BY <1>1 DEF Ask, FreshLocals
<1>2. CASE AskUnavailable
  BY <1>2 DEF AskUnavailable
<1>3. CASE UNCHANGED vars
  BY <1>3 DEF vars, loop, SecondAttempt
<1>4. CASE RefusesToolChoice \/ BotchesToolCall \/ FindsTooLarge \/ CallsTools \/ NudgeToSearch \/ NudgeToAnswer
  BY <1>4 DEF RefusesToolChoice, BotchesToolCall, FindsTooLarge, CallsTools, NudgeToSearch, NudgeToAnswer,
              Requesting
<1>5. CASE RunnerCallsTools
  <2>1. asking /\ provider = "anthropic" /\ Sent /\ iter' = iter + 1 /\ used' = TRUE /\ nudged' = nudged
    BY <1>5 DEF RunnerCallsTools, Running
  <2>2. requests <= iter + 1 /\ (~nudged => requests <= iter)
    BY <2>1 DEF SecondAttempt
  <2> QED
    BY <1>0, <2>1, <2>2
<1>6. CASE Step /\ ~GoesOn
  <2>1. /\ asking /\ provider = "anthropic" /\ ~used /\ ~nudged
        /\ Sent /\ nudged' = TRUE /\ iter' = 0
    BY <1>6, EndsAreFresh
  <2>2. requests <= iter /\ iter = 0
    BY <2>1 DEF SecondAttempt
  <2> QED
    BY <1>0, <2>1, <2>2
<1> QED
  BY <1>1, <1>2, <1>3, <1>4, <1>5, <1>6 DEF Next, Step, GoesOn

(* Every step keeps to what providers accept.                              *)
LEMMA TalkStays == CountersOK /\ SecondAttempt /\ TalkOK /\ [Next]_vars => TalkOK'
<1> SUFFICES ASSUME CountersOK, SecondAttempt, TalkOK, [Next]_vars PROVE TalkOK'
  OBVIOUS
<1>1. CASE Ask
  <2>1. asking' = TRUE /\ iter' = 0
    BY <1>1 DEF Ask, FreshLocals
  <2> QED
    BY <1>1, <2>1, QuestionOpens DEF TalkOK
<1>2. CASE AskUnavailable \/ UNCHANGED vars
  <2>1. asking' = asking /\ msgs' = msgs /\ provider' = provider /\ iter' = iter
    BY <1>2 DEF AskUnavailable, vars, loop
  <2> QED
    BY <2>1 DEF TalkOK
<1>3. CASE GoesOn
  BY <1>3, TalkGoesOn DEF TalkOK
<1>4. CASE Step /\ ~GoesOn
  <2>1. CASE asking' = FALSE /\ msgs' = <<>>
    BY <2>1 DEF TalkOK
  <2>2. CASE /\ asking /\ provider = "anthropic" /\ ~used /\ iter' = 0
             /\ msgs' = msgs \o <<Assistant(<<>>), User>>
             /\ UNCHANGED <<asking, provider>>
    <3>1. iter = 0 /\ Conversation(msgs, iter, provider) /\ iter \in Nat
      BY <2>2 DEF SecondAttempt, TalkOK, CountersOK
    <3>2. Conversation(msgs \o <<Assistant(<<>>), User>>, iter, provider)
      BY <3>1, NudgeContinues
    <3> QED
      BY <2>2, <3>1, <3>2 DEF TalkOK
  <2> QED
    BY <1>4, <2>1, <2>2, EndsAreFresh
<1> QED
  BY <1>1, <1>2, <1>3, <1>4 DEF Next, Step, GoesOn

(* Together, from the start.                                               *)
LEMMA TalkAlways == Spec => [](CountersOK /\ SecondAttempt /\ TalkOK)
<1>1. Init => SecondAttempt /\ TalkOK
  BY DEF Init, SecondAttempt, TalkOK
<1> QED
  BY <1>1, CountersAlways, SecondAttemptStays, TalkStays, PTL DEF Spec

(* What a reply and a nudge append is whole.                               *)
LEMMA AppendedIsWhole ==
    ASSUME NEW ms \in Seq(Messages), NEW b \in Seq(Messages), OldestFirst(ms),
           \A k \in 1 .. Len(b) : b[k].body # "trimmed"
    PROVE  OldestFirst(ms \o b)
<1> DEFINE r == ms \o b
<1>1. /\ Len(ms) \in Nat /\ Len(b) \in Nat /\ DOMAIN ms = 1 .. Len(ms) /\ DOMAIN r = 1 .. (Len(ms) + Len(b))
      /\ \A i \in 1 .. Len(ms) : r[i] = ms[i]
      /\ \A i \in 1 .. Len(b) : r[Len(ms) + i] = b[i]
  BY ConcatProperties
<1> HIDE DEF r
<1> SUFFICES ASSUME NEW m \in DOMAIN r, NEW n \in DOMAIN r, m < n, r[m].role = "tool", r[n].body = "trimmed"
             PROVE  r[m].body = "trimmed"
  BY DEF OldestFirst, r
<1>2. n \in 1 .. Len(ms)
  <2> SUFFICES ASSUME n \notin 1 .. Len(ms) PROVE FALSE
    OBVIOUS
  <2>1. n - Len(ms) \in 1 .. Len(b) /\ n = Len(ms) + (n - Len(ms))
    BY <1>1
  <2> QED
    BY <1>1, <2>1
<1>3. m \in 1 .. Len(ms)
  BY <1>1, <1>2
<1> QED
  BY <1>1, <1>2, <1>3 DEF OldestFirst

(* A relief trims what is older before the last batch, and a batch whole.  *)
LEMMA CompactIsInOrder ==
    ASSUME NEW ms \in Seq(Messages), OldestFirst(ms) PROVE OldestFirst(Compact(ms))
<1> DEFINE r == Compact(ms)
           trim == IF Older(ms) # {} THEN Older(ms) ELSE Trimmable(ms)
<1>1. /\ DOMAIN r = DOMAIN ms /\ DOMAIN ms = 1 .. Len(ms) /\ Len(ms) \in Nat
      /\ \A n \in DOMAIN ms : r[n].role = ms[n].role /\ r[n].body \in {ms[n].body, "trimmed"}
  BY CompactKeepsShape
<1>2. \A n \in DOMAIN ms : r[n] = IF n \in trim THEN [ms[n] EXCEPT !.body = "trimmed"] ELSE ms[n]
  BY DEF Compact
<1>3. \A n \in DOMAIN ms : n \in trim => r[n].body = "trimmed"
  <2>1. \A n \in DOMAIN ms : ms[n] \in Messages
    BY <1>1
  <2> HIDE DEF trim
  <2> QED
    BY <1>2, <2>1 DEF Messages
<1> HIDE DEF r
<1> SUFFICES ASSUME NEW m \in DOMAIN r, NEW n \in DOMAIN r, m < n, r[m].role = "tool", r[n].body = "trimmed"
             PROVE  r[m].body = "trimmed"
  BY DEF OldestFirst, r
<1>4. CASE ms[m].body = "trimmed"
  BY <1>1, <1>4
<1>5. CASE ms[m].body # "trimmed"
  <2>1. m \in Trimmable(ms)
    BY <1>1, <1>5 DEF Trimmable
  <2>2. n \in trim
    <3>1. ms[n].body # "trimmed"
      BY <1>1, <1>5 DEF OldestFirst
    <3> QED
      BY <1>1, <1>2, <3>1
  <2>3. Older(ms) # {} => m \in Older(ms)
    <3> SUFFICES ASSUME Older(ms) # {} PROVE m \in Older(ms)
      OBVIOUS
    <3>1. n < LastAssistant(ms)
      BY <2>2 DEF Older
    <3>2. LastAssistant(ms) \in 1 .. Len(ms)
      BY <1>1, <3>1, LastAssistantIsLast
    <3>3. m < LastAssistant(ms)
      BY <1>1, <3>1, <3>2
    <3> QED
      BY <2>1, <3>3 DEF Older
  <2> QED
    BY <1>1, <1>3, <2>1, <2>3
<1> QED
  BY <1>4, <1>5

(* No result is trimmed while an earlier one is whole: a relief takes the  *)
(* results the model has read before the ones it is about to reason over,  *)
(* wherever in a turn it falls.  _compact, relieve.                        *)
THEOREM ResultsAreTrimmedInOrder == Spec => []EarlierResultsFirst
<1>0. <<>> \in Seq(Messages)
  OBVIOUS
<1>1. Init => EarlierResultsFirst
  BY DEF Init, EarlierResultsFirst
<1>2. CountersOK /\ TalkOK /\ EarlierResultsFirst /\ [Next]_vars => EarlierResultsFirst'
  <2> SUFFICES ASSUME CountersOK, TalkOK, OldestFirst(msgs), [Next]_vars PROVE OldestFirst(msgs')
    BY DEF EarlierResultsFirst, OldestFirst
  <2>1. msgs \in Seq(Messages)
    <3>1. Conversation(msgs, iter, provider) \/ msgs = <<>>
      BY DEF TalkOK
    <3>2. Conversation(msgs, iter, provider) => FromUser(msgs)
      BY DEF Conversation
    <3>3. FromUser(msgs) => msgs \in Seq(Messages)
      BY DEF FromUser
    <3> QED
      BY <1>0, <3>1, <3>2, <3>3
  <2>2. CASE msgs' = msgs \/ msgs' = <<>>
    BY <2>2 DEF OldestFirst
  <2>3. CASE Ask
    <3>1. msgs' \in Seq(Messages) /\ Trimmable(msgs') = {} /\ OnlyResultsHaveIds(msgs')
      BY <2>3, QuestionOpens DEF Conversation, FromUser
    <3> QED
      BY <3>1 DEF OldestFirst, Trimmable
  <2>4. CASE msgs' = Compact(msgs)
    BY <2>1, <2>4, CompactIsInOrder
  <2>5. CASE CallsTools \/ RunnerCallsTools
    <3>1. PICK top \in Nat : top = iter + 1
      BY DEF CountersOK
    <3>2. PICK heard : Hears(heard, provider) /\ msgs' = msgs \o Block(top, heard)
      BY <2>5, <3>1, CallsAreHeard
    <3>3. PICK b : b = Block(top, heard)
      OBVIOUS
    <3>4. /\ b \in Seq(Messages) /\ Len(b) = heard.calls + 1
          /\ b[1].body # "trimmed" /\ \A k \in 1 .. heard.calls : b[1 + k].body # "trimmed"
      <4>1. b[1] = Assistant([n \in 1 .. heard.calls |-> <<top, n>>])
        BY <3>2, <3>3, ExchangeOf
      <4>2. b[1].body = "words"
        BY <4>1 DEF Assistant, Message
      <4> QED
        BY <3>2, <3>3, <4>2, ExchangeOf
    <3>5. \A k \in 1 .. Len(b) : b[k].body # "trimmed"
      <4> SUFFICES ASSUME NEW k \in 1 .. Len(b), k # 1 PROVE b[k].body # "trimmed"
        BY <3>4
      <4>1. k - 1 \in 1 .. heard.calls /\ 1 + (k - 1) = k
        BY <3>2, <3>4 DEF Hears
      <4> QED
        BY <3>4, <4>1
    <3> QED
      BY <2>1, <3>2, <3>3, <3>4, <3>5, AppendedIsWhole
  <2>6. CASE msgs' = msgs \o <<Assistant(<<>>), User>>
    <3>1. PICK b : b = <<Assistant(<<>>), User>>
      OBVIOUS
    <3>2. b \in Seq(Messages) /\ \A k \in 1 .. Len(b) : b[k].body # "trimmed"
      BY <3>1 DEF Assistant, User, Message, Messages, Roles, Bodies
    <3> QED
      BY <2>1, <2>6, <3>1, <3>2, AppendedIsWhole
  <2>7. CASE RefusesToolChoice \/ BotchesToolCall \/ FindsTooLarge \/ NudgeToSearch \/ NudgeToAnswer
    BY <2>2, <2>4, <2>6, <2>7 DEF RefusesToolChoice, BotchesToolCall, FindsTooLarge, NudgeToSearch, NudgeToAnswer, Relieve
  <2>8. CASE Step /\ ~GoesOn
    BY <2>2, <2>6, <2>8, EndsAreFresh
  <2>9. CASE AskUnavailable \/ UNCHANGED vars
    BY <2>2, <2>9 DEF AskUnavailable, vars, loop
  <2> QED
    BY <2>3, <2>5, <2>7, <2>8, <2>9 DEF Next, Step, GoesOn
<1> QED
  BY <1>1, <1>2, TalkAlways, PTL DEF Spec

(* The counters and the messages of a turn are what they are taken for,    *)
(* whatever a reply holds.  _run_openai_compatible, _run_anthropic.        *)
THEOREM TurnsAreTyped == Spec => []TypeOK
<1>1. CountersOK /\ TalkOK => TypeOK
  <2> SUFFICES ASSUME CountersOK, TalkOK
               PROVE  \A n \in DOMAIN msgs : msgs[n].role \in Roles
                                             /\ msgs[n].body \in {"words", "lines", "complaint", "trimmed"}
    BY DEF CountersOK, TypeOK
  <2>1. CASE asking
    <3>1. msgs \in Seq(Messages)
      BY <2>1 DEF TalkOK, Conversation, FromUser
    <3>2. \A n \in DOMAIN msgs : msgs[n] \in Messages
      BY <3>1
    <3> QED
      BY <3>2 DEF Messages, Bodies
  <2>2. CASE ~asking
    BY <2>2 DEF TalkOK
  <2> QED
    BY <2>1, <2>2
<1> QED
  BY <1>1, TalkAlways, PTL

(* No provider rejects a request of the loop for its shape: whatever the   *)
(* history, the calls, their arguments and failures, what was cut, trimmed *)
(* or appended, each call is followed by its result, under its id, and     *)
(* nothing else is.  _run_openai_compatible, _compact, normalise_history.  *)
THEOREM RequestsAreWellFormed == Spec => []WellFormedRequest
<1>1. CountersOK /\ TalkOK => WellFormedRequest
  <2> SUFFICES ASSUME CountersOK, Conversation(msgs, iter, provider) PROVE WellFormedRequest
    BY DEF TalkOK, WellFormedRequest
  <2>1. iter \in Nat
    BY DEF CountersOK
  <2> QED
    BY <2>1, ConversationIsWellFormed DEF WellFormedRequest
<1> QED
  BY <1>1, TalkAlways, PTL

-----------------------------------------------------------------------------
(* What a turn may still spend on requests that are no iteration.          *)
Reliefs(t) == IF t > 2048 THEN 2 ELSE IF t > 1024 THEN 1 ELSE 0
Refusals == IF forceSupported THEN 1 ELSE 0
Budget ==
    /\ requests <= RequestBound
    /\ asking /\ provider # "anthropic" =>
          requests + Cardinality(Batches(msgs)) + Reliefs(tokens) + Refusals <= 2 * iter + 3

(* A reply with calls adds one iteration with results to trim.             *)
LEMMA ExchangeAddsABatch ==
    ASSUME NEW ms, NEW top \in Nat, NEW p, NEW heard,
           Conversation(ms, top, p), Hears(heard, p), heard.calls > 0
    PROVE  Cardinality(Batches(ms \o Block(top + 1, heard))) <= Cardinality(Batches(ms)) + 1
<1> DEFINE b == Block(top + 1, heard)
           r == ms \o b
           S == Batches(ms)
<1>1. ms \in Seq(Messages) /\ Len(ms) \in Nat /\ DOMAIN ms = 1 .. Len(ms)
  BY DEF Conversation, FromUser
<1>2. /\ b \in Seq(Messages) /\ Len(b) = heard.calls + 1 /\ b[1].id = <<>>
      /\ \A k \in 1 .. heard.calls : b[1 + k].id = <<top + 1, k>>
  <2>1. top + 1 \in Nat
    OBVIOUS
  <2>2. /\ b \in Seq(Messages) /\ Len(b) = heard.calls + 1
        /\ b[1] = Assistant([n \in 1 .. heard.calls |-> <<top + 1, n>>])
        /\ \A k \in 1 .. heard.calls : b[1 + k].id = <<top + 1, k>>
    BY <2>1, ExchangeOf
  <2> HIDE DEF b
  <2> QED
    BY <2>2 DEF Assistant, Message
<1> HIDE DEF b
<1>3. /\ r \in Seq(Messages) /\ Len(r) = Len(ms) + Len(b)
      /\ \A n \in 1 .. Len(ms) + Len(b) : r[n] = IF n <= Len(ms) THEN ms[n] ELSE b[n - Len(ms)]
  BY <1>1, <1>2, ConcatProperties
<1> HIDE DEF r
<1>4. ASSUME NEW i \in Batches(r) PROVE i \in S \cup {top + 1}
  <2>1. PICK n \in Trimmable(r), k \in Nat : r[n].id = <<i, k>> /\ i \in Nat
    BY DEF Batches
  <2>2. n \in DOMAIN r /\ r[n].role = "tool" /\ r[n].body # "trimmed"
    BY DEF Trimmable
  <2>3. CASE n <= Len(ms)
    <3>1. n \in DOMAIN ms /\ r[n] = ms[n]
      BY <1>1, <1>3, <2>2, <2>3
    <3>2. n \in Trimmable(ms)
      BY <2>2, <3>1 DEF Trimmable
    <3> QED
      BY <2>1, <3>1, <3>2 DEF Batches
  <2>4. CASE ~(n <= Len(ms))
    <3>1. PICK j \in 1 .. Len(b) : r[n] = b[j]
      <4>0. Len(b) \in Nat
        BY <1>2
      <4>1. PICK L \in Nat, M \in Nat : L = Len(ms) /\ M = Len(b)
        BY <1>1, <4>0
      <4>2. n \in 1 .. L + M /\ ~(n <= L)
        BY <1>3, <2>2, <2>4, <4>1
      <4>3. n - L \in 1 .. M
        BY ONLY <4>2, L \in Nat, M \in Nat
      <4>4. r[n] = b[n - L]
        BY <1>3, <4>1, <4>2
      <4> QED
        BY <4>1, <4>3, <4>4
    <3>2. j # 1
      <4>1. <<i, k>> # <<>>
        OBVIOUS
      <4> QED
        BY <1>2, <2>1, <3>1, <4>1
    <3>3. j - 1 \in 1 .. heard.calls /\ 1 + (j - 1) = j
      BY <1>2, <3>1, <3>2 DEF Hears
    <3>4. r[n].id = <<top + 1, j - 1>>
      BY <1>2, <3>1, <3>3
    <3> QED
      BY <2>1, <3>4
  <2> QED
    BY <2>3, <2>4
<1>5. IsFiniteSet(S)
  BY BatchesAreFinite
<1> HIDE DEF S
<1>6. IsFiniteSet(S \cup {top + 1}) /\ Cardinality(S \cup {top + 1}) \in {Cardinality(S), Cardinality(S) + 1}
  BY <1>5, FS_AddElement
<1>7. Batches(r) \subseteq S \cup {top + 1}
  BY <1>4
<1>8. Cardinality(Batches(r)) <= Cardinality(S \cup {top + 1})
  BY <1>6, <1>7, FS_Subset
<1>9. Cardinality(S) \in Nat /\ IsFiniteSet(Batches(r)) /\ Cardinality(Batches(r)) \in Nat
  BY <1>5, <1>6, <1>7, FS_Subset, FS_CardinalityType
<1> QED
  BY <1>6, <1>8, <1>9 DEF r, b, S

(* Sending the model back adds none.                                       *)
LEMMA NudgeAddsNoBatch ==
    ASSUME NEW ms, NEW top \in Nat, NEW p, Conversation(ms, top, p)
    PROVE  Batches(ms \o <<Assistant(<<>>), User>>) \subseteq Batches(ms)
<1> DEFINE b == <<Assistant(<<>>), User>>
           r == ms \o b
<1>1. ms \in Seq(Messages) /\ Len(ms) \in Nat /\ DOMAIN ms = 1 .. Len(ms)
  BY DEF Conversation, FromUser
<1>2. b \in Seq(Messages) /\ Len(b) = 2 /\ \A j \in 1 .. 2 : b[j].role # "tool"
  <2>1. b \in Seq(Plain) /\ Len(b) = 2 /\ b[1] = Assistant(<<>>) /\ b[2] = User
    BY DEF Plain
  <2>2. Assistant(<<>>).role # "tool" /\ User.role # "tool"
    BY DEF Assistant, User, Message
  <2>3. \A j \in 1 .. 2 : j = 1 \/ j = 2
    OBVIOUS
  <2> HIDE DEF b
  <2> QED
    BY <2>1, <2>2, <2>3, PlainMessages
<1> HIDE DEF b
<1>3. /\ r \in Seq(Messages) /\ Len(r) = Len(ms) + Len(b)
      /\ \A n \in 1 .. Len(ms) + Len(b) : r[n] = IF n <= Len(ms) THEN ms[n] ELSE b[n - Len(ms)]
  BY <1>1, <1>2, ConcatProperties
<1> HIDE DEF r
<1>4. ASSUME NEW n \in Trimmable(r) PROVE n \in Trimmable(ms) /\ r[n] = ms[n]
  <2>1. n \in DOMAIN r /\ r[n].role = "tool" /\ r[n].body # "trimmed"
    BY DEF Trimmable
  <2>2. n <= Len(ms)
    <3> SUFFICES ASSUME ~(n <= Len(ms)) PROVE FALSE
      BY <1>1, <1>3, <2>1
    <3>1. n - Len(ms) \in 1 .. 2 /\ r[n] = b[n - Len(ms)]
      BY <1>1, <1>2, <1>3, <2>1
    <3> QED
      BY <1>2, <2>1, <3>1
  <2>3. n \in DOMAIN ms /\ r[n] = ms[n]
    BY <1>1, <1>2, <1>3, <2>1, <2>2
  <2> QED
    BY <2>1, <2>3 DEF Trimmable
<1> QED
  BY <1>4 DEF Batches, r, b

(* A request that goes on is an iteration, or is paid for: by what is      *)
(* trimmed, by a smaller reservation, or by a refusal.                     *)
LEMMA BudgetGoesOn ==
    ASSUME CountersOK, TalkOK, Budget, GoesOn, provider # "anthropic"
    PROVE  /\ requests' + Cardinality(Batches(msgs')) + Reliefs(tokens') + Refusals' <= 2 * iter' + 3
           /\ requests' <= RequestBound
<1>1. asking /\ iter < MaxIterations /\ Sent
  BY DEF GoesOn, RefusesToolChoice, BotchesToolCall, FindsTooLarge, CallsTools, NudgeToSearch,
         NudgeToAnswer, RunnerCallsTools, Requesting, Running
<1>2. MaxIterations \in Nat /\ iter \in Nat /\ requests \in Nat /\ Conversation(msgs, iter, provider)
  BY <1>1, AgentConstants DEF CountersOK, TalkOK
<1>3. PICK B \in Nat : B = Cardinality(Batches(msgs))
  BY <1>2, FewerBatches
<1>4. PICK C : C = Cardinality(Batches(msgs'))
  OBVIOUS
<1>5. PICK R \in 0 .. 2 : R = Reliefs(tokens)
  BY DEF Reliefs
<1>6. PICK F \in 0 .. 1 : F = Refusals
  BY DEF Refusals
<1>7. requests + B + R + F <= 2 * iter + 3 /\ requests' = requests + 1 /\ requests <= RequestBound
  <2>1. requests + B + R + F <= 2 * iter + 3 /\ requests <= RequestBound
    BY <1>1, <1>3, <1>5, <1>6 DEF Budget
  <2>2. RequestBound \in Nat
    BY <1>2 DEF RequestBound
  <2> QED
    BY <1>1, <1>2, <2>1, <2>2 DEF Sent
<1>8. UNCHANGED msgs => C = B
  BY <1>3, <1>4
<1>9. CASE iter' = iter + 1 /\ C \in Nat /\ C <= B + 1 /\ UNCHANGED <<tokens, forceSupported>>
  <2>1. Reliefs(tokens') = R /\ Refusals' = F
    BY <1>5, <1>6, <1>9 DEF Refusals
  <2>2. requests + 1 + C + R + F <= 2 * (iter + 1) + 3
    BY <1>2, <1>7, <1>9
  <2>3. requests + 1 <= 2 * MaxIterations + 2
    BY <1>1, <1>2, <1>7
  <2> QED
    BY <1>4, <1>7, <1>9, <2>1, <2>2, <2>3 DEF RequestBound
<1>10. CASE iter' = iter /\ C \in Nat /\ Reliefs(tokens') \in Nat /\ Refusals' \in Nat
            /\ C + Reliefs(tokens') + Refusals' < B + R + F
  <2>1. PICK R2 \in Nat : R2 = Reliefs(tokens')
    BY <1>10
  <2>2. PICK F2 \in Nat : F2 = Refusals'
    BY <1>10
  <2>3. C + R2 + F2 < B + R + F
    BY <1>10, <2>1, <2>2
  <2>4. requests + 1 + C + R2 + F2 <= 2 * iter + 3
    BY <1>2, <1>7, <1>10, <2>3
  <2>5. requests + 1 <= 2 * MaxIterations + 2
    BY <1>1, <1>2, <1>7, <1>10, <2>3
  <2> QED
    BY <1>4, <1>7, <1>10, <2>1, <2>2, <2>4, <2>5 DEF RequestBound
<1>11. CASE RefusesToolChoice
  <2>1. UNCHANGED <<iter, msgs, tokens>> /\ forceSupported /\ forceSupported' = FALSE
    BY <1>11 DEF RefusesToolChoice, Forced
  <2>2. Reliefs(tokens') = R /\ F = 1 /\ Refusals' = 0
    BY <1>5, <1>6, <2>1 DEF Refusals
  <2> QED
    BY <1>8, <1>10, <2>1, <2>2
<1>12. CASE FindsTooLarge
  <2>1. UNCHANGED <<iter, forceSupported>> /\ Refusals' = F
    BY <1>6, <1>12 DEF FindsTooLarge, Refusals
  <2>2. tokens \in Nat
    BY AgentConstants DEF CountersOK
  <2>3. CASE UNCHANGED msgs /\ Reliefs(tokens') \in Nat /\ Reliefs(tokens') < R
    BY <1>8, <1>10, <2>1, <2>3
  <2>4. CASE CanCompact(msgs) /\ msgs' = Compact(msgs) /\ UNCHANGED tokens
    <3>1. Batches(msgs') \subseteq Batches(msgs) /\ Batches(msgs') # Batches(msgs)
      BY <1>2, <2>4, TrimmingTakesABatch
    <3>2. C \in Nat /\ C < B
      BY <1>2, <1>3, <1>4, <3>1, FewerBatches
    <3>3. Reliefs(tokens') = R
      BY <1>5, <2>4
    <3> QED
      BY <1>10, <2>1, <3>2, <3>3
  <2> QED
    BY <1>5, <1>12, <2>2, <2>3, <2>4 DEF FindsTooLarge, Relieve, Reliefs
<1>13. CASE BotchesToolCall
  BY <1>8, <1>9, <1>13 DEF BotchesToolCall
<1>14. CASE CallsTools \/ RunnerCallsTools
  <2>1. PICK heard : /\ Hears(heard, provider) /\ heard.calls > 0
                     /\ msgs' = msgs \o Block(iter + 1, heard)
    BY <1>14, CallsAreHeard
  <2>2. C <= B + 1
    BY <1>2, <1>3, <1>4, <2>1, ExchangeAddsABatch
  <2>3. C \in Nat
    <3>1. Conversation(msgs', iter + 1, provider) /\ iter + 1 \in Nat
      BY <1>2, <2>1, ExchangeContinues
    <3> QED
      BY <1>4, <3>1, FewerBatches
  <2> QED
    BY <1>9, <1>14, <2>2, <2>3 DEF CallsTools, RunnerCallsTools
<1>15. CASE NudgeToSearch \/ NudgeToAnswer
  <2>1. msgs' = msgs \o <<Assistant(<<>>), User>> /\ iter' = iter + 1 /\ UNCHANGED <<tokens, forceSupported>>
    BY <1>15 DEF NudgeToSearch, NudgeToAnswer
  <2>2. Batches(msgs') \subseteq Batches(msgs)
    BY <1>2, <2>1, NudgeAddsNoBatch
  <2>3. C \in Nat /\ C <= B
    BY <1>2, <1>3, <1>4, <2>2, FewerBatches
  <2> QED
    BY <1>9, <2>1, <2>3
<1> QED
  BY <1>11, <1>12, <1>13, <1>14, <1>15 DEF GoesOn

(* No step spends more.                                                    *)
LEMMA BudgetStays ==
    CountersOK /\ SecondAttempt /\ TalkOK /\ Budget /\ [Next]_vars => SecondAttempt' /\ Budget'
<1> SUFFICES ASSUME CountersOK, SecondAttempt, TalkOK, Budget, [Next]_vars PROVE Budget'
  BY SecondAttemptStays
<1>1. SecondAttempt' /\ CountersOK' /\ MaxIterations \in Nat \ {0}
  BY SecondAttemptStays, CountersStay, AgentConstants
<1>2. CASE Ask
  <2>1. /\ asking' = TRUE /\ iter' = 0 /\ requests' = 0 /\ Trimmable(msgs') = {}
    BY <1>2, QuestionOpens DEF Ask, FreshLocals
  <2>2. Batches(msgs') = {} /\ Cardinality(Batches(msgs')) = 0
    BY <2>1, FS_EmptySet DEF Batches
  <2>3. Reliefs(tokens') \in 0 .. 2 /\ Refusals' \in 0 .. 1
    BY DEF Reliefs, Refusals
  <2>4. requests' + Cardinality(Batches(msgs')) + Reliefs(tokens') + Refusals' <= 2 * iter' + 3
    BY <2>1, <2>2, <2>3
  <2> QED
    BY <1>1, <2>1, <2>4 DEF Budget, RequestBound
<1>3. CASE AskUnavailable \/ UNCHANGED vars
  <2>1. asking' = asking /\ provider' = provider /\ UNCHANGED loop
    BY <1>3 DEF AskUnavailable, vars
  <2>2. msgs' = msgs /\ iter' = iter /\ tokens' = tokens /\ forceSupported' = forceSupported /\ requests' = requests
    BY <2>1 DEF loop
  <2> QED
    BY <2>1, <2>2 DEF Budget, Refusals
<1>4. CASE asking' = FALSE /\ requests' = 0
  BY <1>1, <1>4 DEF Budget, RequestBound
<1>5. CASE asking' = TRUE /\ provider' = "anthropic"
  <2>1. iter' \in 0 .. MaxIterations /\ requests' \in Nat
    BY <1>1 DEF CountersOK
  <2>2. requests' <= iter' + 1
    BY <1>1, <1>5 DEF SecondAttempt
  <2>3. PICK i \in 0 .. MaxIterations, q \in Nat : i = iter' /\ q = requests'
    BY <2>1
  <2>4. q <= i + 1 /\ MaxIterations \in Nat \ {0}
    BY <1>1, <2>2, <2>3
  <2>5. q <= 2 * MaxIterations + 2
    BY ONLY <2>4, i \in 0 .. MaxIterations, q \in Nat
  <2> QED
    BY <1>5, <2>3, <2>5 DEF Budget, RequestBound
<1>6. CASE GoesOn /\ provider # "anthropic"
  BY <1>6, BudgetGoesOn DEF Budget
<1>7. GoesOn => asking' = TRUE /\ UNCHANGED provider
  BY DEF GoesOn, RefusesToolChoice, BotchesToolCall, FindsTooLarge, CallsTools, NudgeToSearch,
         NudgeToAnswer, RunnerCallsTools, Requesting, Running
<1>8. CASE Step /\ ~GoesOn
  BY <1>4, <1>5, <1>8, EndsAreFresh DEF FreshLocals
<1> QED
  BY <1>2, <1>3, <1>5, <1>6, <1>7, <1>8 DEF Next, Step, GoesOn

(* A turn sends at most two requests an iteration and two besides, however *)
(* errors, trims, nudges and calls follow each other: what is not an       *)
(* iteration lowers the reservation, gives up tool_choice, or leaves a     *)
(* reply's results with nothing more to trim.                              *)
(* _run_openai_compatible, relieve, _compact.                              *)
THEOREM RequestsAreBounded == Spec => []RequestsBounded
<1>1. Init => Budget
  <2>1. MaxIterations \in Nat
    BY AgentConstants
  <2> QED
    BY <2>1 DEF Init, Budget, RequestBound
<1>2. Budget => RequestsBounded
  BY DEF Budget, RequestsBounded
<1> QED
  BY <1>1, <1>2, TalkAlways, BudgetStays, PTL DEF Spec
=============================================================================
