------------------------ MODULE SubAgentRunnerProofs ------------------------
(***************************************************************************)
(* Proofs about SubAgentRunner, for any tools, any number of turns and of  *)
(* calls in one response, and any use of tokens.  CallsAreAnswered speaks  *)
(* of the moments when the model is asked; in between, a call that has no  *)
(* answer yet is at its place in the list of those still to be run.        *)
(***************************************************************************)
EXTENDS SubAgentRunner, DataInduction

\* The answer to a call, or the call itself, at the place where the answer goes.
IsAnswered(i, j) ==
  /\ i + j \in DOMAIN messages
  /\ messages[i + j] = Answered(messages[i].calls[j])

IsDue(i, j) ==
  /\ i + j - Len(messages) \in DOMAIN calls
  /\ calls[i + j - Len(messages)] = messages[i].calls[j]

AnsweredOrDue ==
  pc # "raised" =>
    \A i \in DOMAIN messages : \A j \in DOMAIN messages[i].calls :
      IsAnswered(i, j) \/ IsDue(i, j)

\* Nothing is left to run when the model is asked.
NothingDue == pc \in {"resolving", "asking"} => calls = <<>>

\* Nothing has been spent where the loop has not begun.
NothingSpent == pc = "resolving" => tokens = 0 /\ log = <<>>

IInv ==
  /\ TypeOK
  /\ AnsweredOrDue
  /\ NothingDue
  /\ NothingSpent
  /\ LogIsTheConversation

-----------------------------------------------------------------------------
(* The conversation and the tools called in it.                              *)

ToolNames(cs) == [j \in DOMAIN cs |-> cs[j].tool]

Transcript(ms) == [i \in DOMAIN ms |-> ToolNames(ms[i].calls)]

LEMMA NamesOfCalls ==
  ASSUME NEW cs \in Seq(Call)
  PROVE  ToolNames(cs) \in Seq(Names) /\ Len(ToolNames(cs)) = Len(cs)
<1>1. ASSUME NEW j \in 1 .. Len(cs) PROVE cs[j].tool \in Names
  <2>1. cs[j] \in Call
    OBVIOUS
  <2>2. QED
    BY <2>1 DEF Call
<1>2. ToolNames(cs) \in [1 .. Len(cs) -> Names]
  BY <1>1 DEF ToolNames
<1>3. QED
  BY <1>2

LEMMA NamesOfNone == ToolNames(<<>>) = <<>>
BY DEF ToolNames

\* The first call of a list and the rest, by name.
LEMMA NamesOfFirst ==
  ASSUME NEW cs \in Seq(Call), cs # <<>>
  PROVE  ToolNames(cs) = <<Head(cs).tool>> \o ToolNames(Tail(cs))
<1> DEFINE rest == Tail(cs)
<1>1. rest \in Seq(Call) /\ Len(rest) = Len(cs) - 1 /\ Len(cs) \in Nat \ {0}
  OBVIOUS
<1>2. \A j \in 1 .. Len(rest) : rest[j] = cs[j + 1]
  OBVIOUS
<1>3. Head(cs) = cs[1]
  OBVIOUS
<1> HIDE DEF rest
<1>4. ToolNames(rest) \in Seq(Names) /\ Len(ToolNames(rest)) = Len(rest)
  BY <1>1, NamesOfCalls
<1>5. ToolNames(cs) \in Seq(Names) /\ Len(ToolNames(cs)) = Len(cs)
  BY NamesOfCalls
<1>6. ASSUME NEW k \in 1 .. Len(cs)
      PROVE  ToolNames(cs)[k] = (<<Head(cs).tool>> \o ToolNames(rest))[k]
  <2>1. ToolNames(cs)[k] = cs[k].tool
    BY DEF ToolNames
  <2>2. CASE k = 1
    BY <1>3, <1>4, <2>1, <2>2
  <2>3. CASE k > 1
    <3>1. k - 1 \in 1 .. Len(rest)
      BY <1>1, <2>3
    <3>2. ToolNames(rest)[k - 1] = rest[k - 1].tool
      BY <1>1, <3>1 DEF ToolNames
    <3>3. (<<Head(cs).tool>> \o ToolNames(rest))[k] = ToolNames(rest)[k - 1]
      BY <1>4, <2>3, <3>1
    <3>4. rest[k - 1] = cs[k]
      <4>1. rest[k - 1] = cs[(k - 1) + 1]
        BY <1>2, <3>1
      <4>2. (k - 1) + 1 = k
        OBVIOUS
      <4>3. QED
        BY <4>1, <4>2
    <3>5. QED
      BY <2>1, <3>2, <3>3, <3>4
  <2>4. k = 1 \/ k > 1
    OBVIOUS
  <2>5. QED
    BY <2>2, <2>3, <2>4
<1>7. Head(cs).tool \in Names
  <2>1. Head(cs) \in Call
    OBVIOUS
  <2>2. QED
    BY <2>1 DEF Call
<1>8. /\ <<Head(cs).tool>> \o ToolNames(rest) \in Seq(Names)
      /\ Len(<<Head(cs).tool>> \o ToolNames(rest)) = Len(cs)
  BY <1>1, <1>4, <1>7
<1>9. ToolNames(cs) = <<Head(cs).tool>> \o ToolNames(rest)
  BY <1>5, <1>6, <1>8
<1>10. QED
  BY <1>9 DEF rest

\* One message more adds its calls to the transcript, and nothing else.
LEMMA ConversationGrows ==
  ASSUME NEW ms \in Seq(Message), NEW m \in Message
  PROVE  FlattenSeq(Transcript(Append(ms, m))) =
           FlattenSeq(Transcript(ms)) \o ToolNames(m.calls)
<1>1. ToolNames(m.calls) \in Seq(Names)
  BY NamesOfCalls DEF Message
<1>2. ASSUME NEW i \in 1 .. Len(ms) PROVE ToolNames(ms[i].calls) \in Seq(Names)
  <2>1. ms[i] \in Message
    OBVIOUS
  <2>2. ms[i].calls \in Seq(Call)
    BY <2>1 DEF Message
  <2>3. QED
    BY <2>2, NamesOfCalls
<1>3. Transcript(ms) \in [1 .. Len(ms) -> Seq(Names)]
  BY <1>2 DEF Transcript
<1>4. Transcript(ms) \in Seq(Seq(Names)) /\ Len(Transcript(ms)) = Len(ms)
  BY <1>3
<1>5. Transcript(Append(ms, m)) = Append(Transcript(ms), ToolNames(m.calls))
  <2> DEFINE A == Transcript(Append(ms, m))
             B == Append(Transcript(ms), ToolNames(m.calls))
  <2>1. DOMAIN Append(ms, m) = 1 .. Len(ms) + 1
    OBVIOUS
  <2>2. A = [i \in 1 .. Len(ms) + 1 |-> ToolNames(Append(ms, m)[i].calls)]
    BY <2>1 DEF Transcript
  <2>3. B \in Seq(Seq(Names)) /\ Len(B) = Len(ms) + 1
    BY <1>1, <1>4
  <2>4. B = [i \in 1 .. Len(ms) + 1 |-> B[i]]
    <3> HIDE DEF B
    <3>1. QED
      BY <2>3
  <2>5. ASSUME NEW i \in 1 .. Len(ms) + 1 PROVE ToolNames(Append(ms, m)[i].calls) = B[i]
    <3>1. CASE i = Len(ms) + 1
      <4>1. Append(ms, m)[i] = m
        BY <3>1
      <4>2. B[i] = ToolNames(m.calls)
        BY <1>1, <1>4, <3>1
      <4>3. QED
        BY <4>1, <4>2
    <3>2. CASE i \in 1 .. Len(ms)
      <4>1. Append(ms, m)[i] = ms[i]
        BY <3>2
      <4>2. B[i] = Transcript(ms)[i]
        BY <1>1, <1>4, <3>2
      <4>3. Transcript(ms)[i] = ToolNames(ms[i].calls)
        BY <3>2 DEF Transcript
      <4>4. QED
        BY <4>1, <4>2, <4>3
    <3>3. i \in 1 .. Len(ms) \/ i = Len(ms) + 1
      OBVIOUS
    <3>4. QED
      BY <3>1, <3>2, <3>3
  <2>6. QED
    <3> HIDE DEF A, B
    <3>1. A = B
      BY <2>2, <2>4, <2>5
    <3>2. QED
      BY <3>1 DEF A, B
<1>6. QED
  BY <1>1, <1>4, <1>5, FlattenAppend

LEMMA LogInTermsOfTranscript ==
  LogIsTheConversation <=> log \o ToolNames(calls) = FlattenSeq(Transcript(messages))
BY DEF LogIsTheConversation, ToolNames, Transcript

-----------------------------------------------------------------------------
(* Types.                                                                    *)

LEMMA CallsAreTyped ==
  ASSUME TypeOK, NEW names \in CallLists
  PROVE  CallsOf(names) \in Seq(Call)
<1>1. PICK n \in 1 .. MaxCalls : names \in [1 .. n -> Names]
  BY DEF CallLists
<1>2. n \in Nat /\ Len(log) \in Nat
  BY UsageIsNatural DEF TypeOK
<1>3. ASSUME NEW i \in 1 .. n PROVE [tool |-> names[i], id |-> Len(log) + i] \in Call
  BY <1>1, <1>2 DEF Call
<1>4. CallsOf(names) \in [1 .. n -> Call]
  BY <1>1, <1>3 DEF CallsOf
<1>5. QED
  BY <1>2, <1>4

LEMMA MessagesAreTyped ==
  /\ Human \in Message
  /\ \A cs \in Seq(Call) : Response(cs) \in Message
  /\ \A c \in Call : Answered(c) \in Message
BY DEF Human, Response, Answered, Message, Call

\* The parts of a step that runs a tool, in the terms of Append.
LEMMA RunToolSteps ==
  ASSUME TypeOK, RunTool \/ BadCall
  PROVE  /\ Head(calls) \in Call
         /\ calls' \in Seq(Call) /\ Len(calls') = Len(calls) - 1
         /\ \A k \in 1 .. Len(calls) - 1 : calls'[k] = calls[k + 1]
         /\ Head(calls) = calls[1]
         /\ Len(calls) \in Nat \ {0}
         /\ RunTool => messages' = Append(messages, Answered(Head(calls)))
         /\ log' = log \o <<Head(calls).tool>>
<1>1. calls \in Seq(Call) /\ calls # <<>> /\ messages \in Seq(Message)
  BY DEF TypeOK, RunTool, BadCall
<1>2. Head(calls) \in Call
  BY <1>1
<1>3. Answered(Head(calls)) \in Message
  BY <1>2, MessagesAreTyped
<1>4. RunTool => messages' = Append(messages, Answered(Head(calls)))
  BY <1>1, <1>3 DEF RunTool, ToolMessages
<1>5. calls' = Tail(calls) /\ log' = log \o <<Head(calls).tool>>
  BY DEF RunTool, BadCall, LogEntry
<1>6. QED
  BY <1>1, <1>2, <1>4, <1>5

LEMMA InitTypeOK == Init => TypeOK
<1> SUFFICES ASSUME Init PROVE TypeOK
  OBVIOUS
<1>1. <<Human>> \in Seq(Message) /\ <<>> \in Seq(Call) /\ <<>> \in Seq(Names)
  BY MessagesAreTyped
<1>2. 0 \in 0 .. MaxReactSteps
  BY StepsArePositive
<1>3. messages \in Seq(Message) /\ calls \in Seq(Call) /\ log \in Seq(Names)
  BY <1>1, Zenon DEF Init
<1>4. step \in 0 .. MaxReactSteps /\ tokens \in Nat
  BY <1>2 DEF Init
<1>5. QED
  BY <1>3, <1>4 DEF Init, TypeOK

LEMMA NextTypeOK == TypeOK /\ [Next]_vars => TypeOK'
<1> SUFFICES ASSUME TypeOK, [Next]_vars PROVE TypeOK'
  OBVIOUS
<1> USE DEF TypeOK
<1>1. CASE Resolve \/ Raise \/ EndTurn \/ Exhausted
  BY <1>1 DEF Resolve, Raise, EndTurn, Exhausted
<1>2. ASSUME Ask PROVE step' \in 0 .. MaxReactSteps
  BY <1>2, StepsArePositive DEF Ask, TurnsLeft
<1>3. CASE AskFails \/ BadUsage
  BY <1>2, <1>3 DEF AskFails, BadUsage
<1>4. ASSUME NEW used \in Usage, FinalAnswer(used) PROVE TypeOK'
  <2>1. Response(<<>>) \in Message
    <3>1. <<>> \in Seq(Call)
      OBVIOUS
    <3>2. QED
      BY <3>1, MessagesAreTyped
  <2>2. used \in Nat
    BY UsageIsNatural
  <2>3. QED
    BY <1>2, <1>4, <2>1, <2>2 DEF FinalAnswer
<1>5. ASSUME NEW used \in Usage, NEW names \in CallLists, ToolCalls(names, used)
      PROVE  TypeOK'
  <2>1. CallsOf(names) \in Seq(Call)
    BY CallsAreTyped
  <2>2. Response(CallsOf(names)) \in Message
    BY <2>1, MessagesAreTyped
  <2>3. used \in Nat
    BY UsageIsNatural
  <2>4. QED
    BY <1>2, <1>5, <2>1, <2>2, <2>3 DEF ToolCalls
<1>6. CASE RunTool \/ BadCall
  <2>1. Answered(Head(calls)) \in Message /\ Head(calls).tool \in Names
    BY <1>6, RunToolSteps, MessagesAreTyped DEF Call
  <2>2. messages' \in Seq(Message)
    <3> HIDE DEF TypeOK
    <3>1. /\ messages \in Seq(Message)
          /\ messages' = messages \/ messages' = Append(messages, Answered(Head(calls)))
      BY <1>6, RunToolSteps DEF TypeOK, BadCall
    <3>2. QED
      BY <2>1, <3>1
  <2>3. calls' \in Seq(Call) /\ log' = log \o <<Head(calls).tool>>
    BY <1>6, RunToolSteps
  <2>4. log' \in Seq(Names)
    <3> HIDE DEF TypeOK
    <3>1. log \in Seq(Names)
      BY DEF TypeOK
    <3>2. QED
      BY <2>1, <2>3, <3>1
  <2>5. QED
    BY <1>6, <2>2, <2>3, <2>4 DEF RunTool, BadCall
<1>7. CASE UNCHANGED vars
  BY <1>7 DEF vars
<1>8. QED
  BY <1>1, <1>3, <1>4, <1>5, <1>6, <1>7 DEF Next, LoopStep, Quiet

THEOREM TypeCorrect == Spec => []TypeOK
<1>1. QED
  BY InitTypeOK, NextTypeOK, PTL DEF Spec

-----------------------------------------------------------------------------
(* Calls and answers.                                                        *)

\* A response leaves the earlier calls answered and its own in the list.
LEMMA ResponseKeepsAnswers ==
  ASSUME TypeOK, AnsweredOrDue, pc = "asking", calls = <<>>, NEW cs \in Seq(Call),
         messages' = Append(messages, Response(cs)), calls' = cs
  PROVE  AnsweredOrDue'
<1>1. messages \in Seq(Message) /\ Response(cs) \in Message
  BY MessagesAreTyped DEF TypeOK
<1>2. Len(messages') = Len(messages) + 1 /\ Len(messages) \in Nat
  BY <1>1
<1>3. DOMAIN messages' = 1 .. Len(messages) + 1 /\ DOMAIN messages = 1 .. Len(messages)
  BY <1>1
<1>4. \A i \in DOMAIN messages : messages'[i] = messages[i]
  BY <1>1
<1>5. messages'[Len(messages) + 1] = Response(cs)
  BY <1>1
<1> SUFFICES ASSUME NEW i \in DOMAIN messages', NEW j \in DOMAIN messages'[i].calls
             PROVE  IsAnswered(i, j)' \/ IsDue(i, j)'
  BY DEF AnsweredOrDue
<1>6. CASE i = Len(messages) + 1
  <2>1. messages'[i].calls = cs
    BY <1>5, <1>6 DEF Response
  <2>2. j \in 1 .. Len(cs) /\ DOMAIN cs = 1 .. Len(cs) /\ Len(cs) \in Nat
    BY <2>1
  <2>3. i + j - Len(messages') = j
    BY <1>2, <1>6, <2>2
  <2>4. QED
    BY <2>1, <2>2, <2>3 DEF IsDue
<1>7. CASE i \in DOMAIN messages
  <2>1. messages'[i] = messages[i]
    BY <1>4, <1>7
  <2>2. IsAnswered(i, j)
    BY <1>7, <2>1 DEF AnsweredOrDue, IsDue
  <2>3. i + j \in DOMAIN messages' /\ messages'[i + j] = messages[i + j]
    BY <1>3, <1>4, <2>2 DEF IsAnswered
  <2>4. QED
    BY <2>1, <2>2, <2>3 DEF IsAnswered
<1>8. QED
  BY <1>2, <1>3, <1>6, <1>7

\* An answer goes where the call it belongs to expects it.
LEMMA AnswersGoInPlace == TypeOK /\ AnsweredOrDue /\ RunTool => AnsweredOrDue'
<1> SUFFICES ASSUME TypeOK, AnsweredOrDue, RunTool, pc # "raised",
                    NEW i \in DOMAIN messages', NEW j \in DOMAIN messages'[i].calls
             PROVE  IsAnswered(i, j)' \/ IsDue(i, j)'
  BY DEF AnsweredOrDue, RunTool
<1> DEFINE c == Head(calls)
           n == Len(messages)
<1>1. messages \in Seq(Message) /\ calls \in Seq(Call) /\ n \in Nat
  BY DEF TypeOK
<1>2. c \in Call /\ Answered(c) \in Message
  BY RunToolSteps, MessagesAreTyped
<1>3. messages' = Append(messages, Answered(c))
  BY RunToolSteps
<1> HIDE DEF c
<1>4. /\ Len(messages') = n + 1
      /\ DOMAIN messages' = 1 .. n + 1 /\ DOMAIN messages = 1 .. n
      /\ \A k \in 1 .. n : messages'[k] = messages[k]
      /\ messages'[n + 1] = Answered(c)
  BY <1>1, <1>2, <1>3
<1>5. i # n + 1
  BY <1>4 DEF Answered
<1>6. i \in 1 .. n /\ messages'[i] = messages[i]
  BY <1>1, <1>4, <1>5
<1>7. messages[i].calls \in Seq(Call)
  <2>1. messages[i] \in Message
    BY <1>1, <1>6
  <2>2. QED
    BY <2>1 DEF Message
<1>8. j \in Nat \ {0}
  BY <1>6, <1>7
<1>9. CASE IsAnswered(i, j)
  <2>1. i + j \in 1 .. n /\ messages[i + j] = Answered(messages[i].calls[j])
    BY <1>4, <1>9 DEF IsAnswered
  <2>2. i + j \in 1 .. n + 1
    BY <1>1, <2>1
  <2>3. QED
    BY <1>4, <1>6, <2>1, <2>2 DEF IsAnswered
<1>10. CASE IsDue(i, j)
  <2> DEFINE k == i + j - n
  <2>1. k \in 1 .. Len(calls) /\ calls[k] = messages[i].calls[j]
    BY <1>1, <1>10 DEF IsDue
  <2>2. CASE k = 1
    <3>1. i + j = n + 1
      BY <1>1, <1>6, <1>8, <2>2
    <3>2. c = messages[i].calls[j]
      BY <2>1, <2>2, RunToolSteps DEF c
    <3>3. QED
      BY <1>1, <1>4, <1>6, <3>1, <3>2 DEF IsAnswered
  <2>3. CASE k > 1
    <3>1. k - 1 \in 1 .. Len(calls) - 1 /\ k - 1 = i + j - Len(messages')
      BY <1>1, <1>4, <1>6, <1>8, <2>1, <2>3, RunToolSteps
    <3>2. calls'[k - 1] = calls[(k - 1) + 1] /\ DOMAIN calls' = 1 .. Len(calls) - 1
      BY <3>1, RunToolSteps
    <3>3. (k - 1) + 1 = k
      BY <2>1
    <3>4. calls'[k - 1] = messages[i].calls[j] /\ k - 1 \in DOMAIN calls'
      BY <2>1, <3>1, <3>2, <3>3
    <3> HIDE DEF k
    <3>5. QED
      BY <1>6, <3>1, <3>4 DEF IsDue
  <2>4. QED
    BY <2>1, <2>2, <2>3
<1>11. QED
  BY <1>4, <1>6, <1>9, <1>10 DEF AnsweredOrDue

LEMMA NextAnswers == TypeOK /\ AnsweredOrDue /\ NothingDue /\ [Next]_vars => AnsweredOrDue'
<1> SUFFICES ASSUME TypeOK, AnsweredOrDue, NothingDue, [Next]_vars PROVE AnsweredOrDue'
  OBVIOUS
<1>1. ASSUME UNCHANGED <<messages, calls>>, pc' # "raised" => pc # "raised"
      PROVE  AnsweredOrDue'
  BY <1>1 DEF AnsweredOrDue, IsAnswered, IsDue
<1>2. CASE Resolve \/ EndTurn \/ Exhausted \/ AskFails \/ UNCHANGED vars
  BY <1>1, <1>2 DEF Resolve, EndTurn, Exhausted, AskFails, Ask, vars
<1>3. ASSUME NEW used \in Usage, FinalAnswer(used) PROVE AnsweredOrDue'
  <2>1. calls = <<>> /\ calls' = <<>> /\ messages' = Append(messages, Response(<<>>))
    BY <1>3 DEF FinalAnswer, Ask, NothingDue
  <2>2. <<>> \in Seq(Call)
    OBVIOUS
  <2>3. QED
    BY <1>3, <2>1, <2>2, ResponseKeepsAnswers DEF FinalAnswer, Ask
<1>4. ASSUME NEW used \in Usage, NEW names \in CallLists, ToolCalls(names, used)
      PROVE  AnsweredOrDue'
  <2>1. calls = <<>>
    BY <1>4 DEF ToolCalls, Ask, NothingDue
  <2>2. QED
    BY <1>4, <2>1, CallsAreTyped, ResponseKeepsAnswers DEF ToolCalls, Ask
<1>5. CASE RunTool
  BY <1>5, AnswersGoInPlace
<1>6. CASE Raise \/ BadUsage \/ BadCall
  BY <1>6 DEF Raise, BadUsage, BadCall, AnsweredOrDue
<1>7. QED
  BY <1>2, <1>3, <1>4, <1>5, <1>6 DEF Next, LoopStep, Quiet

LEMMA NextNothing ==
  NothingDue /\ NothingSpent /\ [Next]_vars => NothingDue' /\ NothingSpent'
<1> SUFFICES ASSUME NothingDue, NothingSpent, [Next]_vars
             PROVE  NothingDue' /\ NothingSpent'
  OBVIOUS
<1> USE DEF NothingDue, NothingSpent
<1>1. CASE Resolve \/ Raise
  BY <1>1 DEF Resolve, Raise, Raisable
<1>2. CASE EndTurn \/ Exhausted \/ AskFails \/ BadUsage \/ BadCall \/ UNCHANGED vars
  BY <1>2 DEF EndTurn, Exhausted, AskFails, BadUsage, BadCall, Ask, vars
<1>3. ASSUME NEW used \in Usage, FinalAnswer(used) PROVE NothingDue' /\ NothingSpent'
  BY <1>3 DEF FinalAnswer, Ask
<1>4. ASSUME NEW used \in Usage, NEW names \in CallLists, ToolCalls(names, used)
      PROVE  NothingDue' /\ NothingSpent'
  BY <1>4 DEF ToolCalls
<1>5. CASE RunTool
  BY <1>5 DEF RunTool
<1>6. QED
  BY <1>1, <1>2, <1>3, <1>4, <1>5 DEF Next, LoopStep, Quiet

-----------------------------------------------------------------------------
(* The log.                                                                  *)

LEMMA InitLog == Init => LogIsTheConversation
<1> SUFFICES ASSUME Init PROVE LogIsTheConversation
  OBVIOUS
<1>1. Transcript(messages) = Append(<<>>, <<>>)
  BY DEF Init, Human, Transcript, ToolNames
<1>2. FlattenSeq(Append(<<>>, <<>>)) = FlattenSeq(<<>>) \o <<>>
  <2>1. <<>> \in Seq(Seq(Names)) /\ <<>> \in Seq(Names)
    OBVIOUS
  <2>2. QED
    BY <2>1, FlattenAppend
<1>3. FlattenSeq(<<>>) = <<>>
  BY DEF FlattenSeq
<1>4. FlattenSeq(Transcript(messages)) = <<>> \o <<>>
  BY <1>1, <1>2, <1>3
<1>5. log \o ToolNames(calls) = <<>> \o <<>>
  BY NamesOfNone DEF Init
<1>6. QED
  BY <1>4, <1>5, LogInTermsOfTranscript

LEMMA NextLog ==
  TypeOK /\ NothingDue /\ LogIsTheConversation /\ [Next]_vars => LogIsTheConversation'
<1> SUFFICES ASSUME TypeOK, NothingDue, LogIsTheConversation, [Next]_vars
             PROVE  log' \o ToolNames(calls') = FlattenSeq(Transcript(messages'))
  BY LogInTermsOfTranscript DEF LogIsTheConversation, ToolNames, Transcript
<1>1. /\ log \in Seq(Names) /\ calls \in Seq(Call) /\ messages \in Seq(Message)
      /\ ToolNames(calls) \in Seq(Names)
  BY NamesOfCalls DEF TypeOK
<1>2. log \o ToolNames(calls) = FlattenSeq(Transcript(messages))
  BY LogInTermsOfTranscript
<1>3. CASE Resolve \/ Raise \/ EndTurn \/ Exhausted \/ AskFails \/ BadUsage \/ UNCHANGED vars
  BY <1>2, <1>3 DEF Resolve, Raise, EndTurn, Exhausted, AskFails, BadUsage, vars
\* A response adds its calls to the conversation and to those still to be run.
<1>4. ASSUME NEW cs \in Seq(Call), calls = <<>>, calls' = cs, log' = log,
             messages' = Append(messages, Response(cs))
      PROVE  log' \o ToolNames(calls') = FlattenSeq(Transcript(messages'))
  <2>1. Response(cs) \in Message /\ Response(cs).calls = cs
    BY MessagesAreTyped DEF Response
  <2>2. FlattenSeq(Transcript(messages')) = FlattenSeq(Transcript(messages)) \o ToolNames(cs)
    BY <1>1, <1>4, <2>1, ConversationGrows
  <2>3. log \o <<>> = log
    BY <1>1
  <2>4. FlattenSeq(Transcript(messages)) = log
    BY <1>2, <1>4, <2>3, NamesOfNone
  <2>5. QED
    BY <1>4, <2>2, <2>4
<1>5. ASSUME NEW used \in Usage, FinalAnswer(used)
      PROVE  log' \o ToolNames(calls') = FlattenSeq(Transcript(messages'))
  <2>1. calls = <<>> /\ calls' = <<>> /\ <<>> \in Seq(Call)
    BY <1>5 DEF FinalAnswer, Ask, NothingDue
  <2>2. QED
    BY <1>4, <1>5, <2>1 DEF FinalAnswer
<1>6. ASSUME NEW used \in Usage, NEW names \in CallLists, ToolCalls(names, used)
      PROVE  log' \o ToolNames(calls') = FlattenSeq(Transcript(messages'))
  <2>1. calls = <<>> /\ CallsOf(names) \in Seq(Call)
    BY <1>6, CallsAreTyped DEF ToolCalls, Ask, NothingDue
  <2>2. QED
    BY <1>4, <1>6, <2>1 DEF ToolCalls
\* A tool that runs moves from the calls to the log; its answer calls nothing.
<1>7. CASE RunTool \/ BadCall
  <2> DEFINE c == Head(calls)
  <2>1. /\ c \in Call /\ calls # <<>>
        /\ calls' = Tail(calls) /\ calls' \in Seq(Call)
        /\ log' = log \o <<c.tool>>
        /\ messages' = messages \/ messages' = Append(messages, Answered(c))
    BY <1>7, RunToolSteps DEF RunTool, BadCall
  <2>2. Answered(c) \in Message /\ Answered(c).calls = <<>>
    BY <2>1, MessagesAreTyped DEF Answered
  <2>3. ToolNames(calls) = <<c.tool>> \o ToolNames(calls')
    BY <1>1, <2>1, NamesOfFirst
  <2>4. ToolNames(calls') \in Seq(Names) /\ c.tool \in Names
    BY <2>1, NamesOfCalls DEF Call
  <2> HIDE DEF c
  <2>5. ASSUME messages' = Append(messages, Answered(c))
        PROVE  FlattenSeq(Transcript(messages')) = FlattenSeq(Transcript(messages)) \o <<>>
    BY <1>1, <2>2, <2>5, ConversationGrows, NamesOfNone
  <2>6. (log \o ToolNames(calls)) \o <<>> = log \o ToolNames(calls)
    BY <1>1
  <2>7. FlattenSeq(Transcript(messages')) = log \o ToolNames(calls)
    BY <1>2, <2>1, <2>5, <2>6
  <2>8. (log \o <<c.tool>>) \o ToolNames(calls') = log \o (<<c.tool>> \o ToolNames(calls'))
    BY <1>1, <2>4
  <2>9. QED
    BY <2>1, <2>3, <2>7, <2>8
<1>8. QED
  BY <1>3, <1>5, <1>6, <1>7 DEF Next, LoopStep, Quiet

-----------------------------------------------------------------------------
(* The invariant and what follows from it.                                   *)

LEMMA InitIInv == Init => IInv
<1> SUFFICES ASSUME Init PROVE IInv
  OBVIOUS
<1>1. AnsweredOrDue
  BY DEF Init, Human, AnsweredOrDue
<1>2. NothingDue /\ NothingSpent
  BY DEF Init, NothingDue, NothingSpent
<1>3. QED
  BY <1>1, <1>2, InitTypeOK, InitLog DEF IInv

LEMMA Invariance == Spec => []IInv
<1>1. IInv /\ [Next]_vars => IInv'
  BY NextTypeOK, NextAnswers, NextNothing, NextLog DEF IInv
<1>2. QED
  BY <1>1, InitIInv, PTL DEF Spec

\* The providers refuse a conversation in which a call has no answer, so every
\* question of run_sub_agent is sent after all tool messages, in their order.
THEOREM CallsAnswered == Spec => []CallsAreAnswered
<1>1. IInv => CallsAreAnswered
  <2> SUFFICES ASSUME IInv, pc = "asking", NEW i \in DOMAIN messages,
                      NEW j \in DOMAIN messages[i].calls
               PROVE  IsAnswered(i, j)
    BY DEF CallsAreAnswered, IsAnswered
  <2>1. calls = <<>>
    BY DEF IInv, NothingDue
  <2>2. ~IsDue(i, j)
    BY <2>1 DEF IsDue
  <2>3. QED
    BY <2>2 DEF IInv, AnsweredOrDue
<1>2. QED
  BY <1>1, Invariance, PTL

\* tool_calls_log, which the lane and its step show, is the calls of the
\* conversation: none is lost, none is repeated and none changes its place.
THEOREM LogComplete == Spec => []LogIsTheConversation
<1>1. IInv => LogIsTheConversation
  BY DEF IInv
<1>2. QED
  BY <1>1, Invariance, PTL

-----------------------------------------------------------------------------
(* The promise of AgentRun.                                                  *)

\* run_sub_agent returns all that was spent, and raises only before the first
\* question or on a malformed answer: the steps of the loop are those that
\* _run_one relies on.  (That it ends is left to the model checker.)
THEOREM AgentRunRefinement == Spec => Run!Spec
<1>1. Init => Run!Init
  BY DEF Init, Run!Init, Outcome
<1>2. IInv /\ [Next]_vars => [Run!Next]_(Run!vars)
  <2> SUFFICES ASSUME IInv, [Next]_vars PROVE [Run!Next]_(Run!vars)
    OBVIOUS
  <2>1. tokens \in Nat /\ log \in Seq(Names) /\ Len(log) \in Nat
    BY DEF IInv, TypeOK
  <2>2. CASE UNCHANGED vars
    BY <2>2 DEF vars, Run!vars, Outcome
  <2>3. CASE Resolve \/ EndTurn
    BY <2>1, <2>3 DEF Resolve, EndTurn, Run!vars, Outcome
  <2>4. CASE Raise
    <3>1. tokens = 0 /\ Len(log) = 0
      BY <2>4 DEF Raise, Raisable, IInv, NothingSpent
    <3>2. QED
      BY <2>4, <3>1 DEF Raise, Raisable, Outcome, Run!Next, Run!Raise
  <2>5. CASE AskFails \/ Exhausted
    BY <2>1, <2>5 DEF AskFails, Ask, Exhausted, Outcome, Run!Next, Run!Return, Run!Add
  <2>6. ASSUME NEW used \in Usage, FinalAnswer(used) PROVE Run!Next
    <3>1. used \in Nat
      BY UsageIsNatural
    <3>2. QED
      BY <2>1, <2>6, <3>1 DEF FinalAnswer, Ask, Outcome, Run!Next, Run!Return, Run!Add
  <2>7. ASSUME NEW used \in Usage, NEW names \in CallLists, ToolCalls(names, used)
        PROVE  Run!Next
    <3>1. used \in Nat
      BY UsageIsNatural
    <3>2. QED
      BY <2>1, <2>7, <3>1 DEF ToolCalls, Ask, Outcome, Run!Next, Run!Spend, Run!Add
  <2>8. CASE RunTool
    <3>1. Len(log') = Len(log) + 1
      BY <2>1, <2>8, RunToolSteps DEF IInv, Call
    <3>2. QED
      BY <2>1, <2>8, <3>1 DEF RunTool, Outcome, Run!Next, Run!Spend, Run!Add
  <2>9. CASE BadUsage
    BY <2>1, <2>9 DEF BadUsage, Ask, Outcome, Run!Next, Run!RaiseOnMalformed, Run!Add
  <2>10. CASE BadCall
    <3>1. Len(log') = Len(log) + 1
      BY <2>1, <2>10, RunToolSteps DEF IInv, Call
    <3>2. QED
      BY <2>1, <2>10, <3>1 DEF BadCall, Outcome, Run!Next, Run!RaiseOnMalformed, Run!Add
  <2>11. QED
    BY <2>2, <2>3, <2>4, <2>5, <2>6, <2>7, <2>8, <2>9, <2>10 DEF Next, LoopStep, Quiet
<1>3. QED
  BY <1>1, <1>2, Invariance, PTL DEF Spec, Run!Spec

-----------------------------------------------------------------------------
(* The loop runs down.                                                       *)

\* A turn is a question, its calls and the way back.
TurnCost == MaxCalls + 2

TurnsToCome == (MaxReactSteps - step) * TurnCost

\* An upper bound on the steps run_sub_agent can still take.
Distance ==
  CASE pc = "resolving" -> TurnsToCome + 2
    [] pc = "asking" -> TurnsToCome + 1
    [] pc = "acting" -> TurnsToCome + 2 + Len(calls)
    [] pc \in {"returned", "raised"} -> 0

LEMMA TurnArithmetic ==
  ASSUME NEW s \in 0 .. MaxReactSteps
  PROVE  /\ TurnCost \in Nat
         /\ (MaxReactSteps - s) * TurnCost \in 0 .. MaxReactSteps * TurnCost
         /\ (MaxReactSteps - s) * TurnCost = (MaxReactSteps - (s + 1)) * TurnCost + TurnCost
<1>1. s \in Nat /\ MaxReactSteps - s \in Nat /\ MaxReactSteps \in Nat /\ TurnCost \in Nat
  BY StepsArePositive, UsageIsNatural DEF TurnCost
<1>2. (MaxReactSteps - s) * TurnCost \in Nat /\ MaxReactSteps * TurnCost \in Nat
  BY <1>1
<1>3. (MaxReactSteps - s) * TurnCost <= MaxReactSteps * TurnCost
  BY <1>1
<1>4. QED
  BY <1>1, <1>2, <1>3

\* The calls of one response and those of them still to be run are few.
FewCalls == Len(calls) <= MaxCalls

LEMMA NextFewCalls == TypeOK /\ FewCalls /\ [Next]_vars => FewCalls'
<1> SUFFICES ASSUME TypeOK, FewCalls, [Next]_vars PROVE FewCalls'
  OBVIOUS
<1>1. ASSUME UNCHANGED calls PROVE FewCalls'
  BY <1>1 DEF FewCalls
<1>2. ASSUME NEW used \in Usage, NEW names \in CallLists, ToolCalls(names, used)
      PROVE  FewCalls'
  <2>1. PICK n \in 1 .. MaxCalls : names \in [1 .. n -> Names]
    BY DEF CallLists
  <2>2. CallsOf(names) \in Seq(Call) /\ DOMAIN CallsOf(names) = 1 .. n
    BY <2>1, CallsAreTyped DEF CallsOf
  <2>3. Len(CallsOf(names)) = n
    BY <2>1, <2>2, UsageIsNatural
  <2>4. QED
    BY <1>2, <2>1, <2>3, UsageIsNatural DEF ToolCalls, FewCalls
<1>3. CASE RunTool \/ BadCall
  <2>1. Len(calls') = Len(calls) - 1 /\ Len(calls) \in Nat
    BY <1>3, RunToolSteps
  <2>2. QED
    BY <2>1, UsageIsNatural DEF FewCalls
<1>4. QED
  BY <1>1, <1>2, <1>3 DEF Next, LoopStep, Quiet, vars, Resolve, Raise, AskFails, BadUsage,
                          FinalAnswer, EndTurn, Exhausted

LEMMA NextDistance ==
  TypeOK /\ FewCalls /\ TypeOK' /\ FewCalls' /\ [Next]_vars
    => [Distance' < Distance]_vars
<1> SUFFICES ASSUME TypeOK, FewCalls, TypeOK', FewCalls', LoopStep
             PROVE  Distance' < Distance
  BY DEF Next, Quiet
<1>1. /\ TurnsToCome \in Nat /\ TurnsToCome' \in Nat /\ Len(calls) \in Nat
      /\ Len(calls') \in Nat /\ MaxCalls \in Nat /\ Len(calls) <= MaxCalls
      /\ Len(calls') <= MaxCalls
  <2>1. TurnsToCome \in Nat /\ Len(calls) \in Nat
    BY TurnArithmetic DEF TypeOK, TurnsToCome
  <2>2. TurnsToCome' \in Nat /\ Len(calls') \in Nat
    BY TurnArithmetic DEF TypeOK, TurnsToCome
  <2>3. QED
    BY <2>1, <2>2, UsageIsNatural DEF FewCalls
<1>2. ASSUME UNCHANGED step PROVE TurnsToCome' = TurnsToCome
  BY <1>2 DEF TurnsToCome
<1> HIDE DEF TurnsToCome
<1>3. CASE Resolve
  BY <1>1, <1>2, <1>3 DEF Resolve, Distance
<1>4. CASE Raise \/ BadCall
  BY <1>1, <1>4 DEF Raise, Raisable, BadCall, Distance
<1>5. CASE AskFails \/ BadUsage \/ Exhausted \/ \E used \in Usage : FinalAnswer(used)
  BY <1>1, <1>5 DEF AskFails, BadUsage, Exhausted, FinalAnswer, Ask, Distance
<1>6. CASE \E used \in Usage, names \in CallLists : ToolCalls(names, used)
  <2>1. Ask /\ pc = "asking" /\ pc' = "acting"
    BY <1>6 DEF ToolCalls, Ask
  <2>2. TurnsToCome = TurnsToCome' + TurnCost
    BY <2>1, TurnArithmetic DEF Ask, TypeOK, TurnsToCome
  <2>3. Distance = TurnsToCome + 1 /\ Distance' = TurnsToCome' + 2 + Len(calls')
    BY <2>1 DEF Distance
  <2>4. QED
    BY <1>1, <2>2, <2>3 DEF TurnCost
<1>7. CASE RunTool
  <2>1. Len(calls') = Len(calls) - 1
    BY <1>7, RunToolSteps
  <2>2. pc = "acting" /\ pc' = "acting" /\ TurnsToCome' = TurnsToCome
    BY <1>2, <1>7 DEF RunTool
  <2>3. QED
    BY <1>1, <2>1, <2>2 DEF Distance
<1>8. CASE EndTurn
  BY <1>1, <1>2, <1>8 DEF EndTurn, Distance
<1>9. QED
  BY <1>3, <1>4, <1>5, <1>6, <1>7, <1>8 DEF LoopStep

LEMMA DistanceIsNatural == TypeOK => Distance \in Nat
<1> SUFFICES ASSUME TypeOK PROVE Distance \in Nat
  OBVIOUS
<1>1. TurnsToCome \in Nat /\ Len(calls) \in Nat
  BY TurnArithmetic DEF TypeOK, TurnsToCome
<1>2. QED
  BY <1>1 DEF Distance, TypeOK

\* However model and tools answer, run_sub_agent is over after at most
\* MAX_REACT_STEPS questions, the calls of each and the way back, and no step of
\* it can be repeated for ever.  That the next step is taken is what fairness adds.
THEOREM LoopRunsDown ==
  Spec => /\ Distance = MaxReactSteps * (MaxCalls + 2) + 2
          /\ [](Distance \in Nat)
          /\ [][Distance' < Distance]_vars
<1>1. Init => Distance = MaxReactSteps * (MaxCalls + 2) + 2
  BY StepsArePositive, UsageIsNatural DEF Init, Distance, TurnsToCome, TurnCost
<1>2. Init => FewCalls
  BY UsageIsNatural DEF Init, FewCalls
<1>3. QED
  BY <1>1, <1>2, InitTypeOK, NextTypeOK, NextFewCalls, NextDistance, DistanceIsNatural, PTL
     DEF Spec

=============================================================================
