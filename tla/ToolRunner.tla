----------------------------- MODULE ToolRunner -----------------------------
(***************************************************************************)
(* Runner.Generate (toolchat.go): turns of prompt, prediction, parsing and *)
(* tool calls until the model gives a final answer.  The model's outputs   *)
(* are any that the turn's grammar allows, tools and templates may fail,   *)
(* and the context may be canceled at any moment.                          *)
(***************************************************************************)
EXTENDS Envelope

CONSTANTS
    Configs,        \* runners and messages that Generate is called with
    Output,         \* model outputs
    Text,           \* the caller's texts and
    Instructions    \* the text of systemPrompt

\* What an entry of Response.ToolResults says, and what a message may contain.
Results == [call : ToolCalls, failed : BOOLEAN]
Messages == [role : Strings, body : Seq(Output \cup {Broken} \cup Results \cup Text)]

ASSUME RunnerAssumption ==
    /\ Output \subseteq Outputs /\ Instructions \in Text
    /\ \A c \in Configs : c.maxTurns \in Int /\ c.messages \in Seq(Messages)

defaultMaxTurns == 4

VARIABLES
    config,      \* the Runner, and the caller's messages; never changes
    pc,          \* prepare, turn, template, predict, call, run, done
    turn,        \* the loop's counter
    canceled,    \* ctx.Err() is not nil
    history,
    prompt,      \* the messages given to the chat template
    calls,       \* the batch being executed, and its results so far
    results,
    resp,        \* the Response
    err,         \* the error returned, "" for nil
    ran,         \* every call of a tool function so far
    late         \* predictions and tool functions begun on a context that was canceled
vars == <<config, pc, turn, canceled, history, prompt, calls, results, resp, err, ran, late>>

---------------------------------------------------------------------------
Message(role, body) == [role |-> role, body |-> body]

Tools == {config.tools[i].name : i \in DOMAIN config.tools}
choice == FirstOf(config.choice, "auto")
maxTurns == IF config.maxTurns <= 0 THEN defaultMaxTurns ELSE config.maxTurns

\* What prepare and normalizeTools accept; wellFormed: name and schema are valid.
Prepared ==
    /\ choice \in {"auto", "required", "none"}
    /\ choice = "required" => config.tools # <<>>
    /\ \A i \in DOMAIN config.tools :
         /\ config.tools[i].wellFormed
         /\ choice # "none" => config.tools[i].callable
         /\ \A j \in DOMAIN config.tools : config.tools[i].name = config.tools[j].name => i = j

\* Mutant: the follow-up grammar at once.
KindsOfFollowup(n) == Kinds(Tools, IF choice = "required" THEN "auto" ELSE choice)
\* The grammar of a turn, after n results.
KindsAfter(n) == Kinds(Tools, IF n > 0 /\ choice = "required" THEN "auto" ELSE choice)

\* What the model may answer now.
Answers == {raw \in Output : config.disableGrammar
                             \/ Allowed(raw, Tools, KindsAfter(Len(resp.toolResults)))}

\* Mutant: the caller's system message is replaced.
PromptReplacing(msgs) ==
    IF msgs # <<>> /\ msgs[1].role = "system" THEN [msgs EXCEPT ![1].body = <<Instructions>>]
    ELSE <<Message("system", <<Instructions>>)>> \o msgs
promptMessages(msgs) ==
    IF msgs # <<>> /\ msgs[1].role = "system"
    THEN [msgs EXCEPT ![1].body = <<Instructions>> \o @]
    ELSE <<Message("system", <<Instructions>>)>> \o msgs

---------------------------------------------------------------------------
NoResponse == [messages |-> <<>>, toolCalls |-> <<>>, toolResults |-> <<>>,
               turns |-> 0, rawOutputs |-> <<>>]

Init ==
    /\ config \in Configs
    /\ pc = "prepare" /\ turn = 0 /\ canceled = FALSE
    /\ history = <<>> /\ prompt = <<>> /\ calls = <<>> /\ results = <<>>
    /\ resp = NoResponse /\ err = "" /\ ran = <<>> /\ late = 0

Return(e) == pc' = "done" /\ err' = e

Prepare ==
    /\ pc = "prepare"
    /\ IF Prepared
       THEN /\ pc' = "turn" /\ history' = config.messages
            /\ resp' = [resp EXCEPT !.messages = config.messages] /\ err' = err
       ELSE Return("bad configuration") /\ UNCHANGED <<history, resp>>
    /\ UNCHANGED <<config, turn, canceled, prompt, calls, results, ran, late>>

\* The caller's context ends, whatever Generate is doing.
Cancel ==
    /\ ~canceled /\ pc # "done"
    /\ canceled' = TRUE
    /\ UNCHANGED <<config, pc, turn, history, prompt, calls, results, resp, err, ran, late>>

\* Mutant: one turn too many.
TurnsSpentLate == turn > maxTurns
TurnsSpent == turn >= maxTurns

\* The head of the loop: turns left, context alive; then the messages are chosen.
BeginTurn ==
    /\ pc = "turn"
    /\ \/ TurnsSpent /\ Return("max turns") /\ prompt' = prompt
       \/ ~TurnsSpent /\ canceled /\ Return("canceled") /\ prompt' = prompt
       \/ /\ ~TurnsSpent /\ ~canceled
          /\ prompt' = promptMessages(history) /\ pc' = "template" /\ err' = err
    /\ UNCHANGED <<config, turn, canceled, history, calls, results, resp, ran, late>>

\* Something of the caller's is entered, and nobody looks at the context again before.
Begins == late' = IF canceled THEN late + 1 ELSE late

\* ApplyChatTemplate returns, and Predict is begun with what it made of the messages.
ApplyTemplate ==
    /\ pc = "template"
    /\ \/ pc' = "predict" /\ err' = err /\ Begins
       \/ Return("template") /\ late' = late
    /\ UNCHANGED <<config, turn, canceled, history, prompt, calls, results, resp, ran>>

PredictFails ==
    /\ pc = "predict"
    /\ resp' = [resp EXCEPT !.rawOutputs = Append(@, Broken)]
    /\ Return("predict")
    /\ UNCHANGED <<config, turn, canceled, history, prompt, calls, results, ran, late>>

WithAnswer(raw) == [resp EXCEPT !.rawOutputs = Append(@, raw), !.turns = turn + 1]

\* Predict returns raw, which is parsed: a final answer, calls, or an error.
Final(raw) ==
    /\ parseEnvelope(raw).type = "final"
    /\ resp' = [WithAnswer(raw) EXCEPT !.messages = Append(history, Message("assistant", <<raw>>))]
    /\ Return("") /\ UNCHANGED <<calls, results>>

StartCalls(raw) ==
    /\ parseEnvelope(raw).type = "tool_call" /\ choice # "none"
    /\ calls' = parseEnvelope(raw).calls /\ results' = <<>>
    /\ pc' = "call" /\ resp' = WithAnswer(raw) /\ err' = err

\* Mutant: an output that does not parse is asked for again.
RefuseAndRetry(raw) ==
    /\ parseEnvelope(raw).type = "error"
    /\ pc' = "turn" /\ UNCHANGED <<resp, err, calls, results>>

Refuse(raw) ==
    /\ \/ parseEnvelope(raw).type = "error" /\ Return("parse")
       \/ parseEnvelope(raw).type = "tool_call" /\ choice = "none" /\ Return("tool choice is none")
    /\ resp' = WithAnswer(raw) /\ UNCHANGED <<calls, results>>

Predict ==
    /\ pc = "predict"
    /\ \E raw \in Answers : Final(raw) \/ StartCalls(raw) \/ Refuse(raw)
    /\ UNCHANGED <<config, turn, canceled, history, prompt, ran, late>>

BatchDone == Len(results) = Len(calls)

\* Mutants: numbered within the turn only, as ParseEnvelope does; a failed call
\* leaves no result.
IdInTurn(i) == <<i>>
OnlySuccesses(result) == IF result.failed THEN results ELSE Append(results, result)

MadeUpId(i) == <<turn + 1, i>>
WithResult(result) == Append(results, result)

Current ==
    LET i == Len(results) + 1
    IN  [calls[i] EXCEPT !.id = IF @ = <<>> THEN MadeUpId(i) ELSE @]

\* Mutant: the context is looked at before a batch only.
MayRunBatch == results # <<>> \/ ~canceled
MayRun == ~canceled

\* One call of executeToolCalls is looked at: refused, or let through.
SkipCall ==
    /\ pc = "call" /\ ~BatchDone
    /\ \/ Current.name \notin Tools /\ Return("unknown tool")
       \/ Current.name \in Tools /\ ~MayRun /\ Return("canceled")
    /\ UNCHANGED <<config, turn, canceled, history, prompt, calls, results, resp, ran, late>>

EnterCall ==
    /\ pc = "call" /\ ~BatchDone /\ Current.name \in Tools /\ MayRun
    /\ pc' = "run"
    /\ UNCHANGED <<config, turn, canceled, history, prompt, calls, results, resp, err, ran, late>>

\* Its function is called, and its error returned or recorded.
RunCall ==
    /\ pc = "run" /\ Begins
    /\ ran' = Append(ran, Current)
    /\ \/ \E failed \in BOOLEAN :
            /\ failed => ~config.failOnToolError
            /\ results' = WithResult([call |-> Current, failed |-> failed])
            /\ pc' = "call" /\ err' = err
       \/ config.failOnToolError /\ Return("tool failed") /\ results' = results
       \/ Return("result is not JSON") /\ results' = results
    /\ UNCHANGED <<config, turn, canceled, history, prompt, calls, resp>>

\* Mutant: the message repeats the results of every turn.
AllResults == resp.toolResults \o results
formatToolResults == results

\* The batch is done: its results are recorded and told to the model.
EndTurn ==
    /\ pc = "call" /\ BatchDone
    /\ history' = history \o <<Message("assistant", <<resp.rawOutputs[turn + 1]>>),
                               Message("user", formatToolResults)>>
    /\ resp' = [resp EXCEPT !.toolCalls = @ \o [i \in DOMAIN results |-> results[i].call],
                            !.toolResults = @ \o results, !.messages = history']
    /\ turn' = turn + 1 /\ pc' = "turn"
    /\ calls' = <<>> /\ results' = <<>>
    /\ UNCHANGED <<config, canceled, prompt, err, ran, late>>

Step == Prepare \/ BeginTurn \/ ApplyTemplate \/ PredictFails \/ Predict
        \/ SkipCall \/ EnterCall \/ RunCall \/ EndTurn
Next == Cancel \/ Step

Spec == Init /\ [][Next]_vars
\* Models, templates and tools return.
FairSpec == Spec /\ WF_vars(Step)

---------------------------------------------------------------------------
TypeOK ==
    /\ config \in Configs /\ canceled \in BOOLEAN /\ late \in Nat
    /\ pc \in {"prepare", "turn", "template", "predict", "call", "run", "done"}
    /\ turn \in 0..maxTurns /\ (pc \in {"template", "predict"} => turn < maxTurns)
    /\ history \in Seq(Messages)
    /\ calls \in Seq(ToolCalls) /\ results \in Seq(Results) /\ Len(results) <= Len(calls)
    /\ resp \in [messages : Seq(Messages), toolCalls : Seq(ToolCalls), toolResults : Seq(Results),
                 turns : {turn, turn + 1}, rawOutputs : Seq(Output \cup {Broken})]
    /\ Len(resp.rawOutputs) \in {resp.turns, resp.turns + 1}

Calls(rs) == [i \in DOMAIN rs |-> rs[i].call]

\* No run of a tool is forgotten, repeated or moved: the response lists them in
\* order, and only those of the batch that failed are missing from it; the last
\* of them may have no result at all (the early returns of executeToolCalls).
Accounted ==
    /\ resp.toolCalls = Calls(resp.toolResults)
    /\ LET known == Calls(resp.toolResults \o results)
       IN  ran = known \/ (err # "" /\ \E c \in {ran[i] : i \in DOMAIN ran} : ran = Append(known, c))

\* msgs is the caller's messages and then, for each of the first n turns, the
\* model's output and the results of the calls in it; together these are all
\* the results recorded.
Replays(msgs, n) ==
    LET given == Len(config.messages)
        told[k \in 0..n] == IF k = 0 THEN <<>> ELSE told[k - 1] \o msgs[given + 2 * k].body
    IN  /\ Len(msgs) = given + 2 * n
        /\ SubSeq(msgs, 1, given) = config.messages
        /\ \A k \in 1..n :
             /\ msgs[given + 2 * k - 1] = Message("assistant", <<resp.rawOutputs[k]>>)
             /\ msgs[given + 2 * k].role = "user"
             /\ Len(msgs[given + 2 * k].body) = Len(parseEnvelope(resp.rawOutputs[k]).calls)
        /\ told[n] = resp.toolResults

\* The model sees, behind the protocol's instructions, all that was said so far:
\* the caller's system message too, and every result of every turn once.
PromptTellsAll ==
    pc = "predict" =>
        LET own == config.messages # <<>> /\ config.messages[1].role = "system"
        IN  /\ prompt[1].role = "system" /\ prompt[1].body[1] = Instructions
            /\ own \/ Len(prompt[1].body) = 1
            /\ Replays(IF own THEN [prompt EXCEPT ![1].body = Tail(@)] ELSE Tail(prompt), turn)

\* Response.Messages can be continued from: it is the conversation of the turns
\* completed, without the instructions, and ends in the answer if there is one.
MessagesReplay ==
    pc = "done" /\ err # "bad configuration" =>
        IF err # "" THEN Replays(resp.messages, turn)
        ELSE /\ Replays(SubSeq(resp.messages, 1, Len(resp.messages) - 1), turn)
             /\ resp.messages[Len(resp.messages)] = Message("assistant", <<resp.rawOutputs[turn + 1]>>)

\* "With ToolChoiceRequired the first turn must call a tool" (README.md:217): the
\* grammar leaves no answer without a result before it.
RequiredMeansCalled ==
    pc = "done" /\ err = "" /\ choice = "required" /\ ~config.disableGrammar => resp.toolResults # <<>>

\* Results can be told apart by id over the whole conversation when the grammar
\* keeps the model from inventing ids.
IdsDistinct ==
    ~config.disableGrammar =>
        LET all == resp.toolResults \o results
        IN  \A i, j \in DOMAIN all : all[i].call.id = all[j].call.id => i = j

\* A canceled conversation winds down: at most the one prediction or tool whose
\* ctx.Err() was read before the cancellation is still begun (the template call lies
\* between the check and Predict), and then nothing, whatever batch is under way.
CanceledStops == late <= 1

\* Generate returns, whatever the model keeps asking for.
Returns == <>(pc = "done")
=============================================================================
