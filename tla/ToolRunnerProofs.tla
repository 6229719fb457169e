-------------------------- MODULE ToolRunnerProofs --------------------------
(***************************************************************************)
(* For every set of runners and every set of outputs: a conversation is    *)
(* well typed and within its turns, accounts for every run of a tool, a    *)
(* runner that requires a tool gets no answer before one, and prompts and  *)
(* returned messages tell every completed turn.                            *)
(***************************************************************************)
EXTENDS ToolRunner, SequenceTheorems, WellFoundedInduction, TLAPS

---------------------------------------------------------------------------
\* The operators of Envelope.

\* The calls that parseEnvelope returns are well typed.
LEMMA ParsedCalls ==
    ASSUME NEW r \in Outputs
    PROVE  parseEnvelope(r).calls \in Seq(ToolCalls)
<1>1. CallsIn(r) \in Seq(CallEnvelopes)
  <2>1. /\ r.name \in Strings /\ r.tool \in Strings /\ r.args \in ArgsKinds
        /\ r.calls \in Seq(CallEnvelopes)
    BY DEF Outputs
  <2>2. <<>> \in Seq(Nat)
    OBVIOUS
  <2>3. NoFunction \in [name : Strings, args : ArgsKinds]
    BY StringsAssumption DEF NoFunction, ArgsKinds
  <2>4. Call(<<>>, r.name, r.tool, NoFunction, r.args) \in CallEnvelopes
    BY <2>1, <2>2, <2>3, StringsAssumption DEF Call, CallEnvelopes, ArgsKinds
  <2>5. \A c \in CallEnvelopes : <<c>> \in Seq(CallEnvelopes)
    OBVIOUS
  <2>6. QED
    BY <2>1, <2>4, <2>5 DEF CallsIn
<1>2. ASSUME NEW i \in DOMAIN CallsIn(r)
      PROVE  /\ CallsIn(r)[i].id \in Seq(Nat) /\ NameOf(CallsIn(r)[i]) \in Strings
             /\ normalizeArguments(RawArgs(CallsIn(r)[i])) \in {"{}", "object"}
  <2>1. CallsIn(r)[i] \in CallEnvelopes
    BY <1>1, <1>2
  <2>2. QED
    BY <2>1 DEF CallEnvelopes, NameOf, FirstOf, normalizeArguments
<1>3. normalizeToolCalls(r) \in Seq(ToolCalls)
  <2> DEFINE Parsed(i) == [id   |-> CallsIn(r)[i].id, name |-> NameOf(CallsIn(r)[i]),
                           args |-> normalizeArguments(RawArgs(CallsIn(r)[i]))]
  <2>1. \A i \in DOMAIN CallsIn(r) : Parsed(i) \in ToolCalls
    BY <1>2 DEF ToolCalls
  <2>2. normalizeToolCalls(r) = [i \in DOMAIN CallsIn(r) |-> Parsed(i)]
    BY DEF normalizeToolCalls
  <2>3. PICK n \in Nat : DOMAIN CallsIn(r) = 1..n
    BY <1>1
  <2> HIDE DEF Parsed
  <2>4. QED
    BY <2>1, <2>2, <2>3
<1>4. QED
  BY <1>3 DEF parseEnvelope

\* What the parser makes of an output in the grammar: a kind of envelope that
\* the root rule has, and calls without ids.
LEMMA AllowedParses ==
    ASSUME NEW r \in Outputs, NEW names, NEW kinds, kinds \subseteq {"final", "tool_call"},
           Allowed(r, names, kinds), parseEnvelope(r).type # "error"
    PROVE  /\ parseEnvelope(r).type \in kinds
           /\ \A i \in DOMAIN parseEnvelope(r).calls : parseEnvelope(r).calls[i].id = <<>>
<1>1. r.ok
  BY DEF parseEnvelope
<1>2. r.type \in kinds /\ ~Named(r)
  BY <1>1 DEF Allowed
<1>3. TypeOf(r) = r.type
  BY <1>2 DEF TypeOf, FirstOf
<1>4. CallsIn(r) = r.calls
  BY <1>2 DEF CallsIn
<1>5. parseEnvelope(r).type = r.type
  BY <1>3 DEF parseEnvelope
<1>6. CASE r.type = "final"
  <2>1. parseEnvelope(r).calls = <<>>
    BY <1>6, <1>3 DEF parseEnvelope
  <2>2. QED
    BY <2>1, <1>2, <1>5
<1>7. CASE r.type = "tool_call"
  <2>1. parseEnvelope(r).calls \in {normalizeToolCalls(r), <<>>}
    BY <1>7, <1>3 DEF parseEnvelope
  <2>2. \A i \in DOMAIN r.calls : Item(r.calls[i], names)
    BY <1>1, <1>7 DEF Allowed
  <2>3. \A call, known : Item(call, known) => call.id = <<>>
    <3> SUFFICES ASSUME NEW call, NEW known, Item(call, known) PROVE call.id = <<>>
      OBVIOUS
    <3>1. call = Call(<<>>, call.name, "", NoFunction, "object")
      BY DEF Item
    <3>2. ASSUME NEW n, call = Call(<<>>, n, "", NoFunction, "object") PROVE call.id = <<>>
      BY <3>2 DEF Call
    <3>3. QED
      BY <3>1, <3>2, Zenon
  <2>4. \A i \in DOMAIN normalizeToolCalls(r) : normalizeToolCalls(r)[i].id = <<>>
    BY <2>2, <2>3, <1>4 DEF normalizeToolCalls
  <2>5. QED
    BY <2>1, <2>4, <1>2, <1>5
<1>8. QED
  BY <1>2, <1>6, <1>7

\* A turn's grammar has no other kinds, and no answer before the first result
\* when a tool is required.
LEMMA KindsOfTurn ==
    ASSUME NEW n \in Nat
    PROVE  /\ KindsAfter(n) \subseteq {"final", "tool_call"}
           /\ choice = "required" /\ "final" \in KindsAfter(n) => n > 0
BY DEF KindsAfter, Kinds

---------------------------------------------------------------------------
\* Sequences of results and the calls in them.

\* The calls of two sequences of results, one after the other.
LEMMA CallsOfConcat ==
    ASSUME NEW a \in Seq(Results), NEW b \in Seq(Results)
    PROVE  /\ Calls(a) \in Seq(ToolCalls)
           /\ Calls(a \o b) = Calls(a) \o Calls(b)
<1>1. \A s \in Seq(Results) : Calls(s) \in Seq(ToolCalls)
  <2> SUFFICES ASSUME NEW s \in Seq(Results) PROVE Calls(s) \in Seq(ToolCalls)
    OBVIOUS
  <2>1. \A x \in Results : x.call \in ToolCalls
    BY DEF Results
  <2>2. \A i \in 1..Len(s) : s[i] \in Results
    OBVIOUS
  <2>3. QED
    BY <2>1, <2>2, SMTT(40) DEF Calls
<1>2. Calls(a \o b) = Calls(a) \o Calls(b)
  <2> DEFINE ab == a \o b
  <2>1. /\ ab \in Seq(Results) /\ Len(ab) = Len(a) + Len(b)
        /\ \A i \in 1..Len(ab) : ab[i] = IF i <= Len(a) THEN a[i] ELSE b[i - Len(a)]
    OBVIOUS
  <2> HIDE DEF ab
  <2>2. \A s \in Seq(Results) : Len(Calls(s)) = Len(s) /\ \A i \in 1..Len(s) : Calls(s)[i] = s[i].call
    BY DEF Calls
  <2>3. Calls(a) \in Seq(ToolCalls) /\ Calls(b) \in Seq(ToolCalls) /\ Calls(ab) \in Seq(ToolCalls)
    BY <1>1, <2>1
  <2>4. Len(Calls(ab)) = Len(Calls(a) \o Calls(b))
    BY <2>1, <2>2, <2>3
  <2>5. ASSUME NEW i \in 1..Len(Calls(ab)) PROVE Calls(ab)[i] = (Calls(a) \o Calls(b))[i]
    <3>1. i \in 1..Len(ab) /\ Calls(ab)[i] = ab[i].call
      BY <2>1, <2>2
    <3>2. Len(Calls(a)) = Len(a) /\ Len(Calls(b)) = Len(b)
      BY <2>2
    <3>3. (Calls(a) \o Calls(b))[i] = IF i <= Len(a) THEN Calls(a)[i] ELSE Calls(b)[i - Len(a)]
      BY <2>1, <2>3, <3>1, <3>2
    <3>4. CASE i <= Len(a)
      BY <2>1, <2>2, <3>1, <3>3, <3>4
    <3>5. CASE i > Len(a)
      <4>1. i - Len(a) \in 1..Len(b)
        BY <2>1, <3>1, <3>5
      <4>2. QED
        <5>1. Calls(ab)[i] = ab[i].call /\ ab[i] = b[i - Len(a)]
          BY <2>1, <3>1, <3>5
        <5>2. Calls(b)[i - Len(a)] = b[i - Len(a)].call
          BY <2>2, <4>1
        <5>3. (Calls(a) \o Calls(b))[i] = Calls(b)[i - Len(a)]
          BY <2>1, <3>1, <3>3, <3>5
        <5>4. QED
          BY <5>1, <5>2, <5>3, Zenon
    <3>6. i <= Len(a) \/ i > Len(a)
      <4>1. i \in Int /\ Len(a) \in Int /\ Len(ab) \in Int
        BY <2>1, <3>1
      <4>2. QED
        BY <4>1
    <3>7. QED
      BY <3>4, <3>5, <3>6, Zenon
  <2>6. Calls(ab) = Calls(a) \o Calls(b)
    <3>1. Calls(a) \o Calls(b) \in Seq(ToolCalls)
      BY <2>3
    <3>2. QED
      BY <2>3, <2>4, <2>5, <3>1, SeqEqual
  <2>7. QED
    BY <2>6 DEF ab
<1>3. QED
  BY <1>1, <1>2

\* The calls of a sequence of results and one more.
LEMMA CallsOfAppend ==
    ASSUME NEW a \in Seq(Results), NEW b \in Seq(Results), NEW x \in Results
    PROVE  Calls(a \o Append(b, x)) = Append(Calls(a \o b), x.call)
<1>1. a \o Append(b, x) = Append(a \o b, x)
  OBVIOUS
<1>2. a \o b \in Seq(Results)
  OBVIOUS
<1>3. \A s \in Seq(Results) : Calls(Append(s, x)) = Append(Calls(s), x.call)
  BY DEF Calls, Results
<1>4. QED
  BY <1>1, <1>2, <1>3

---------------------------------------------------------------------------
\* The types, with where the counters stand in each phase and no error before
\* the return.
TypeInv ==
    /\ TypeOK
    /\ pc \in {"prepare", "turn", "template", "predict"} =>
         results = <<>> /\ resp.turns = turn /\ Len(resp.rawOutputs) = turn
    /\ pc \in {"call", "run"} =>
         turn < maxTurns /\ resp.turns = turn + 1 /\ Len(resp.rawOutputs) = turn + 1
    /\ pc = "run" => ~BatchDone
    /\ pc # "done" => err = ""

Parts == Output \cup {Broken} \cup Results \cup Text
Responses(n) == [messages : Seq(Messages), toolCalls : Seq(ToolCalls), toolResults : Seq(Results),
                 turns : {n, n + 1}, rawOutputs : Seq(Output \cup {Broken})]

\* The call at hand is one of the batch, under its own id or a made-up one.
LEMMA CurrentType ==
    ASSUME calls \in Seq(ToolCalls), results \in Seq(Results), Len(results) <= Len(calls),
           turn \in Nat, ~BatchDone
    PROVE  Current \in ToolCalls
<1> DEFINE i == Len(results) + 1
<1>1. i \in 1..Len(calls)
  BY DEF BatchDone
<1>2. calls[i] \in ToolCalls
  BY <1>1
<1>3. i \in Nat /\ MadeUpId(i) \in Seq(Nat)
  BY <1>1 DEF MadeUpId
<1>4. \A c \in ToolCalls : [c EXCEPT !.id = IF @ = <<>> THEN MadeUpId(i) ELSE @] \in ToolCalls
  BY <1>3 DEF ToolCalls
<1>5. Current = [calls[i] EXCEPT !.id = IF @ = <<>> THEN MadeUpId(i) ELSE @]
  BY DEF Current
<1> HIDE DEF i
<1>6. QED
  BY <1>2, <1>4, <1>5

\* One message is a sequence of messages.
LEMMA OneMessage ==
    ASSUME NEW role \in Strings, NEW body \in Seq(Parts)
    PROVE  Message(role, body) \in Messages
BY DEF Message, Messages, Parts

\* MaxTurns is positive once defaulted.
LEMMA MaxTurnsPositive == ASSUME config \in Configs PROVE maxTurns \in Nat \ {0}
<1>1. config.maxTurns \in Int
  BY RunnerAssumption
<1>2. QED
  BY <1>1 DEF maxTurns, defaultMaxTurns

\* One more output in a response.
LEMMA OneMoreOutput ==
    ASSUME NEW n \in Nat, NEW r \in Responses(n), NEW raw \in Output \cup {Broken}
    PROVE  /\ Append(r.rawOutputs, raw) \in Seq(Output \cup {Broken})
           /\ Len(Append(r.rawOutputs, raw)) = Len(r.rawOutputs) + 1 /\ Len(r.rawOutputs) \in Nat
<1>1. r.rawOutputs \in Seq(Output \cup {Broken})
  BY DEF Responses
<1>2. QED
  BY <1>1

\* Types at the start.
LEMMA TypeInit == Init => TypeInv
<1> SUFFICES ASSUME Init PROVE TypeInv
  OBVIOUS
<1>1. config \in Configs /\ maxTurns \in Nat
  BY MaxTurnsPositive DEF Init
<1>2. NoResponse \in Responses(0) /\ NoResponse.rawOutputs = <<>> /\ NoResponse.turns = 0
  BY DEF NoResponse, Responses
<1>3. Len(NoResponse.rawOutputs) = 0
  BY <1>2
<1>4. /\ pc = "prepare" /\ turn = 0 /\ canceled = FALSE /\ history = <<>> /\ calls = <<>>
      /\ results = <<>> /\ resp = NoResponse /\ err = "" /\ late = 0
  BY DEF Init
<1>5. turn \in 0..maxTurns /\ Len(results) <= Len(calls)
  <2>1. 0 \in 0..maxTurns
    BY <1>1
  <2>2. Len(<<>>) <= Len(<<>>)
    OBVIOUS
  <2>3. QED
    BY <1>4, <2>1, <2>2, Zenon
<1>6. history \in Seq(Messages) /\ calls \in Seq(ToolCalls) /\ results \in Seq(Results)
  <2>1. <<>> \in Seq(Messages) /\ <<>> \in Seq(ToolCalls) /\ <<>> \in Seq(Results)
    OBVIOUS
  <2>2. QED
    BY <1>4, <2>1, Zenon
<1>7. resp \in Responses(turn) /\ resp.turns = 0 /\ Len(resp.rawOutputs) = 0
  BY <1>2, <1>3, <1>4
<1>8. QED
  BY <1>1, <1>4, <1>5, <1>6, <1>7 DEF TypeInv, TypeOK, Responses

\* The count stays a number.
LEMMA BeginsNat == late \in Nat /\ Begins => late' \in Nat
BY DEF Begins

\* Types are kept.
LEMMA TypeStep == TypeInv /\ [Next]_vars => TypeInv'
<1> SUFFICES ASSUME TypeInv, [Next]_vars PROVE TypeInv'
  OBVIOUS
<1>1. /\ config \in Configs /\ canceled \in BOOLEAN /\ turn \in Nat /\ turn <= maxTurns
      /\ history \in Seq(Messages) /\ calls \in Seq(ToolCalls) /\ results \in Seq(Results)
      /\ resp \in Responses(turn) /\ Len(resp.rawOutputs) \in {resp.turns, resp.turns + 1}
      /\ maxTurns \in Nat /\ late \in Nat
  <2>1. config \in Configs /\ maxTurns \in Nat
    BY MaxTurnsPositive DEF TypeInv, TypeOK
  <2>2. turn \in Nat /\ turn <= maxTurns
    <3>1. turn \in 0..maxTurns
      BY Zenon DEF TypeInv, TypeOK
    <3>2. QED
      BY <2>1, <3>1
  <2>3. resp \in Responses(turn)
    BY Zenon DEF TypeInv, TypeOK, Responses
  <2>4. QED
    BY <2>1, <2>2, <2>3 DEF TypeInv, TypeOK
<1>2. ASSUME config' = config PROVE maxTurns' = maxTurns
  BY <1>2 DEF maxTurns
<1>3. CASE Prepare
  <2>1. CASE Prepared
    <3>1. config.messages \in Seq(Messages)
      BY <1>1, RunnerAssumption
    <3>2. /\ resp' \in Responses(turn) /\ resp'.turns = resp.turns
          /\ resp'.rawOutputs = resp.rawOutputs
      BY <1>1, <1>3, <2>1, <3>1 DEF Prepare, Responses
    <3>3. QED
      BY <1>1, <1>2, <1>3, <2>1, <3>1, <3>2 DEF Prepare, TypeInv, TypeOK, Responses
  <2>2. CASE ~Prepared
    BY <1>1, <1>2, <1>3, <2>2 DEF Prepare, Return, TypeInv, TypeOK
  <2>3. QED
    BY <2>1, <2>2
<1>4. CASE Cancel
  BY <1>2, <1>4 DEF Cancel, TypeInv, TypeOK, BatchDone
<1>5. CASE BeginTurn
  <2>1. /\ pc = "turn" /\ UNCHANGED <<config, turn, canceled, history, calls, results, resp, late>>
        /\ \/ pc' = "done"
           \/ pc' = "template" /\ turn < maxTurns /\ err' = err
    <3>1. ~TurnsSpent => turn < maxTurns
      BY <1>1 DEF TurnsSpent
    <3>2. QED
      BY <1>5, <3>1 DEF BeginTurn, Return
  <2>2. QED
    BY <1>1, <1>2, <2>1 DEF TypeInv, TypeOK
<1>50. CASE ApplyTemplate
  <2>1. /\ pc = "template" /\ UNCHANGED <<config, turn, canceled, history, calls, results, resp>>
        /\ pc' = "done" \/ (pc' = "predict" /\ err' = err)
        /\ late' \in Nat
    BY <1>1, <1>50, BeginsNat, Zenon DEF ApplyTemplate, Return
  <2>2. QED
    BY <1>1, <1>2, <2>1 DEF TypeInv, TypeOK
<1>6. CASE PredictFails
  <2>1. /\ resp' \in Responses(turn) /\ resp'.turns = resp.turns
        /\ resp'.rawOutputs = Append(resp.rawOutputs, Broken)
    BY <1>1, <1>6, OneMoreOutput DEF PredictFails, Responses
  <2>2. Len(resp'.rawOutputs) = turn + 1 /\ resp.turns = turn
    BY <1>1, <1>6, <2>1, OneMoreOutput DEF PredictFails, TypeInv
  <2>3. QED
    BY <1>1, <1>2, <1>6, <2>1, <2>2 DEF PredictFails, Return, TypeInv, TypeOK, Responses
<1>7. CASE Predict
  <2>1. PICK raw \in Answers : Final(raw) \/ StartCalls(raw) \/ Refuse(raw)
    BY <1>7 DEF Predict
  <2>2. raw \in Output /\ raw \in Outputs
    BY <2>1, RunnerAssumption DEF Answers
  <2>3. /\ WithAnswer(raw) \in Responses(turn) /\ WithAnswer(raw).turns = turn + 1
        /\ WithAnswer(raw).rawOutputs = Append(resp.rawOutputs, raw)
    BY <1>1, <2>2, OneMoreOutput DEF WithAnswer, Responses
  <2>4. Len(WithAnswer(raw).rawOutputs) = turn + 1 /\ turn < maxTurns
    BY <1>1, <1>7, <2>2, <2>3, OneMoreOutput DEF Predict, TypeInv, TypeOK
  <2>5. CASE Final(raw)
    <3>1. Append(history, Message("assistant", <<raw>>)) \in Seq(Messages)
      <4>1. <<raw>> \in Seq(Parts)
        BY <2>2 DEF Parts
      <4>2. Message("assistant", <<raw>>) \in Messages
        BY <4>1, OneMessage, StringsAssumption
      <4>3. QED
        BY <1>1, <4>2
    <3>2. /\ resp' \in Responses(turn) /\ resp'.turns = turn + 1
          /\ resp'.rawOutputs = WithAnswer(raw).rawOutputs
      BY <2>3, <2>5, <3>1 DEF Final, Responses
    <3>3. QED
      BY <1>1, <1>2, <1>7, <2>4, <2>5, <3>2 DEF Predict, Final, Return, TypeInv, TypeOK, Responses
  <2>6. CASE StartCalls(raw)
    <3>1. calls' \in Seq(ToolCalls)
      BY <2>2, <2>6, ParsedCalls DEF StartCalls
    <3>2. Len(results') <= Len(calls') /\ results' \in Seq(Results)
      BY <2>6, <3>1 DEF StartCalls
    <3>3. QED
      BY <1>1, <1>2, <1>7, <2>3, <2>4, <2>6, <3>1, <3>2
         DEF Predict, StartCalls, TypeInv, TypeOK, Responses
  <2>7. CASE Refuse(raw)
    BY <1>1, <1>2, <1>7, <2>3, <2>4, <2>7 DEF Predict, Refuse, Return, TypeInv, TypeOK, Responses
  <2>8. QED
    BY <2>1, <2>5, <2>6, <2>7
<1>8. CASE SkipCall
  BY <1>1, <1>2, <1>8 DEF SkipCall, Return, TypeInv, TypeOK
<1>80. CASE EnterCall
  <2>1. /\ pc = "call" /\ pc' = "run" /\ ~BatchDone
        /\ UNCHANGED <<config, turn, canceled, history, calls, results, resp, err, late>>
    BY <1>80 DEF EnterCall
  <2>2. QED
    BY <1>1, <1>2, <2>1 DEF TypeInv, TypeOK, BatchDone
<1>9. CASE RunCall
  <2>1. /\ results' \in Seq(Results) /\ Len(results') <= Len(calls)
    <3>1. Current \in ToolCalls
      BY <1>1, <1>9, CurrentType DEF RunCall, TypeInv, TypeOK
    <3>2. \A failed \in BOOLEAN : [call |-> Current, failed |-> failed] \in Results
      BY <3>1 DEF Results
    <3>3. Len(results) \in Nat /\ Len(calls) \in Nat /\ Len(results) < Len(calls)
      <4>1. Len(results) \in Nat /\ Len(calls) \in Nat
        BY <1>1
      <4>2. Len(results) <= Len(calls) /\ Len(results) # Len(calls)
        BY <1>9 DEF RunCall, BatchDone, TypeInv, TypeOK
      <4>3. QED
        BY <4>1, <4>2
    <3>4. \A x \in Results : Append(results, x) \in Seq(Results) /\ Len(Append(results, x)) = Len(results) + 1
      BY <1>1
    <3>5. CASE results' = results
      BY <1>1, <3>3, <3>5
    <3>6. ASSUME NEW failed \in BOOLEAN, results' = Append(results, [call |-> Current, failed |-> failed])
          PROVE  results' \in Seq(Results) /\ Len(results') <= Len(calls)
      BY <3>2, <3>3, <3>4, <3>6
    <3>7. results' = results \/ \E failed \in BOOLEAN :
                                   results' = Append(results, [call |-> Current, failed |-> failed])
      BY <1>9, Zenon DEF RunCall, WithResult
    <3>8. QED
      BY <3>5, <3>6, <3>7, Zenon
  <2>2. /\ pc = "run" /\ UNCHANGED <<config, turn, canceled, history, prompt, calls, resp>>
        /\ (pc' = "call" /\ err' = err) \/ pc' = "done"
        /\ late' \in Nat
    BY <1>1, <1>9, BeginsNat, Zenon DEF RunCall, Return
  <2>3. QED
    BY <1>1, <1>2, <2>1, <2>2 DEF TypeInv, TypeOK
<1>10. CASE EndTurn
  <2>1. turn < maxTurns /\ resp.turns = turn + 1 /\ Len(resp.rawOutputs) = turn + 1
    BY <1>10 DEF EndTurn, TypeInv
  <2>2. resp.rawOutputs[turn + 1] \in Output \cup {Broken}
    BY <1>1, <2>1 DEF Responses
  <2>3. history' \in Seq(Messages)
    <3>1. <<resp.rawOutputs[turn + 1]>> \in Seq(Parts)
      BY <2>2 DEF Parts
    <3>2. results \in Seq(Parts)
      BY <1>1 DEF Parts
    <3>3. /\ Message("assistant", <<resp.rawOutputs[turn + 1]>>) \in Messages
          /\ Message("user", results) \in Messages
      BY <3>1, <3>2, OneMessage, StringsAssumption
    <3>4. QED
      BY <1>1, <1>10, <3>3 DEF EndTurn, formatToolResults
  <2>4. /\ resp.toolCalls \o Calls(results) \in Seq(ToolCalls)
        /\ resp.toolResults \o results \in Seq(Results)
    BY <1>1, CallsOfConcat DEF Responses
  <2>5. /\ resp' \in Responses(turn') /\ resp'.turns = turn'
        /\ resp'.rawOutputs = resp.rawOutputs /\ turn' = turn + 1
    BY <1>1, <1>10, <2>1, <2>3, <2>4 DEF EndTurn, Responses, Calls
  <2>6. /\ config' = config /\ canceled' = canceled /\ pc' = "turn" /\ err' = err
        /\ calls' = <<>> /\ results' = <<>> /\ pc = "call" /\ late' = late
    BY <1>10 DEF EndTurn
  <2>7. calls' \in Seq(ToolCalls) /\ results' \in Seq(Results) /\ Len(results') <= Len(calls')
    <3>1. <<>> \in Seq(ToolCalls) /\ <<>> \in Seq(Results) /\ Len(<<>>) <= Len(<<>>)
      OBVIOUS
    <3>2. QED
      BY <2>6, <3>1, Zenon
  <2>8. turn' \in 0..maxTurns' /\ Len(resp'.rawOutputs) = turn'
    BY <1>1, <1>2, <2>1, <2>5, <2>6
  <2>9. QED
    BY <1>1, <2>3, <2>5, <2>6, <2>7, <2>8 DEF TypeInv, TypeOK, Responses
<1>11. CASE UNCHANGED vars
  BY <1>2, <1>11 DEF vars, TypeInv, TypeOK, BatchDone
<1>12. QED
  BY <1>3, <1>4, <1>5, <1>50, <1>6, <1>7, <1>8, <1>80, <1>9, <1>10, <1>11 DEF Next, Step

\* A conversation is well typed; it takes at most maxTurns turns, and there is
\* an output for each turn and one more if the prediction failed.
THEOREM Types == Spec => []TypeOK
<1>1. TypeInv => TypeOK
  BY DEF TypeInv
<1>2. QED
  BY <1>1, TypeInit, TypeStep, PTL DEF Spec

---------------------------------------------------------------------------
\* While Generate runs, every tool that ran is a result already.
AccountInv == Accounted /\ (pc # "done" => ran = Calls(resp.toolResults \o results))

\* Nothing has run at the start.
LEMMA AccountInit == Init => AccountInv
<1> SUFFICES ASSUME Init PROVE AccountInv
  OBVIOUS
<1>1. resp.toolCalls = <<>> /\ resp.toolResults = <<>> /\ results = <<>> /\ ran = <<>>
  BY DEF Init, NoResponse
<1>2. <<>> \o <<>> = <<>> /\ Calls(<<>>) = <<>>
  BY DEF Calls
<1>3. QED
  BY <1>1, <1>2, Zenon DEF AccountInv, Accounted

\* Runs and results stay together.
LEMMA AccountStep == TypeInv /\ AccountInv /\ [Next]_vars => AccountInv'
<1> SUFFICES ASSUME TypeInv, AccountInv, [Next]_vars PROVE AccountInv'
  OBVIOUS
<1> DEFINE known == Calls(resp.toolResults \o results)
<1>1. /\ results \in Seq(Results) /\ resp.toolResults \in Seq(Results)
      /\ resp.toolCalls = Calls(resp.toolResults)
      /\ pc # "done" => ran = known
  <2>1. results \in Seq(Results)
    BY Zenon DEF TypeInv, TypeOK
  <2>2. resp \in Responses(turn)
    BY Zenon DEF TypeInv, TypeOK, Responses
  <2>3. QED
    BY <2>1, <2>2 DEF Responses, AccountInv, Accounted
\* Every step but RunCall and EndTurn leaves the account alone.
<1>2. ASSUME UNCHANGED <<ran, results>>, resp'.toolResults = resp.toolResults,
             resp'.toolCalls = resp.toolCalls, pc # "done"
      PROVE  AccountInv'
  BY <1>1, <1>2, Zenon DEF AccountInv, Accounted
<1>3. resp \in Responses(turn)
  BY Zenon DEF TypeInv, TypeOK, Responses
<1>4. CASE Prepare
  BY <1>2, <1>3, <1>4 DEF Prepare, Responses
<1>5. CASE Cancel
  BY <1>2, <1>5 DEF Cancel
<1>6. CASE BeginTurn
  BY <1>2, <1>6 DEF BeginTurn
<1>60. CASE ApplyTemplate
  BY <1>2, <1>60 DEF ApplyTemplate
<1>7. CASE PredictFails
  BY <1>2, <1>3, <1>7 DEF PredictFails, Responses
<1>8. CASE Predict
  <2>1. PICK raw \in Answers : Final(raw) \/ StartCalls(raw) \/ Refuse(raw)
    BY <1>8 DEF Predict
  <2>2. resp'.toolResults = resp.toolResults /\ resp'.toolCalls = resp.toolCalls
    BY <1>3, <2>1 DEF Final, StartCalls, Refuse, WithAnswer, Responses
  <2>3. results = <<>> /\ pc = "predict" /\ ran' = ran
    BY <1>8 DEF Predict, TypeInv
  <2>4. results' = results
    BY <2>1, <2>3 DEF Final, StartCalls, Refuse
  <2>5. QED
    BY <1>2, <2>2, <2>3, <2>4
<1>9. CASE SkipCall
  BY <1>2, <1>9 DEF SkipCall
<1>90. CASE EnterCall
  BY <1>2, <1>90 DEF EnterCall
<1>10. CASE RunCall
  <2>1. /\ ran' = Append(known, Current) /\ resp' = resp
    BY <1>1, <1>10, Zenon DEF RunCall
  <2>2. Current \in ToolCalls
    <3>1. calls \in Seq(ToolCalls) /\ Len(results) <= Len(calls) /\ turn \in 0..maxTurns
          /\ config \in Configs
      BY Zenon DEF TypeInv, TypeOK
    <3>2. turn \in Nat
      BY <3>1, MaxTurnsPositive
    <3>3. ~BatchDone
      BY <1>10 DEF RunCall, TypeInv
    <3>4. QED
      BY <1>1, <3>1, <3>2, <3>3, CurrentType
  <2>3. CASE \E failed \in BOOLEAN : results' = Append(results, [call |-> Current, failed |-> failed])
    <3>1. PICK failed \in BOOLEAN : results' = Append(results, [call |-> Current, failed |-> failed])
      BY <2>3
    <3>2. [call |-> Current, failed |-> failed] \in Results
      BY <2>2 DEF Results
    <3>3. Calls(resp.toolResults \o results') = Append(known, Current)
      BY <1>1, <3>1, <3>2, CallsOfAppend
    <3>4. QED
      BY <1>1, <2>1, <3>3, Zenon DEF AccountInv, Accounted
  <2>4. CASE results' = results /\ pc' = "done" /\ err' # ""
    <3>1. Current \in {ran'[i] : i \in DOMAIN ran'}
      <4>1. known \in Seq(ToolCalls)
        <5>1. \A s \in Seq(Results) : Calls(s) \in Seq(ToolCalls)
          BY CallsOfConcat
        <5>2. resp.toolResults \o results \in Seq(Results)
          BY <1>1
        <5>3. QED
          BY <5>1, <5>2
      <4>2. ran'[Len(known) + 1] = Current /\ Len(known) + 1 \in DOMAIN ran'
        BY <2>1, <2>2, <4>1
      <4>3. QED
        BY <4>2
    <3>2. QED
      BY <1>1, <2>1, <2>4, <3>1, Zenon DEF AccountInv, Accounted
  <2>5. QED
    BY <1>10, <2>3, <2>4 DEF RunCall, WithResult, Return
<1>11. CASE EndTurn
  <2>1. /\ resp'.toolResults = resp.toolResults \o results
        /\ resp'.toolCalls = resp.toolCalls \o Calls(results)
    BY <1>3, <1>11 DEF EndTurn, Responses, Calls
  <2>2. results' = <<>> /\ ran' = known /\ pc' = "turn"
    BY <1>1, <1>11 DEF EndTurn
  <2>3. /\ resp'.toolResults \in Seq(Results)
        /\ resp'.toolCalls = Calls(resp'.toolResults)
    <3>1. resp.toolResults \o results \in Seq(Results)
      BY <1>1
    <3>2. Calls(resp.toolResults \o results) = Calls(resp.toolResults) \o Calls(results)
      BY <1>1, CallsOfConcat
    <3>3. QED
      BY <1>1, <2>1, <3>1, <3>2, Zenon
  <2>4. resp'.toolResults \o <<>> = resp'.toolResults
    BY <2>3
  <2>5. QED
    BY <2>1, <2>2, <2>3, <2>4, Zenon DEF AccountInv, Accounted
<1>12. CASE UNCHANGED vars
  BY <1>12, Zenon DEF vars, AccountInv, Accounted
<1>13. QED
  BY <1>4, <1>5, <1>6, <1>60, <1>7, <1>8, <1>9, <1>90, <1>10, <1>11, <1>12 DEF Next, Step

\* Every run of a tool is in the response, once and in order, but for those of
\* the batch that failed.
THEOREM RunsAreAccounted == Spec => []Accounted
<1>1. AccountInv => Accounted
  BY DEF AccountInv
<1>2. QED
  BY <1>1, TypeInit, TypeStep, AccountInit, AccountStep, PTL DEF Spec

---------------------------------------------------------------------------
\* A runner that requires a tool and uses the grammar returns no answer before
\* a tool has run.
THEOREM RequiredIsCalled == Spec => []RequiredMeansCalled
<1>1. Init => RequiredMeansCalled
  BY DEF Init, RequiredMeansCalled
<1>2. TypeInv /\ RequiredMeansCalled /\ [Next]_vars => RequiredMeansCalled'
  <2> SUFFICES ASSUME TypeInv, RequiredMeansCalled, [Next]_vars PROVE RequiredMeansCalled'
    OBVIOUS
  <2>1. CASE Predict
    <3>1. PICK raw \in Answers : Final(raw) \/ StartCalls(raw) \/ Refuse(raw)
      BY <2>1 DEF Predict
    <3>2. CASE Final(raw)
      <4> SUFFICES ASSUME choice = "required", ~config.disableGrammar PROVE resp'.toolResults # <<>>
        BY <2>1 DEF Predict, RequiredMeansCalled, choice
      <4>1. resp \in Responses(turn)
        BY Zenon DEF TypeInv, TypeOK, Responses
      <4>2. Len(resp.toolResults) \in Nat
        BY <4>1 DEF Responses
      <4>3. raw \in Outputs /\ Allowed(raw, Tools, KindsAfter(Len(resp.toolResults)))
        BY <3>1, RunnerAssumption DEF Answers
      <4>4. "final" \in KindsAfter(Len(resp.toolResults))
        BY <3>2, <4>2, <4>3, KindsOfTurn, AllowedParses DEF Final
      <4>5. Len(resp.toolResults) > 0
        BY <4>2, <4>4, KindsOfTurn
      <4>6. resp'.toolResults = resp.toolResults
        BY <3>2, <4>1 DEF Final, WithAnswer, Responses
      <4>7. QED
        BY <4>5, <4>6
    <3>3. CASE StartCalls(raw)
      BY <3>3 DEF StartCalls, RequiredMeansCalled
    <3>4. CASE Refuse(raw)
      BY <3>4 DEF Refuse, Return, RequiredMeansCalled
    <3>5. QED
      BY <3>1, <3>2, <3>3, <3>4
  <2>2. CASE Prepare
    BY <2>2 DEF Prepare, Return, RequiredMeansCalled
  <2>3. CASE Cancel
    BY <2>3 DEF Cancel, RequiredMeansCalled
  <2>4. CASE BeginTurn
    BY <2>4 DEF BeginTurn, Return, RequiredMeansCalled
  <2>40. CASE ApplyTemplate
    BY <2>40 DEF ApplyTemplate, Return, RequiredMeansCalled
  <2>5. CASE PredictFails
    BY <2>5 DEF PredictFails, Return, RequiredMeansCalled
  <2>6. CASE SkipCall
    BY <2>6 DEF SkipCall, Return, RequiredMeansCalled
  <2>60. CASE EnterCall
    BY <2>60 DEF EnterCall, RequiredMeansCalled
  <2>7. CASE RunCall
    BY <2>7 DEF RunCall, Return, RequiredMeansCalled
  <2>8. CASE EndTurn
    BY <2>8 DEF EndTurn, RequiredMeansCalled
  <2>9. CASE UNCHANGED vars
    BY <2>9 DEF vars, RequiredMeansCalled, choice
  <2>10. QED
    BY <2>1, <2>2, <2>3, <2>4, <2>40, <2>5, <2>6, <2>60, <2>7, <2>8, <2>9 DEF Next, Step
<1>3. QED
  BY <1>1, <1>2, TypeInit, TypeStep, PTL DEF Spec

---------------------------------------------------------------------------
\* The ids of rs were made up in the first n turns, and differ.
Distinct(rs) == \A i, j \in DOMAIN rs : rs[i].call.id = rs[j].call.id => i = j
MadeUpBy(rs, n) == \A i \in DOMAIN rs : \E t \in 1..n, k \in Nat : rs[i].call.id = <<t, k>>
MadeUpIn(rs, n) == \A i \in DOMAIN rs : rs[i].call.id = <<n, i>>

\* Ids of earlier turns and ids of this turn are different, so the two parts joined have no id twice.
LEMMA DistinctConcat ==
    ASSUME NEW a \in Seq(Results), NEW b \in Seq(Results), NEW n \in Nat,
           Distinct(a), MadeUpBy(a, n), MadeUpIn(b, n + 1)
    PROVE  Distinct(a \o b) /\ MadeUpBy(a \o b, n + 1)
<1> DEFINE ab == a \o b
<1>1. /\ DOMAIN ab = 1..Len(a) + Len(b) /\ Len(a) \in Nat /\ Len(b) \in Nat
      /\ DOMAIN a = 1..Len(a) /\ DOMAIN b = 1..Len(b)
      /\ \A i \in DOMAIN ab : ab[i] = IF i <= Len(a) THEN a[i] ELSE b[i - Len(a)]
  OBVIOUS
<1> HIDE DEF ab
<1>2. ASSUME NEW i \in DOMAIN ab, i <= Len(a)
      PROVE  i \in DOMAIN a /\ \E t \in 1..n, k \in Nat : ab[i].call.id = <<t, k>>
  <2>1. i \in DOMAIN a /\ ab[i] = a[i]
    BY <1>1, <1>2
  <2>2. QED
    BY <2>1 DEF MadeUpBy
<1>3. ASSUME NEW i \in DOMAIN ab, i > Len(a)
      PROVE  i - Len(a) \in DOMAIN b /\ ab[i].call.id = <<n + 1, i - Len(a)>>
  <2>1. i - Len(a) \in DOMAIN b /\ ab[i] = b[i - Len(a)]
    BY <1>1, <1>3
  <2>2. QED
    BY <2>1 DEF MadeUpIn
<1>4. Distinct(ab)
  <2> SUFFICES ASSUME NEW i \in DOMAIN ab, NEW j \in DOMAIN ab, ab[i].call.id = ab[j].call.id PROVE i = j
    BY DEF Distinct
  <2>0. i \in Int /\ j \in Int
    BY <1>1
  <2>1. CASE i <= Len(a) /\ j <= Len(a)
    BY <1>1, <1>2, <2>1 DEF Distinct
  <2>2. CASE i > Len(a) /\ j > Len(a)
    <3>1. <<n + 1, i - Len(a)>> = <<n + 1, j - Len(a)>>
      BY <1>3, <2>2
    <3>2. QED
      BY <1>1, <2>0, <3>1
  <2>3. CASE i <= Len(a) /\ j > Len(a)
    <3>1. PICK t \in 1..n, k \in Nat : ab[i].call.id = <<t, k>>
      BY <1>2, <2>3
    <3>2. <<t, k>> = <<n + 1, j - Len(a)>>
      BY <1>3, <2>3, <3>1
    <3>3. QED
      BY <3>2
  <2>4. CASE j <= Len(a) /\ i > Len(a)
    <3>1. PICK t \in 1..n, k \in Nat : ab[j].call.id = <<t, k>>
      BY <1>2, <2>4
    <3>2. <<t, k>> = <<n + 1, i - Len(a)>>
      BY <1>3, <2>4, <3>1
    <3>3. QED
      BY <3>2
  <2>5. QED
    BY <1>1, <2>0, <2>1, <2>2, <2>3, <2>4
<1>5. MadeUpBy(ab, n + 1)
  <2> SUFFICES ASSUME NEW i \in DOMAIN ab
               PROVE  \E t \in 1..n + 1, k \in Nat : ab[i].call.id = <<t, k>>
    BY DEF MadeUpBy
  <2>1. CASE i <= Len(a)
    <3>1. PICK t \in 1..n, k \in Nat : ab[i].call.id = <<t, k>>
      BY <1>2, <2>1
    <3>2. t \in 1..n + 1
      OBVIOUS
    <3>3. QED
      BY <3>1, <3>2
  <2>2. CASE i > Len(a)
    <3>1. i - Len(a) \in Nat /\ n + 1 \in 1..n + 1
      BY <1>1, <2>2
    <3>2. QED
      BY <1>3, <2>2, <3>1
  <2>3. i \in Int
    BY <1>1
  <2>4. QED
    BY <1>1, <2>1, <2>2, <2>3
<1>6. QED
  BY <1>4, <1>5 DEF ab

\* The grammar generates no ids, so all of them are made up from turn and position.
IdInv ==
    ~config.disableGrammar =>
        /\ pc \in {"call", "run"} => \A i \in DOMAIN calls : calls[i].id = <<>>
        /\ MadeUpIn(results, turn + 1)
        /\ MadeUpBy(resp.toolResults, turn) /\ Distinct(resp.toolResults)

\* Made-up ids are kept apart.
LEMMA IdStep == TypeInv /\ IdInv /\ [Next]_vars => IdInv'
<1> SUFFICES ASSUME TypeInv, IdInv, [Next]_vars, ~config'.disableGrammar
             PROVE  /\ pc' \in {"call", "run"} => \A i \in DOMAIN calls' : calls'[i].id = <<>>
                    /\ MadeUpIn(results', turn' + 1)
                    /\ MadeUpBy(resp'.toolResults, turn') /\ Distinct(resp'.toolResults)
  BY DEF IdInv, MadeUpIn, MadeUpBy, Distinct
<1>1. config' = config
  BY DEF Next, Step, Prepare, Cancel, BeginTurn, ApplyTemplate, PredictFails, Predict, SkipCall, EnterCall, RunCall,
         EndTurn, vars
<1>2. /\ pc \in {"call", "run"} => \A i \in DOMAIN calls : calls[i].id = <<>>
      /\ MadeUpIn(results, turn + 1)
      /\ MadeUpBy(resp.toolResults, turn) /\ Distinct(resp.toolResults)
  BY <1>1 DEF IdInv
<1>3. resp \in Responses(turn) /\ turn \in 0..maxTurns /\ results \in Seq(Results)
      /\ calls \in Seq(ToolCalls) /\ Len(results) <= Len(calls) /\ config \in Configs
  BY Zenon DEF TypeInv, TypeOK, Responses
<1>4. turn \in Nat
  BY <1>3, MaxTurnsPositive
\* Steps that leave turn, results and the results recorded alone.
<1>5. ASSUME UNCHANGED <<turn, results>>, resp'.toolResults = resp.toolResults,
             pc' \in {"call", "run"} => pc \in {"call", "run"} /\ calls' = calls
      PROVE  /\ pc' \in {"call", "run"} => \A i \in DOMAIN calls' : calls'[i].id = <<>>
             /\ MadeUpIn(results', turn' + 1)
             /\ MadeUpBy(resp'.toolResults, turn') /\ Distinct(resp'.toolResults)
  BY <1>2, <1>5, Zenon
<1>6. CASE Prepare
  BY <1>3, <1>5, <1>6 DEF Prepare, Return, Responses
<1>7. CASE Cancel
  BY <1>5, <1>7 DEF Cancel
<1>8. CASE BeginTurn
  BY <1>5, <1>8 DEF BeginTurn, Return
<1>80. CASE ApplyTemplate
  BY <1>5, <1>80 DEF ApplyTemplate, Return
<1>9. CASE PredictFails
  BY <1>3, <1>5, <1>9 DEF PredictFails, Return, Responses
<1>10. CASE Predict
  <2>1. PICK raw \in Answers : Final(raw) \/ StartCalls(raw) \/ Refuse(raw)
    BY <1>10 DEF Predict
  <2>2. resp'.toolResults = resp.toolResults
    BY <1>3, <2>1 DEF Final, StartCalls, Refuse, WithAnswer, Responses
  <2>3. pc = "predict" /\ results = <<>> /\ turn' = turn
    BY <1>10 DEF Predict, TypeInv
  <2>4. results' = results
    BY <2>1, <2>3 DEF Final, StartCalls, Refuse
  <2>5. CASE StartCalls(raw)
    <3>1. Len(resp.toolResults) \in Nat
      BY <1>3 DEF Responses
    <3>2. raw \in Outputs /\ Allowed(raw, Tools, KindsAfter(Len(resp.toolResults)))
      BY <1>1, <2>1, RunnerAssumption DEF Answers
    <3>3. \A i \in DOMAIN calls' : calls'[i].id = <<>>
      BY <2>5, <3>1, <3>2, KindsOfTurn, AllowedParses DEF StartCalls
    <3>4. QED
      BY <1>2, <2>2, <2>3, <2>4, <3>3, Zenon
  <2>6. CASE Final(raw) \/ Refuse(raw)
    <3>1. pc' = "done"
      BY <2>6 DEF Final, Refuse, Return
    <3>2. QED
      BY <1>5, <2>2, <2>3, <2>4, <3>1
  <2>7. QED
    BY <2>1, <2>5, <2>6
<1>11. CASE SkipCall
  BY <1>5, <1>11 DEF SkipCall, Return
<1>110. CASE EnterCall
  BY <1>5, <1>110 DEF EnterCall
<1>12. CASE RunCall
  <2>1. pc = "run" /\ UNCHANGED <<calls, turn, resp>> /\ ~BatchDone
    BY <1>12 DEF RunCall, TypeInv
  <2>2. Current.id = <<turn + 1, Len(results) + 1>> /\ Len(results) + 1 \in Nat
    <3> DEFINE i == Len(results) + 1
    <3>1. i \in DOMAIN calls /\ i \in Nat
      BY <1>3, <2>1 DEF BatchDone
    <3>2. calls[i].id = <<>> /\ calls[i] \in ToolCalls
      BY <1>2, <1>3, <2>1, <3>1
    <3>3. Current = [calls[i] EXCEPT !.id = IF @ = <<>> THEN MadeUpId(i) ELSE @]
      BY DEF Current
    <3> HIDE DEF i
    <3>4. Current.id = MadeUpId(i)
      BY <3>2, <3>3 DEF ToolCalls
    <3>5. QED
      BY <3>1, <3>4 DEF MadeUpId, i
  <2>3. ASSUME NEW failed, results' = Append(results, [call |-> Current, failed |-> failed])
        PROVE  MadeUpIn(results', turn + 1)
    <3> DEFINE x == [call |-> Current, failed |-> failed]
    <3>1. x.call = Current
      OBVIOUS
    <3> HIDE DEF x
    <3>2. \A i \in DOMAIN Append(results, x) :
             IF i = Len(results) + 1 THEN Append(results, x)[i] = x
             ELSE i \in DOMAIN results /\ Append(results, x)[i] = results[i]
      BY <1>3
    <3>3. results' = Append(results, x)
      BY <2>3 DEF x
    <3>4. QED
      BY <1>2, <2>2, <3>1, <3>2, <3>3 DEF MadeUpIn
  <2>4. CASE \E failed \in BOOLEAN : results' = Append(results, [call |-> Current, failed |-> failed])
    <3>1. MadeUpIn(results', turn + 1)
      BY <2>3, <2>4
    <3>2. QED
      BY <1>2, <2>1, <3>1, Zenon
  <2>5. CASE results' = results
    BY <1>5, <2>1, <2>5
  <2>6. QED
    BY <1>12, <2>4, <2>5 DEF RunCall, WithResult
<1>13. CASE EndTurn
  <2>1. /\ resp'.toolResults = resp.toolResults \o results /\ turn' = turn + 1
        /\ results' = <<>> /\ pc' = "turn"
    BY <1>3, <1>13 DEF EndTurn, Responses
  <2>2. resp.toolResults \in Seq(Results)
    BY <1>3 DEF Responses
  <2>3. Distinct(resp'.toolResults) /\ MadeUpBy(resp'.toolResults, turn')
    BY <1>2, <1>3, <1>4, <2>1, <2>2, DistinctConcat
  <2>4. MadeUpIn(results', turn' + 1)
    BY <2>1 DEF MadeUpIn
  <2>5. QED
    BY <2>1, <2>3, <2>4
<1>14. CASE UNCHANGED vars
  BY <1>5, <1>14 DEF vars
<1>15. QED
  BY <1>6, <1>7, <1>8, <1>80, <1>9, <1>10, <1>11, <1>110, <1>12, <1>13, <1>14 DEF Next, Step

\* With the grammar, no two results of a conversation have the same id.
THEOREM IdsNeverCollide == Spec => []IdsDistinct
<1>1. Init => IdInv
  <2> SUFFICES ASSUME Init PROVE IdInv
    OBVIOUS
  <2>1. results = <<>> /\ resp.toolResults = <<>> /\ pc = "prepare"
    BY DEF Init, NoResponse
  <2>2. DOMAIN results = {} /\ DOMAIN resp.toolResults = {}
    BY <2>1
  <2>3. QED
    BY <2>1, <2>2 DEF IdInv, MadeUpIn, MadeUpBy, Distinct
<1>2. TypeInv /\ IdInv => IdsDistinct
  <2> SUFFICES ASSUME TypeInv, IdInv, ~config.disableGrammar PROVE Distinct(resp.toolResults \o results)
    BY DEF IdsDistinct, Distinct
  <2>1. resp \in Responses(turn) /\ turn \in 0..maxTurns /\ results \in Seq(Results) /\ config \in Configs
    BY Zenon DEF TypeInv, TypeOK, Responses
  <2>2. turn \in Nat /\ resp.toolResults \in Seq(Results)
    BY <2>1, MaxTurnsPositive DEF Responses
  <2>3. QED
    BY <2>1, <2>2, DistinctConcat DEF IdInv
<1>3. QED
  BY <1>1, <1>2, IdStep, TypeInit, TypeStep, PTL DEF Spec

---------------------------------------------------------------------------
\* What the messages say.

LessThan == {d \in Nat \X Nat : d[1] < d[2]}

\* Of the numbers with some property there is a first, if there are any.
LEMMA FirstNumber ==
    ASSUME NEW S, S \subseteq Nat, S # {}
    PROVE  \E p \in S : \A q \in S : p <= q
<1>1. IsWellFoundedOn(LessThan, Nat)
  BY NatLessThanWellFounded DEF OpToRel, LessThan
<1>2. PICK p \in S : \A q \in S : <<q, p>> \notin LessThan
  BY <1>1, WFMin, Zenon
<1>3. ASSUME NEW q \in S PROVE p <= q
  <2>1. q \in Nat /\ p \in Nat
    OBVIOUS
  <2>2. q < p => <<q, p>> \in LessThan
    BY <2>1 DEF LessThan
  <2>3. QED
    BY <1>2, <2>1, <2>2
<1>4. QED
  BY <1>3

\* The results that the first 0, 1, ... n turns of a conversation tell.
Tellings(told, msgs, given, n) ==
    told = [k \in 0..n |-> IF k = 0 THEN <<>> ELSE told[k - 1] \o msgs[given + 2 * k].body]

\* The same messages tell the same results.
LEMMA OneTelling ==
    ASSUME NEW f, NEW g, NEW msgs, NEW given, NEW n \in Nat,
           Tellings(f, msgs, given, n), Tellings(g, msgs, given, n)
    PROVE  f[n] = g[n]
<1> DEFINE S == {k \in 0..n : f[k] # g[k]}
<1>1. SUFFICES ASSUME S # {} PROVE FALSE
  OBVIOUS
<1>2. PICK k \in S : \A q \in S : k <= q
  <2>1. S \subseteq Nat
    OBVIOUS
  <2>2. QED
    BY <1>1, <2>1, FirstNumber
<1>3. k \in 0..n /\ f[k] # g[k]
  OBVIOUS
<1>4. /\ f[k] = IF k = 0 THEN <<>> ELSE f[k - 1] \o msgs[given + 2 * k].body
      /\ g[k] = IF k = 0 THEN <<>> ELSE g[k - 1] \o msgs[given + 2 * k].body
  <2>1. \A j \in 0..n : f[j] = IF j = 0 THEN <<>> ELSE f[j - 1] \o msgs[given + 2 * j].body
    BY DEF Tellings
  <2>2. \A j \in 0..n : g[j] = IF j = 0 THEN <<>> ELSE g[j - 1] \o msgs[given + 2 * j].body
    BY DEF Tellings
  <2>3. QED
    BY <1>3, <2>1, <2>2
<1>5. k # 0 => k - 1 \in 0..n /\ k - 1 \notin S
  BY <1>2, <1>3
<1>6. QED
  BY <1>3, <1>4, <1>5

\* What Replays says of the caller's messages first, the outputs outs and the
\* results res: msgs is first and then two messages for each of n turns.
Said(msgs, first, outs, res, n) ==
    /\ Len(msgs) = Len(first) + 2 * n
    /\ \A i \in 1..Len(first) : msgs[i] = first[i]
    /\ \A k \in 1..n :
         /\ msgs[Len(first) + 2 * k - 1] = Message("assistant", <<outs[k]>>)
         /\ msgs[Len(first) + 2 * k].role = "user"
         /\ Len(msgs[Len(first) + 2 * k].body) = Len(parseEnvelope(outs[k]).calls)
    /\ \E told : Tellings(told, msgs, Len(first), n) /\ told[n] = res

\* Before the first turn the caller's messages are all.
LEMMA SaidNothing ==
    ASSUME NEW first \in Seq(Messages), NEW outs
    PROVE  Said(first, first, outs, <<>>, 0)
<1>1. Len(first) \in Nat
  OBVIOUS
<1> DEFINE told == [k \in 0..0 |-> <<>>]
<1>2. Tellings(told, first, Len(first), 0) /\ told[0] = <<>>
  BY DEF Tellings
<1> HIDE DEF told
<1>3. QED
  BY <1>1, <1>2 DEF Said

\* A later output is not among those told.
LEMMA SaidStill ==
    ASSUME NEW msgs, NEW first, NEW outs \in Seq(Outputs), NEW res, NEW n \in Nat, NEW x \in Outputs,
           Said(msgs, first, outs, res, n), n <= Len(outs)
    PROVE  Said(msgs, first, Append(outs, x), res, n)
<1>1. \A k \in 1..n : Append(outs, x)[k] = outs[k]
  OBVIOUS
<1>2. QED
  BY <1>1 DEF Said

\* A turn adds the output and its results.
LEMMA SaidMore ==
    ASSUME NEW msgs \in Seq(Messages), NEW first \in Seq(Messages), NEW outs, NEW res, NEW n \in Nat,
           NEW answer \in Messages, NEW told \in Messages,
           Said(msgs, first, outs, res, n),
           answer = Message("assistant", <<outs[n + 1]>>), told.role = "user",
           Len(told.body) = Len(parseEnvelope(outs[n + 1]).calls)
    PROVE  Said(msgs \o <<answer, told>>, first, outs, res \o told.body, n + 1)
<1> DEFINE more == msgs \o <<answer, told>>
           g == Len(first)
<1>1. /\ Len(msgs) = g + 2 * n /\ g \in Nat
      /\ Len(more) = Len(msgs) + 2
      /\ \A i \in 1..Len(msgs) : more[i] = msgs[i]
      /\ more[Len(msgs) + 1] = answer /\ more[Len(msgs) + 2] = told
  <2>1. Len(msgs) = g + 2 * n /\ g \in Nat
    BY DEF Said
  <2>2. QED
    BY <2>1, SMTT(40)
<1>2. PICK f : Tellings(f, msgs, g, n) /\ f[n] = res
  BY DEF Said
<1>3. /\ \A i \in 1..g : msgs[i] = first[i]
      /\ \A k \in 1..n :
           /\ msgs[g + 2 * k - 1] = Message("assistant", <<outs[k]>>)
           /\ msgs[g + 2 * k].role = "user"
           /\ Len(msgs[g + 2 * k].body) = Len(parseEnvelope(outs[k]).calls)
  BY DEF Said
<1> HIDE DEF more, g
<1>4. \A k \in 1..n : more[g + 2 * k - 1] = msgs[g + 2 * k - 1] /\ more[g + 2 * k] = msgs[g + 2 * k]
  BY <1>1
<1>5. \A i \in 1..g : more[i] = first[i]
  BY <1>1, <1>3
<1>6. more[g + 2 * (n + 1) - 1] = answer /\ more[g + 2 * (n + 1)] = told
  <2>1. g + 2 * (n + 1) - 1 = Len(msgs) + 1 /\ g + 2 * (n + 1) = Len(msgs) + 2
    BY <1>1
  <2>2. QED
    BY <1>1, <2>1
<1>7. ASSUME NEW k \in 1..n + 1
      PROVE  /\ more[g + 2 * k - 1] = Message("assistant", <<outs[k]>>)
             /\ more[g + 2 * k].role = "user"
             /\ Len(more[g + 2 * k].body) = Len(parseEnvelope(outs[k]).calls)
  <2>1. CASE k = n + 1
    BY <1>6, <2>1
  <2>2. CASE k # n + 1
    <3>1. k \in 1..n
      BY <2>2
    <3>2. QED
      BY <1>3, <1>4, <3>1
  <2>3. QED
    BY <2>1, <2>2
<1>8. \E h : Tellings(h, more, g, n + 1) /\ h[n + 1] = res \o told.body
  <2> DEFINE h == [k \in 0..n + 1 |-> IF k = n + 1 THEN res \o told.body ELSE f[k]]
             next == n + 1
  <2>0. next \in Nat /\ next = n + 1
    OBVIOUS
  <2>1. ASSUME NEW k \in 0..next
        PROVE  h[k] = IF k = 0 THEN <<>> ELSE h[k - 1] \o more[g + 2 * k].body
    <3>1. CASE k = next
      <4>1. h[k] = res \o told.body /\ h[k - 1] = f[n] /\ k # 0
        BY <2>0, <3>1
      <4>2. more[g + 2 * k] = told
        BY <1>6, <3>1
      <4>3. QED
        BY <1>2, <4>1, <4>2
    <3>2. CASE k # next
      <4>1. k \in 0..n
        BY <2>0, <3>2
      <4>2. h[k] = f[k] /\ (k # 0 => h[k - 1] = f[k - 1] /\ more[g + 2 * k] = msgs[g + 2 * k])
        BY <1>4, <2>0, <4>1
      <4>3. \A j \in 0..n : f[j] = IF j = 0 THEN <<>> ELSE f[j - 1] \o msgs[g + 2 * j].body
        BY <1>2 DEF Tellings
      <4>4. QED
        BY <4>1, <4>2, <4>3
    <3>3. QED
      BY <3>1, <3>2
  <2>2. h = [k \in 0..next |-> IF k = 0 THEN <<>> ELSE h[k - 1] \o more[g + 2 * k].body]
    BY <2>1
  <2>3. Tellings(h, more, g, n + 1)
    BY <2>2 DEF Tellings
  <2>4. h[n + 1] = res \o told.body
    <3>1. next \in 0..next
      BY <2>0
    <3>2. QED
      BY <2>0, <3>1
  <2>5. QED
    BY <2>3, <2>4
<1>9. Len(more) = g + 2 * (n + 1)
  BY <1>1
<1>10. Said(more, first, outs, res \o told.body, n + 1)
  BY <1>5, <1>7, <1>8, <1>9 DEF Said, g
<1>11. QED
  BY <1>10 DEF more

\* Said is what Replays asks for.
LEMMA SaidReplays ==
    ASSUME config.messages \in Seq(Messages), NEW msgs \in Seq(Messages), NEW n \in Nat,
           Said(msgs, config.messages, resp.rawOutputs, resp.toolResults, n)
    PROVE  Replays(msgs, n)
<1> DEFINE first == config.messages
           g == Len(first)
           told == CHOOSE f : f = [k \in 0..n |-> IF k = 0 THEN <<>> ELSE f[k - 1] \o msgs[g + 2 * k].body]
<1>1. PICK f : Tellings(f, msgs, g, n) /\ f[n] = resp.toolResults
  BY DEF Said
<1>2. Tellings(told, msgs, g, n)
  <2>1. \E h : h = [k \in 0..n |-> IF k = 0 THEN <<>> ELSE h[k - 1] \o msgs[g + 2 * k].body]
    BY <1>1 DEF Tellings
  <2> HIDE DEF g
  <2>2. QED
    BY <2>1, Zenon DEF Tellings
<1>3. told[n] = resp.toolResults
  <2> HIDE DEF told, g
  <2>1. QED
    BY <1>1, <1>2, OneTelling
<1>4. SubSeq(msgs, 1, g) = first
  <2>1. Len(msgs) = g + 2 * n /\ \A i \in 1..g : msgs[i] = first[i]
    BY Zenon DEF Said
  <2>2. first \in Seq(Messages) /\ g = Len(first) /\ g \in Nat
    OBVIOUS
  <2> HIDE DEF first, g
  <2>3. /\ SubSeq(msgs, 1, g) \in Seq(Messages)
        /\ Len(SubSeq(msgs, 1, g)) = g /\ \A i \in 1..g : SubSeq(msgs, 1, g)[i] = msgs[i]
    BY <2>1, <2>2
  <2>4. QED
    BY <2>1, <2>2, <2>3, SeqEqual
<1>5. /\ Len(msgs) = g + 2 * n
      /\ \A k \in 1..n :
           /\ msgs[g + 2 * k - 1] = Message("assistant", <<resp.rawOutputs[k]>>)
           /\ msgs[g + 2 * k].role = "user"
           /\ Len(msgs[g + 2 * k].body) = Len(parseEnvelope(resp.rawOutputs[k]).calls)
  BY DEF Said
<1>6. QED
  BY <1>3, <1>4, <1>5, Zenon DEF Replays

\* An output that is cut short is an output.
LEMMA BrokenIsOutput == Broken \in Outputs
<1>1. <<>> \in Seq(CallEnvelopes)
  OBVIOUS
<1>2. "" \in Strings /\ "absent" \in ArgsKinds
  BY StringsAssumption DEF ArgsKinds
<1>3. QED
  BY <1>1, <1>2 DEF Broken, Outputs

\* The history tells the turns completed, and the response repeats it.
TalkInv ==
    /\ pc = "prepare" => resp = NoResponse
    /\ pc # "prepare" /\ err # "bad configuration" =>
         /\ Said(history, config.messages, resp.rawOutputs, resp.toolResults, turn)
         /\ resp.messages = IF pc = "done" /\ err = ""
                            THEN Append(history, Message("assistant", <<resp.rawOutputs[turn + 1]>>))
                            ELSE history
    /\ pc \in {"template", "predict"} => prompt = promptMessages(history)
    /\ pc \in {"call", "run"} => calls = parseEnvelope(resp.rawOutputs[turn + 1]).calls

\* Nothing is said at the start.
LEMMA TalkInit == Init => TalkInv
BY DEF Init, TalkInv

\* What the types say of the parts of a state.
LEMMA StateTypes ==
    ASSUME TypeInv
    PROVE  /\ resp \in Responses(turn) /\ turn \in Nat /\ results \in Seq(Results)
           /\ history \in Seq(Messages) /\ config.messages \in Seq(Messages)
<1>1. resp \in Responses(turn) /\ turn \in 0..maxTurns /\ config \in Configs
  BY Zenon DEF TypeInv, TypeOK, Responses
<1>2. results \in Seq(Results) /\ history \in Seq(Messages)
  BY Zenon DEF TypeInv, TypeOK
<1>3. maxTurns \in Nat /\ config.messages \in Seq(Messages)
  BY <1>1, MaxTurnsPositive, RunnerAssumption
<1>4. QED
  BY <1>1, <1>2, <1>3

\* Every step tells what happens in it.
LEMMA TalkStep == TypeInv /\ TalkInv /\ [Next]_vars => TalkInv'
<1> SUFFICES ASSUME TypeInv, TalkInv, [Next]_vars PROVE TalkInv'
  OBVIOUS
<1>1. /\ resp \in Responses(turn) /\ turn \in Nat /\ results \in Seq(Results)
      /\ history \in Seq(Messages) /\ config.messages \in Seq(Messages)
  BY StateTypes
<1>2. resp.rawOutputs \in Seq(Outputs) /\ resp.toolResults \in Seq(Results)
  <2>1. Output \cup {Broken} \subseteq Outputs
    BY RunnerAssumption, BrokenIsOutput
  <2>2. QED
    BY <1>1, <2>1 DEF Responses
<1>3. pc \in {"turn", "template", "predict", "call", "run"} =>
        /\ Said(history, config.messages, resp.rawOutputs, resp.toolResults, turn)
        /\ resp.messages = history /\ err = ""
  BY DEF TalkInv, TypeInv
<1>4. CASE Prepare
  <2>1. CASE Prepared
    <3>1. /\ history' = config.messages /\ turn' = turn /\ config' = config /\ pc' = "turn"
          /\ resp' = [resp EXCEPT !.messages = config.messages]
      BY <1>4, <2>1 DEF Prepare
    <3>2. resp = NoResponse /\ turn = 0
      <4>1. resp = NoResponse /\ resp.turns = turn
        BY <1>4 DEF Prepare, TalkInv, TypeInv
      <4>2. QED
        BY <4>1 DEF NoResponse
    <3>3. resp'.messages = config.messages /\ resp'.rawOutputs = <<>> /\ resp'.toolResults = <<>>
      BY <3>1, <3>2 DEF NoResponse
    <3>4. Said(history', config'.messages, resp'.rawOutputs, resp'.toolResults, turn')
      BY <1>1, <3>1, <3>2, <3>3, SaidNothing
    <3>5. QED
      BY <3>1, <3>3, <3>4 DEF TalkInv
  <2>2. CASE ~Prepared
    BY <1>4, <2>2 DEF Prepare, Return, TalkInv
  <2>3. QED
    BY <2>1, <2>2
<1>5. CASE Cancel
  BY <1>5 DEF Cancel, TalkInv
<1>6. CASE BeginTurn
  <2>1. /\ pc = "turn" /\ UNCHANGED <<config, turn, history, calls, results, resp>>
        /\ \/ pc' = "done" /\ err' # ""
           \/ pc' = "template" /\ prompt' = promptMessages(history) /\ err' = err
    BY <1>6 DEF BeginTurn, Return
  <2>2. promptMessages(history)' = promptMessages(history')
    BY DEF promptMessages
  <2>3. promptMessages(history') = promptMessages(history)
    BY <2>1
  <2>4. QED
    BY <1>3, <2>1, <2>3 DEF TalkInv
<1>60. CASE ApplyTemplate
  <2>1. /\ pc = "template" /\ UNCHANGED <<config, turn, history, prompt, calls, results, resp>>
        /\ \/ pc' = "done" /\ err' # ""
           \/ pc' = "predict" /\ err' = err
    BY <1>60 DEF ApplyTemplate, Return
  <2>2. promptMessages(history)' = promptMessages(history')
    BY DEF promptMessages
  <2>3. promptMessages(history') = promptMessages(history)
    BY <2>1
  <2>4. prompt = promptMessages(history)
    BY <2>1 DEF TalkInv
  <2>5. QED
    BY <1>3, <2>1, <2>2, <2>3, <2>4 DEF TalkInv
<1>7. CASE PredictFails
  <2>1. /\ pc = "predict" /\ UNCHANGED <<config, turn, history>> /\ pc' = "done" /\ err' = "predict"
        /\ resp'.rawOutputs = Append(resp.rawOutputs, Broken)
        /\ resp'.toolResults = resp.toolResults /\ resp'.messages = resp.messages
    BY <1>1, <1>7 DEF PredictFails, Return, Responses
  <2>2. turn <= Len(resp.rawOutputs)
    <3>1. pc = "predict"
      BY <2>1
    <3>2. Len(resp.rawOutputs) = turn
      BY <3>1 DEF TypeInv
    <3>3. QED
      BY <1>1, <3>2
  <2>3. Said(history, config.messages, Append(resp.rawOutputs, Broken), resp.toolResults, turn)
    BY <1>1, <1>2, <1>3, <2>1, <2>2, BrokenIsOutput, SaidStill, Zenon
  <2>4. QED
    BY <1>3, <2>1, <2>3 DEF TalkInv
<1>8. CASE Predict
  <2>1. PICK raw \in Answers : Final(raw) \/ StartCalls(raw) \/ Refuse(raw)
    BY <1>8 DEF Predict
  <2>2. /\ pc = "predict" /\ UNCHANGED <<config, turn, history>>
        /\ raw \in Outputs /\ Len(resp.rawOutputs) = turn
    BY <1>8, <2>1, RunnerAssumption DEF Predict, Answers, TypeInv
  <2>3. /\ WithAnswer(raw).rawOutputs = Append(resp.rawOutputs, raw)
        /\ WithAnswer(raw).toolResults = resp.toolResults /\ WithAnswer(raw).messages = history
        /\ \A msgs : LET r == [WithAnswer(raw) EXCEPT !.messages = msgs]
                    IN  /\ r.messages = msgs /\ r.toolResults = resp.toolResults
                        /\ r.rawOutputs = Append(resp.rawOutputs, raw)
    <3>1. resp.messages = history
      BY <1>3, <2>2
    <3>2. QED
      BY <1>1, <3>1 DEF WithAnswer, Responses
  <2>4. Append(resp.rawOutputs, raw)[turn + 1] = raw
    BY <1>1, <1>2, <2>2
  <2>5. Said(history, config.messages, Append(resp.rawOutputs, raw), resp.toolResults, turn)
    <3>1. turn <= Len(resp.rawOutputs)
      BY <1>1, <2>2
    <3>2. QED
      BY <1>1, <1>2, <1>3, <2>2, <3>1, SaidStill, Zenon
  <2>6. CASE Final(raw)
    <3>1. /\ resp'.messages = Append(history, Message("assistant", <<raw>>))
          /\ resp'.rawOutputs = Append(resp.rawOutputs, raw) /\ resp'.toolResults = resp.toolResults
          /\ pc' = "done" /\ err' = ""
      BY <2>3, <2>6 DEF Final, Return
    <3>2. QED
      BY <2>2, <2>4, <2>5, <3>1 DEF TalkInv
  <2>7. CASE StartCalls(raw)
    <3>1. /\ resp'.messages = history /\ calls' = parseEnvelope(raw).calls
          /\ resp'.rawOutputs = Append(resp.rawOutputs, raw) /\ resp'.toolResults = resp.toolResults
          /\ pc' = "call" /\ err' = ""
      BY <1>3, <2>2, <2>3, <2>7 DEF StartCalls
    <3>2. QED
      BY <2>2, <2>4, <2>5, <3>1 DEF TalkInv
  <2>8. CASE Refuse(raw)
    <3>1. /\ resp'.messages = history
          /\ resp'.rawOutputs = Append(resp.rawOutputs, raw) /\ resp'.toolResults = resp.toolResults
          /\ pc' = "done" /\ err' # ""
      BY <2>3, <2>8 DEF Refuse, Return
    <3>2. QED
      BY <2>2, <2>5, <3>1 DEF TalkInv
  <2>9. QED
    BY <2>1, <2>6, <2>7, <2>8
<1>9. CASE SkipCall
  <2>1. /\ pc = "call" /\ pc' = "done" /\ err' # ""
        /\ UNCHANGED <<config, turn, history, resp>>
    BY <1>9 DEF SkipCall, Return
  <2>2. QED
    BY <1>3, <2>1 DEF TalkInv
<1>90. CASE EnterCall
  <2>1. /\ pc = "call" /\ pc' = "run" /\ UNCHANGED <<config, turn, history, calls, resp, err>>
    BY <1>90 DEF EnterCall
  <2>2. QED
    BY <1>3, <2>1 DEF TalkInv
<1>10. CASE RunCall
  <2>1. /\ pc = "run" /\ UNCHANGED <<config, turn, history, calls, resp>>
        /\ (pc' = "call" /\ err' = err) \/ (pc' = "done" /\ err' # "")
    BY <1>10 DEF RunCall, Return
  <2>2. QED
    BY <1>3, <2>1 DEF TalkInv
<1>11. CASE EndTurn
  <2> DEFINE answer == Message("assistant", <<resp.rawOutputs[turn + 1]>>)
             told == Message("user", results)
  <2>1. /\ pc = "call" /\ BatchDone /\ pc' = "turn" /\ turn' = turn + 1
        /\ history' = history \o <<answer, told>> /\ UNCHANGED <<config, err>>
        /\ resp'.messages = history' /\ resp'.rawOutputs = resp.rawOutputs
        /\ resp'.toolResults = resp.toolResults \o results
    BY <1>1, <1>11 DEF EndTurn, Responses, formatToolResults
  <2>2. answer \in Messages /\ told \in Messages /\ told.role = "user" /\ told.body = results
    <3>1. resp.rawOutputs \in Seq(Output \cup {Broken}) /\ Len(resp.rawOutputs) = turn + 1
      BY <1>1, <2>1 DEF TypeInv, Responses
    <3>2. resp.rawOutputs[turn + 1] \in Output \cup {Broken}
      BY <1>1, <3>1
    <3>3. <<resp.rawOutputs[turn + 1]>> \in Seq(Parts) /\ results \in Seq(Parts)
      BY <1>1, <3>2 DEF Parts
    <3>4. QED
      BY <3>3, OneMessage, StringsAssumption DEF Message
  <2>3. Len(told.body) = Len(parseEnvelope(resp.rawOutputs[turn + 1]).calls)
    BY <2>1, <2>2 DEF TalkInv, BatchDone
  <2>4. answer = Message("assistant", <<resp.rawOutputs[turn + 1]>>)
    OBVIOUS
  <2> HIDE DEF answer, told
  <2>5. Said(history \o <<answer, told>>, config.messages, resp.rawOutputs,
             resp.toolResults \o told.body, turn + 1)
    BY <1>1, <1>3, <2>1, <2>2, <2>3, <2>4, SaidMore
  <2>6. Said(history', config'.messages, resp'.rawOutputs, resp'.toolResults, turn')
    BY <2>1, <2>2, <2>5
  <2>7. QED
    BY <1>3, <2>1, <2>6 DEF TalkInv
<1>12. CASE UNCHANGED vars
  BY <1>12 DEF vars, TalkInv
<1>13. QED
  BY <1>4, <1>5, <1>6, <1>60, <1>7, <1>8, <1>9, <1>90, <1>10, <1>11, <1>12 DEF Next, Step

\* Putting an element before a sequence, and taking it away.
LEMMA BehindFirst ==
    ASSUME NEW S, NEW a \in S, NEW b \in Seq(S)
    PROVE  (<<a>> \o b)[1] = a /\ Tail(<<a>> \o b) = b
<1> DEFINE s == <<a>> \o b
<1>1. s \in Seq(S) /\ Len(s) = Len(b) + 1 /\ Len(b) \in Nat
  OBVIOUS
<1>2. s[1] = a /\ \A i \in 1..Len(b) : s[i + 1] = b[i]
  OBVIOUS
<1> HIDE DEF s
<1>3. Tail(s) \in Seq(S) /\ Len(Tail(s)) = Len(b) /\ \A i \in 1..Len(b) : Tail(s)[i] = b[i]
  BY <1>1, <1>2
<1>4. Tail(s) = b
  BY <1>3, SeqEqual
<1>5. QED
  BY <1>2, <1>4 DEF s

\* A sequence with one element more, without it.
LEMMA UpToLast ==
    ASSUME NEW S, NEW s \in Seq(S), NEW x, NEW t, t = Append(s, x)
    PROVE  SubSeq(t, 1, Len(t) - 1) = s /\ t[Len(t)] = x
<1> DEFINE R == S \cup {x}
<1>1. s \in Seq(R) /\ x \in R
  OBVIOUS
<1> HIDE DEF R
<1>2. /\ t \in Seq(R) /\ Len(t) = Len(s) + 1 /\ Len(s) \in Nat
      /\ t[Len(s) + 1] = x /\ \A i \in 1..Len(s) : t[i] = s[i]
  BY <1>1
<1>3. Len(t) - 1 = Len(s)
  BY <1>2
<1>4. /\ SubSeq(t, 1, Len(s)) \in Seq(R) /\ Len(SubSeq(t, 1, Len(s))) = Len(s)
      /\ \A i \in 1..Len(s) : SubSeq(t, 1, Len(s))[i] = s[i]
  BY <1>2
<1>5. SubSeq(t, 1, Len(s)) = s
  BY <1>1, <1>4, SeqEqual
<1>6. QED
  BY <1>2, <1>3, <1>5

\* The instructions put before the history, and taken away again.
LEMMA PromptTells ==
    ASSUME history \in Seq(Messages), prompt = promptMessages(history), Instructions \in Text,
           NEW own \in BOOLEAN, own <=> history # <<>> /\ history[1].role = "system"
    PROVE  /\ prompt[1].role = "system" /\ prompt[1].body[1] = Instructions
           /\ own \/ Len(prompt[1].body) = 1
           /\ (IF own THEN [prompt EXCEPT ![1].body = Tail(@)] ELSE Tail(prompt)) = history
<1>1. CASE own
  <2> DEFINE h == history[1]
             told == <<Instructions>> \o h.body
             p == [h EXCEPT !.body = told]
  <2>1. history # <<>> /\ history[1].role = "system"
    BY <1>1
  <2>2. h \in Messages /\ h.role = "system" /\ Len(history) \in Nat \ {0}
    BY <2>1
  <2>3. h.body \in Seq(Parts) /\ Instructions \in Parts
    BY <2>2 DEF Messages, Parts
  <2>4. told[1] = Instructions /\ Tail(told) = h.body
    BY <2>3, BehindFirst
  <2>5. promptMessages(history) = [history EXCEPT ![1] = p]
    BY <2>1 DEF promptMessages
  <2> HIDE DEF told
  <2>6. p.role = "system" /\ p.body = told /\ [p EXCEPT !.body = h.body] = h
    BY <2>2 DEF Messages
  <2> HIDE DEF p, h
  <2>7. prompt = [history EXCEPT ![1] = p] /\ prompt[1] = p
    BY <2>2, <2>5
  <2>8. [prompt EXCEPT ![1].body = Tail(@)] = [history EXCEPT ![1] = h]
    <3>1. [prompt EXCEPT ![1].body = Tail(@)] = [prompt EXCEPT ![1] = [p EXCEPT !.body = Tail(told)]]
      BY <2>6, <2>7
    <3>2. [p EXCEPT !.body = Tail(told)] = h
      BY <2>4, <2>6
    <3>3. [prompt EXCEPT ![1] = h] = [history EXCEPT ![1] = h]
      BY <2>7
    <3>4. QED
      BY <3>1, <3>2, <3>3
  <2>9. [history EXCEPT ![1] = h] = history
    BY <2>2 DEF h
  <2>10. QED
    BY <1>1, <2>4, <2>6, <2>7, <2>8, <2>9
<1>2. CASE ~own
  <2> DEFINE m == Message("system", <<Instructions>>)
  <2>1. prompt = <<m>> \o history
    BY <1>2 DEF promptMessages
  <2>2. m \in Messages /\ m.role = "system" /\ m.body = <<Instructions>>
    <3>1. <<Instructions>> \in Seq(Parts)
      BY DEF Parts
    <3>2. QED
      BY <3>1, OneMessage, StringsAssumption DEF Message
  <2> HIDE DEF m
  <2>3. prompt[1] = m /\ Tail(prompt) = history
    BY <2>1, <2>2, BehindFirst
  <2>4. Len(<<Instructions>>) = 1 /\ <<Instructions>>[1] = Instructions
    OBVIOUS
  <2>5. QED
    BY <1>2, <2>2, <2>3, <2>4
<1>3. QED
  BY <1>1, <1>2

\* The prompt of every prediction tells the model the instructions, the caller's
\* messages and everything said and done since, once (promptMessages, Generate).
THEOREM PromptsTellAll == Spec => []PromptTellsAll
<1>1. TypeInv /\ TalkInv => PromptTellsAll
  <2> SUFFICES ASSUME TypeInv, TalkInv, pc = "predict" PROVE PromptTellsAll
    BY DEF PromptTellsAll
  <2> DEFINE first == config.messages
             own == first # <<>> /\ first[1].role = "system"
  <2>1. /\ Said(history, first, resp.rawOutputs, resp.toolResults, turn)
        /\ prompt = promptMessages(history)
    BY DEF TalkInv, TypeInv
  <2>2. history \in Seq(Messages) /\ turn \in Nat /\ first \in Seq(Messages)
    BY StateTypes
  <2>3. Instructions \in Text
    BY RunnerAssumption
  <2>4. own <=> history # <<>> /\ history[1].role = "system"
    <3>1. /\ Len(history) = Len(first) + 2 * turn /\ \A i \in 1..Len(first) : history[i] = first[i]
          /\ turn > 0 => history[Len(first) + 2 * 1 - 1].role = "assistant"
      <4>1. \A k \in 1..turn : history[Len(first) + 2 * k - 1] = Message("assistant", <<resp.rawOutputs[k]>>)
        BY <2>1, Zenon DEF Said
      <4>2. turn > 0 => 1 \in 1..turn
        BY <2>2
      <4>3. turn > 0 => history[Len(first) + 2 * 1 - 1] = Message("assistant", <<resp.rawOutputs[1]>>)
        BY <4>1, <4>2
      <4>4. \A body : Message("assistant", body).role = "assistant"
        BY DEF Message
      <4>5. QED
        BY <2>1, <4>3, <4>4, Zenon DEF Said
    <3>2. CASE first = <<>>
      <4>1. Len(first) = 0
        BY <3>2
      <4>2. history # <<>> => turn > 0
        BY <2>2, <3>1, <4>1
      <4>3. history # <<>> => history[1].role = "assistant"
        BY <3>1, <4>1, <4>2
      <4>4. QED
        BY <3>2, <4>3
    <3>3. CASE first # <<>>
      <4>1. 1 \in 1..Len(first) /\ history # <<>>
        <5>1. Len(first) \in Nat \ {0}
          BY <2>2, <3>3
        <5>2. Len(history) = Len(first) + 2 * turn
          BY <3>1
        <5> HIDE DEF first
        <5>3. Len(history) # 0
          BY <2>2, <5>1, <5>2
        <5>4. QED
          BY <5>1, <5>3
      <4>2. QED
        BY <3>1, <3>3, <4>1
    <3>4. QED
      BY <3>2, <3>3
  <2>5. own \in BOOLEAN
    OBVIOUS
  <2> HIDE DEF own
  <2>6. /\ prompt[1].role = "system" /\ prompt[1].body[1] = Instructions
        /\ own \/ Len(prompt[1].body) = 1
        /\ (IF own THEN [prompt EXCEPT ![1].body = Tail(@)] ELSE Tail(prompt)) = history
    BY <2>1, <2>2, <2>3, <2>4, <2>5, PromptTells
  <2>7. Replays(history, turn)
    BY <2>1, <2>2, SaidReplays
  <2>8. Replays(IF own THEN [prompt EXCEPT ![1].body = Tail(@)] ELSE Tail(prompt), turn)
    BY <2>6, <2>7
  <2>9. QED
    BY <2>6, <2>8, Zenon DEF PromptTellsAll, own
<1>2. QED
  BY <1>1, TalkInit, TalkStep, TypeInit, TypeStep, PTL DEF Spec

\* What Generate returns can be continued from: the turns completed, whatever
\* error ended the last one, and the answer if there is one (Response.Messages).
THEOREM MessagesAreReplayed == Spec => []MessagesReplay
<1>1. TypeInv /\ TalkInv => MessagesReplay
  <2> SUFFICES ASSUME TypeInv, TalkInv, pc = "done", err # "bad configuration" PROVE MessagesReplay
    BY DEF MessagesReplay
  <2>1. /\ Said(history, config.messages, resp.rawOutputs, resp.toolResults, turn)
        /\ resp.messages = IF err = "" THEN Append(history, Message("assistant", <<resp.rawOutputs[turn + 1]>>))
                           ELSE history
    BY DEF TalkInv
  <2>2. history \in Seq(Messages) /\ turn \in Nat /\ config.messages \in Seq(Messages)
    BY StateTypes
  <2>4. Replays(history, turn)
    BY <2>1, <2>2, SaidReplays
  <2>5. CASE err # ""
    BY <2>1, <2>4, <2>5 DEF MessagesReplay
  <2>6. CASE err = ""
    <3> DEFINE m == Message("assistant", <<resp.rawOutputs[turn + 1]>>)
    <3>1. resp.messages = Append(history, m)
      BY <2>1, <2>6
    <3> HIDE DEF m
    <3>2. /\ SubSeq(resp.messages, 1, Len(resp.messages) - 1) = history
          /\ resp.messages[Len(resp.messages)] = m
      BY <2>2, <3>1, UpToLast
    <3>3. QED
      BY <2>4, <2>6, <3>2 DEF MessagesReplay, m
  <2>7. QED
    BY <2>5, <2>6
<1>2. QED
  BY <1>1, TalkInit, TalkStep, TypeInit, TypeStep, PTL DEF Spec

---------------------------------------------------------------------------
\* Whatever was begun late had passed its check before the cancellation, and the
\* next check, in front of a prediction or of a tool, ends the conversation.
LateInv == late = 0 \/ (late = 1 /\ canceled /\ pc \notin {"template", "run"})

\* A canceled context lets nothing through twice.
LEMMA LateStep == LateInv /\ [Next]_vars => LateInv'
<1> SUFFICES ASSUME LateInv, [Next]_vars PROVE LateInv'
  OBVIOUS
\* No check is passed, and nothing begins.
<1>1. ASSUME late' = late, canceled' = canceled, pc' \notin {"template", "run"}
      PROVE  LateInv'
  BY <1>1 DEF LateInv
\* A check is passed, on a context that is alive.
<1>2. ASSUME late' = late, ~canceled
      PROVE  LateInv'
  BY <1>2 DEF LateInv
\* What was let through begins.
<1>3. ASSUME pc \in {"template", "run"}, late' = late \/ Begins, canceled' = canceled,
             pc' \notin {"template", "run"}
      PROVE  LateInv'
  <2>1. late = 0
    BY <1>3 DEF LateInv
  <2>2. QED
    BY <1>3, <2>1 DEF LateInv, Begins
<1>4. CASE Prepare
  BY <1>1, <1>4 DEF Prepare, Return
<1>5. CASE Cancel
  BY <1>2, <1>5 DEF Cancel
<1>6. CASE BeginTurn
  BY <1>1, <1>2, <1>6 DEF BeginTurn, Return
<1>7. CASE ApplyTemplate
  BY <1>3, <1>7 DEF ApplyTemplate, Return
<1>8. CASE PredictFails
  BY <1>1, <1>8 DEF PredictFails, Return
<1>9. CASE Predict
  BY <1>1, <1>9 DEF Predict, Final, StartCalls, Refuse, Return
<1>10. CASE SkipCall
  BY <1>1, <1>10 DEF SkipCall, Return
<1>11. CASE EnterCall
  BY <1>2, <1>11 DEF EnterCall, MayRun
<1>12. CASE RunCall
  BY <1>3, <1>12 DEF RunCall, Return
<1>13. CASE EndTurn
  BY <1>1, <1>13 DEF EndTurn
<1>14. CASE UNCHANGED vars
  BY <1>14 DEF vars, LateInv
<1>15. QED
  BY <1>4, <1>5, <1>6, <1>7, <1>8, <1>9, <1>10, <1>11, <1>12, <1>13, <1>14 DEF Next, Step

\* After the context is canceled at most one prediction or tool is begun, the one
\* whose ctx.Err() had been read already (Generate and executeToolCalls).
THEOREM CancellationStops == Spec => []CanceledStops
<1>1. Init => LateInv
  BY DEF Init, LateInv
<1>2. LateInv => CanceledStops
  BY DEF LateInv, CanceledStops
<1>3. QED
  BY <1>1, <1>2, LateStep, PTL DEF Spec

---------------------------------------------------------------------------
\* What is left of a conversation: turns, then how far the turn has come, then
\* calls of its batch without a result.
TurnsLeft == maxTurns - turn
Phase == CASE pc = "prepare" -> 5 [] pc = "turn" -> 4 [] pc = "template" -> 3 [] pc = "predict" -> 2
           [] pc \in {"call", "run"} -> 1 [] OTHER -> 0
\* A call takes two steps: it is looked at, and run.
CallsLeft == 2 * (Len(calls) - Len(results)) - (IF pc = "run" THEN 1 ELSE 0)

Shrinks ==
    \/ TurnsLeft' < TurnsLeft
    \/ TurnsLeft' = TurnsLeft /\ Phase' < Phase
    \/ TurnsLeft' = TurnsLeft /\ Phase' = Phase /\ CallsLeft' < CallsLeft

\* Every step is progress in the lexicographic order of the three, except for the
\* one cancellation of the caller's context.
Progresses ==
    /\ {TurnsLeft, TurnsLeft', Phase, Phase', CallsLeft, CallsLeft'} \subseteq Nat
    /\ \/ Shrinks
       \/ UNCHANGED <<TurnsLeft, Phase, CallsLeft>> /\ ~canceled /\ canceled'
ComesToAnEnd == [][Progresses]_vars

\* The phases as numbers.
LEMMA Phases ==
    /\ pc = "prepare" => Phase = 5
    /\ pc = "turn" => Phase = 4
    /\ pc = "template" => Phase = 3
    /\ pc = "predict" => Phase = 2
    /\ pc \in {"call", "run"} => Phase = 1
    /\ pc = "done" => Phase = 0
    /\ Phase \in 0..5
<1>1. QED
  BY DEF Phase

\* The three counts are natural numbers in every state.
LEMMA CountsAreNat == TypeInv => TurnsLeft \in Nat /\ Phase \in Nat /\ CallsLeft \in Nat
<1>1. ASSUME TypeInv PROVE TurnsLeft \in Nat
  <2>1. maxTurns \in Nat \ {0}
    BY <1>1, MaxTurnsPositive, Zenon DEF TypeInv, TypeOK
  <2>2. turn \in 0..maxTurns
    BY <1>1, Zenon DEF TypeInv, TypeOK
  <2>3. QED
    BY <2>1, <2>2 DEF TurnsLeft
<1>2. ASSUME TypeInv PROVE CallsLeft \in Nat
  <2>1. calls \in Seq(ToolCalls) /\ results \in Seq(Results) /\ Len(results) <= Len(calls)
    BY <1>2, Zenon DEF TypeInv, TypeOK
  <2>2. Len(results) \in Nat /\ Len(calls) \in Nat /\ (pc = "run" => Len(results) # Len(calls))
    <3>1. pc = "run" => Len(results) # Len(calls)
      BY <1>2, Zenon DEF TypeInv, BatchDone
    <3>2. QED
      BY <2>1, <3>1
  <2>3. QED
    BY <2>1, <2>2 DEF CallsLeft
<1>3. QED
  BY <1>1, <1>2, Phases

\* A conversation takes finitely many steps, whatever the model keeps asking for
\* and whichever tools fail: Generate has no loop that does not use up a turn or
\* a call (the loops of Generate and executeToolCalls, toolchat.go).
THEOREM ConversationsEnd == Spec => ComesToAnEnd
<1>1. ASSUME TypeInv, TypeInv', [Next]_vars, vars' # vars
      PROVE  \/ Shrinks
             \/ UNCHANGED <<TurnsLeft, Phase, CallsLeft>> /\ ~canceled /\ canceled'
  <2>0. ASSUME \/ pc = "prepare" /\ pc' \in {"turn", "done"}
               \/ pc = "turn" /\ pc' \in {"template", "done"}
               \/ pc = "template" /\ pc' \in {"predict", "done"}
               \/ pc = "predict" /\ pc' \in {"call", "done"}
               \/ pc \in {"call", "run"} /\ pc' = "done"
        PROVE  Phase' < Phase
    <3>1. /\ pc' = "turn" => Phase' = 4
          /\ pc' = "template" => Phase' = 3
          /\ pc' = "predict" => Phase' = 2
          /\ pc' = "call" => Phase' = 1
          /\ pc' = "done" => Phase' = 0
      BY DEF Phase
    <3>2. QED
      BY <2>0, <3>1, Phases
  <2>1. ASSUME config' = config, turn' = turn PROVE TurnsLeft' = TurnsLeft
    BY <2>1, Zenon DEF TurnsLeft, maxTurns
  <2>2. ASSUME config' = config, turn' = turn, Phase' < Phase PROVE Shrinks
    BY <2>1, <2>2 DEF Shrinks
  <2>3. CASE Prepare
    <3>1. pc = "prepare" /\ pc' \in {"turn", "done"} /\ config' = config /\ turn' = turn
      BY <2>3, Zenon DEF Prepare, Return
    <3>2. QED
      BY <2>0, <2>2, <3>1
  <2>4. CASE Cancel
    <3>1. UNCHANGED <<TurnsLeft, Phase, CallsLeft>>
      BY <2>4, Zenon DEF Cancel, TurnsLeft, maxTurns, Phase, CallsLeft
    <3>2. QED
      BY <2>4, <3>1 DEF Cancel
  <2>5. CASE BeginTurn
    <3>1. pc = "turn" /\ pc' \in {"template", "done"} /\ config' = config /\ turn' = turn
      BY <2>5, Zenon DEF BeginTurn, Return
    <3>2. QED
      BY <2>0, <2>2, <3>1
  <2>50. CASE ApplyTemplate
    <3>1. pc = "template" /\ pc' \in {"predict", "done"} /\ config' = config /\ turn' = turn
      BY <2>50, Zenon DEF ApplyTemplate, Return
    <3>2. QED
      BY <2>0, <2>2, <3>1
  <2>6. CASE PredictFails
    <3>1. pc = "predict" /\ pc' = "done" /\ config' = config /\ turn' = turn
      BY <2>6, Zenon DEF PredictFails, Return
    <3>2. QED
      BY <2>0, <2>2, <3>1
  <2>7. CASE Predict
    <3>1. pc = "predict" /\ pc' \in {"call", "done"} /\ config' = config /\ turn' = turn
      BY <2>7, Zenon DEF Predict, Final, StartCalls, Refuse, Return
    <3>2. QED
      BY <2>0, <2>2, <3>1
  <2>8. CASE SkipCall
    <3>1. pc = "call" /\ pc' = "done" /\ config' = config /\ turn' = turn
      BY <2>8, Zenon DEF SkipCall, Return
    <3>2. QED
      BY <2>0, <2>2, <3>1
  <2>80. CASE EnterCall
    <3>1. /\ pc = "call" /\ pc' = "run" /\ ~BatchDone
          /\ UNCHANGED <<config, turn, calls, results>>
      BY <2>80, Zenon DEF EnterCall
    <3>2. calls \in Seq(ToolCalls) /\ results \in Seq(Results)
      BY <1>1, Zenon DEF TypeInv, TypeOK
    <3>3. CallsLeft' < CallsLeft
      BY <3>1, <3>2 DEF CallsLeft
    <3>4. Phase' = 1 /\ Phase = 1
      BY <3>1 DEF Phase
    <3>5. QED
      BY <2>1, <3>1, <3>3, <3>4 DEF Shrinks
  <2>9. CASE RunCall
    <3>1. pc = "run" /\ config' = config /\ turn' = turn /\ calls' = calls
      BY <2>9, Zenon DEF RunCall
    <3>2. CASE pc' = "done"
      BY <2>0, <2>2, <3>1, <3>2
    <3>3. CASE pc' # "done"
      <4>1. PICK r : results' = Append(results, r) /\ pc' = "call"
        BY <2>9, <3>3, Zenon DEF RunCall, Return, WithResult
      <4>2. /\ results \in Seq(Results) /\ results' \in Seq(Results)
            /\ calls \in Seq(ToolCalls)
        BY <1>1, Zenon DEF TypeInv, TypeOK
      <4>3. Len(results') = Len(results) + 1
        BY <4>1, <4>2, AppendProperties
      <4>4. CallsLeft' < CallsLeft
        <5>1. pc' # "run" /\ Len(results) \in Nat /\ Len(calls) \in Nat
          BY <4>1, <4>2
        <5>2. QED
          BY <3>1, <4>3, <5>1 DEF CallsLeft
      <4>5. TurnsLeft' = TurnsLeft /\ Phase' = Phase
        <5>1. Phase' = 1 /\ Phase = 1
          BY <3>1, <4>1 DEF Phase
        <5>2. QED
          BY <2>1, <3>1, <5>1, Zenon
      <4>6. QED
        BY <4>4, <4>5 DEF Shrinks
    <3>4. QED
      BY <3>2, <3>3
  <2>10. CASE EndTurn
    <3>1. turn \in 0..maxTurns /\ maxTurns \in Nat \ {0}
      BY <1>1, MaxTurnsPositive, Zenon DEF TypeInv, TypeOK
    <3>2. maxTurns' = maxTurns /\ turn' = turn + 1
      BY <2>10, Zenon DEF EndTurn, maxTurns
    <3>3. TurnsLeft' < TurnsLeft
      BY <3>1, <3>2 DEF TurnsLeft
    <3>4. QED
      BY <3>3 DEF Shrinks
  <2>11. QED
    BY <1>1, <2>3, <2>4, <2>5, <2>50, <2>6, <2>7, <2>8, <2>80, <2>9, <2>10 DEF Next, Step
<1>2. TypeInv => TurnsLeft \in Nat /\ Phase \in Nat /\ CallsLeft \in Nat
  BY CountsAreNat
<1>3. ASSUME TypeInv, TypeInv', [Next]_vars, vars' # vars,
             TurnsLeft \in Nat /\ Phase \in Nat /\ CallsLeft \in Nat,
             TurnsLeft' \in Nat /\ Phase' \in Nat /\ CallsLeft' \in Nat
      PROVE  Progresses
  <2>1. {TurnsLeft, TurnsLeft', Phase, Phase', CallsLeft, CallsLeft'} \subseteq Nat
    BY <1>3, Zenon
  <2>2. QED
    BY <1>1, <1>3, <2>1, Zenon DEF Progresses
<1>4. /\ TypeInv /\ TypeInv' /\ [Next]_vars
      /\ TurnsLeft \in Nat /\ Phase \in Nat /\ CallsLeft \in Nat
      /\ (TurnsLeft \in Nat /\ Phase \in Nat /\ CallsLeft \in Nat)'
      => [Progresses]_vars
  BY <1>3, Zenon
<1>5. QED
  BY <1>2, <1>4, TypeInit, TypeStep, PTL DEF Spec, ComesToAnEnd
=============================================================================
