------------------------------ MODULE Envelope ------------------------------
(***************************************************************************)
(* The JSON protocol of toolchat.go: what parseEnvelope makes of a model's *)
(* output, and which outputs the grammar of EnvelopeGrammar lets through.  *)
(* An output is a record of the fields the parser reads; absent fields are *)
(* "", <<>> or "absent", as they are for encoding/json.                    *)
(*                                                                         *)
(*   ok        a JSON object of the right field types was found in it      *)
(*   content   whether "content" is not empty                              *)
(*   calls     the "tool_calls" array                                      *)
(*                                                                         *)
(* An id is the pair <<turn, position>> of the string call_<turn>_<pos>,   *)
(* <<>> for the empty string, and any other sequence for any other string. *)
(***************************************************************************)
EXTENDS Integers, Sequences

CONSTANT Strings     \* what names, types and roles are taken from

ASSUME StringsAssumption ==
    {"", "final", "tool_call", "error", "system", "user", "assistant"} \subseteq Strings

NoFunction == [name |-> "", args |-> "absent"]
Call(id, name, tool, function, args) ==
    [id |-> id, name |-> name, tool |-> tool, function |-> function, args |-> args]

ArgsKinds == {"absent", "null", "object", "quotedJSON", "quotedBlank", "quotedText"}
CallEnvelopes == [id : Seq(Nat), name : Strings, tool : Strings,
                  function : [name : Strings, args : ArgsKinds], args : ArgsKinds]
Outputs == [ok : BOOLEAN, type : Strings, content : BOOLEAN, tool : Strings, name : Strings,
            args : ArgsKinds, calls : Seq(CallEnvelopes)]

\* An output without a JSON object, or one cut short.
Broken == [ok |-> FALSE, type |-> "", content |-> FALSE, tool |-> "", name |-> "",
           args |-> "absent", calls |-> <<>>]

FirstOf(a, b) == IF a = "" THEN b ELSE a

---------------------------------------------------------------------------
\* normalizeArguments: nothing and blank text are {}, a string's content is JSON.
BadArguments(args) == args = "quotedText"
normalizeArguments(args) == IF args \in {"object", "quotedJSON"} THEN "object" ELSE "{}"

Named(r) == r.tool # "" \/ r.name # ""

\* A legacy object names one tool outside of the array.
CallsIn(r) == IF r.calls = <<>> /\ Named(r)
              THEN <<Call(<<>>, r.name, r.tool, NoFunction, r.args)>> ELSE r.calls

NameOf(call) == FirstOf(FirstOf(call.name, call.function.name), call.tool)
RawArgs(call) == IF call.args = "absent" THEN call.function.args ELSE call.args

ToolCalls == [id : Seq(Nat), name : Strings, args : {"{}", "object"}]

GoodCall(call) == NameOf(call) # "" /\ ~BadArguments(RawArgs(call))
normalizeToolCalls(r) ==
    [i \in DOMAIN CallsIn(r) |-> [id   |-> CallsIn(r)[i].id,
                                  name |-> NameOf(CallsIn(r)[i]),
                                  args |-> normalizeArguments(RawArgs(CallsIn(r)[i]))]]

TypeOf(r) == FirstOf(r.type, IF Named(r) \/ r.calls # <<>> THEN "tool_call"
                             ELSE IF r.content THEN "final" ELSE "")

\* The envelope parseEnvelope returns; type "error" stands for its errors.
parseEnvelope(r) ==
    LET calls == IF TypeOf(r) = "tool_call" THEN normalizeToolCalls(r) ELSE <<>>
        good == \/ TypeOf(r) = "final"
                \/ TypeOf(r) = "tool_call" /\ CallsIn(r) # <<>>
                   /\ \A i \in DOMAIN CallsIn(r) : GoodCall(CallsIn(r)[i])
    IN  IF r.ok /\ good THEN [type |-> TypeOf(r), calls |-> calls]
                        ELSE [type |-> "error", calls |-> <<>>]

---------------------------------------------------------------------------
\* The root rule: which kinds of envelope the grammar generates.
Kinds(tools, choice) ==
    IF choice = "required" THEN {"tool_call"}
    ELSE IF choice = "auto" /\ tools # {} THEN {"final", "tool_call"} ELSE {"final"}

\* tool-call-item: a name and arguments, never an id; schemas are of objects.
Item(call, tools) == call.name \in tools /\ call = Call(<<>>, call.name, "", NoFunction, "object")

\* An output that is not cut short by the token limit is in the grammar.
Allowed(r, tools, kinds) ==
    r.ok => /\ r.type \in kinds /\ ~Named(r) /\ r.args = "absent"
            /\ IF r.type = "final" THEN r.calls = <<>>
               ELSE /\ ~r.content /\ r.calls # <<>>
                    /\ \A i \in DOMAIN r.calls : Item(r.calls[i], tools)
=============================================================================
