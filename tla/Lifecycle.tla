----------------------------- MODULE Lifecycle -----------------------------
(***************************************************************************)
(* What a handle holds (binding.cpp, llama.go): New acquires a model, a    *)
(* context, adapters and a projector one after the other, each call        *)
(* allocates its arguments, messages and results, and every one of their   *)
(* error returns has to release what was acquired by then.                 *)
(*                                                                         *)
(* "live" counts what has been allocated and not released.  The calls are  *)
(* taken one at a time: they have no allocation in common but the handle's *)
(* (how they interleave is in LLama).  A failed malloc is modelled where   *)
(* the code handles it.                                                    *)
(***************************************************************************)
EXTENDS Options

CONSTANTS
    ModelChoices,    \* the lists of options New is called with
    PredictChoices,  \* the lists of options the other methods are called with
    MaxMessages      \* bound: messages given to ApplyChatTemplate

ASSUME ChoicesAssumption ==
    /\ MaxMessages \in Nat
    /\ \A opts \in PredictChoices : AreOptions(opts)

Kind == {"model", "ctx", "binding", "adapter", "mtmd",
         "argument", "params", "message", "result",
         "bitmap", "video", "chunks", "sampler", "batch"}

VARIABLES
    live,     \* how many of each kind are allocated
    handle,   \* l.state: "none" before New, "open", "freed" (nil)
    binding,  \* the members of llama_binding_state that New fills in
    call,     \* the call in progress: its options and local variables
    pc        \* where it is
vars == <<live, handle, binding, call, pc>>

NoCall == [op |-> "none", opts |-> <<>>, biases |-> <<>>, arguments |-> 0, params |-> 0,
           failed |-> FALSE, cerr |-> 0, out |-> 0, bitmaps |-> 0, videos |-> 0]

None == [k \in Kind |-> 0]
OneOf(kinds) == [k \in Kind |-> IF k \in kinds THEN 1 ELSE 0]

Init ==
    /\ live = None
    /\ handle = "none"
    /\ binding = [adapters |-> 0, mtmd |-> 0]
    /\ call = NoCall
    /\ pc = "idle"

Allocate(kind) == live' = [live EXCEPT ![kind] = @ + 1]

\* set_binding_error, a release, and where the error leads.
FailTo(next, released) ==
    \E n \in 0..1 :
        /\ live' = [k \in Kind |-> live[k] + (IF k = "message" THEN n ELSE 0) - released[k]]
        /\ call' = [call EXCEPT !.failed = TRUE, !.cerr = n]
        /\ pc' = next
        /\ UNCHANGED <<handle, binding>>
Fail(released) == FailTo("return", released)

Goto(next) == pc' = next /\ UNCHANGED <<handle, binding, call>>

---------------------------------------------------------------------------
(* New and load_model *)

ModelOption(field) == NewModelOptions(call.opts)[field]

New ==
    /\ pc = "idle" /\ handle # "open"
    /\ \E opts \in ModelChoices :
         call' = [NoCall EXCEPT !.op = "New", !.opts = opts, !.arguments = 5]
    /\ live' = [live EXCEPT !.argument = @ + 5]
    /\ handle' = "none" /\ pc' = "devices" /\ UNCHANGED binding

BadDevices == "bad" \in {ModelOption("TensorSplit"), ModelOption("MainGPU")}
ParseDevices ==
    /\ pc = "devices"
    /\ IF BadDevices THEN Fail(None)
       ELSE Goto("model") /\ UNCHANGED live

LoadModel ==
    /\ pc = "model"
    /\ Fail(None) \/ (Allocate("model") /\ Goto("context"))

InitContext ==
    /\ pc = "context"
    /\ \/ Fail(OneOf({"model"}))
       \/ /\ live' = [live EXCEPT !.ctx = @ + 1, !.binding = @ + 1]
          /\ Goto("lora")

InitAdapter ==
    /\ pc = "lora"
    /\ IF ModelOption("LoraAdapter") = "" THEN Goto("mmproj") /\ UNCHANGED live
       ELSE \/ FailTo("free_mtmd", None)
            \/ /\ Allocate("adapter")
               /\ binding' = [binding EXCEPT !.adapters = @ + 1]
               /\ pc' = "apply" /\ UNCHANGED <<handle, call>>

ApplyAdapter ==
    /\ pc = "apply"
    /\ FailTo("free_mtmd", None) \/ (Goto("mmproj") /\ UNCHANGED live)

\* The path is one more C string; a failure makes New free the model.
MMProjPath ==
    /\ pc = "mmproj"
    /\ IF ModelOption("MMProj") = ""
       THEN /\ handle' = "open" /\ pc' = "return" /\ UNCHANGED <<live, binding, call>>
       ELSE /\ Allocate("argument")
            /\ call' = [call EXCEPT !.arguments = @ + 1]
            /\ pc' = "projector" /\ UNCHANGED <<handle, binding>>

LoadMMProj ==
    /\ pc = "projector"
    /\ \/ FailTo("free_mtmd", None)
       \/ /\ Allocate("mtmd")
          /\ binding' = [binding EXCEPT !.mtmd = 1]
          /\ handle' = "open" /\ pc' = "return" /\ UNCHANGED call

---------------------------------------------------------------------------
(* Free and llama_binding_free_model *)

Free ==
    /\ pc = "idle" /\ handle # "none"
    /\ call' = [NoCall EXCEPT !.op = "Free"]
    /\ pc' = IF handle = "open" THEN "free_mtmd" ELSE "return"
    /\ UNCHANGED <<live, handle, binding>>

Release(kind, n, next) ==
    live' = [live EXCEPT ![kind] = @ - n] /\ Goto(next)

FreeMtmd == pc = "free_mtmd" /\ Release("mtmd", binding.mtmd, "free_context")

\* Mutant: the model goes first.
AfterContextModel == "free_model"
AfterContext == "free_adapters"
FreeContext == pc = "free_context" /\ Release("ctx", 1, AfterContext)
FreeAdapters == pc = "free_adapters" /\ Release("adapter", binding.adapters, "free_model")
FreeModel == pc = "free_model" /\ Release("model", 1, "free_binding")

DeleteBinding ==
    /\ pc = "free_binding"
    /\ live' = [live EXCEPT !.binding = @ - 1]
    /\ binding' = [adapters |-> 0, mtmd |-> 0]
    /\ handle' = IF call.op = "Free" THEN "freed" ELSE handle
    /\ pc' = "return" /\ UNCHANGED call

---------------------------------------------------------------------------
(* Methods with prediction options *)

PredictOption(field) == NewPredictOptions(call.opts)[field]

\* newCPredictParams: the C strings and, last, llama_allocate_params.
\* extra: what the method itself allocates for C.
WithParams(op, opts, extra) ==
    LET po == NewPredictOptions(opts)
    IN  /\ live' = [live EXCEPT !.argument = @ + StringsOf(po) + extra, !.params = @ + 1]
        /\ call' = [NoCall EXCEPT !.op = op, !.opts = opts, !.params = 1,
                                  !.arguments = StringsOf(po) + extra,
                                  !.biases = parse_logit_biases(formatLogitBias(po))]
        /\ pc' = "enter"
        /\ UNCHANGED <<handle, binding>>

\* The other methods pass no media files on.
MediaStrings(op, opts) == IF op = "Predict" THEN Len(NewPredictOptions(opts).MediaPaths) ELSE 0

CallWithParams ==
    /\ pc = "idle" /\ handle # "none"
    /\ \E op \in {"Predict", "Eval", "TokenizeString"}, opts \in PredictChoices :
         WithParams(op, opts, MediaStrings(op, opts))

\* embeddingSize fails before anything is allocated when l.state is nil.
\* TokenEmbeddings allocates an array of its tokens.
CallEmbeddings ==
    /\ pc = "idle" /\ handle = "open"
    /\ \E opts \in PredictChoices :
         WithParams("Embeddings", opts, 0) \/ WithParams("TokenEmbeddings", opts, 1)

\* llama_tokenize_string reports no message.
FailSilently ==
    call' = [call EXCEPT !.failed = TRUE] /\ pc' = "return" /\ UNCHANGED <<live, handle, binding>>

Enter ==
    /\ pc = "enter" /\ call.op # "TokenizeString"
    /\ IF handle # "open" THEN Fail(None)
       ELSE IF call.op = "Predict" /\ PredictOption("MediaPaths") # <<>>
       THEN IF binding.mtmd = 0 THEN Fail(None) ELSE Goto("media") /\ UNCHANGED live
       ELSE /\ Goto(CASE call.op = "Predict" -> "prompt" [] call.op = "Eval" -> "eval" [] OTHER -> "batch")
            /\ UNCHANGED live

EnterTokenize ==
    /\ pc = "enter" /\ call.op = "TokenizeString"
    /\ FailSilently \/ (handle = "open" /\ Goto("return") /\ UNCHANGED live)

\* The prompt or the text does not fit, or does not decode.
DecodePrompt ==
    /\ pc \in {"prompt", "eval"}
    /\ Fail(None) \/ (Goto(IF pc = "prompt" THEN "sampler" ELSE "return") /\ UNCHANGED live)

InitBatch ==
    /\ pc = "batch"
    /\ Fail(None) \/ (Allocate("batch") /\ Goto("decode_batch"))

\* The batch goes before the result of the decode is looked at; the model may
\* then have no embeddings.
DecodeBatch ==
    /\ pc = "decode_batch"
    /\ Fail(OneOf({"batch"})) \/ Release("batch", 1, "return")

---------------------------------------------------------------------------
(* llama_predict_mtmd: release_media empties neither vector, so it must be *)
(* called once on every path.                                              *)

release_media == [k \in Kind |-> IF k = "bitmap" THEN call.bitmaps ELSE IF k = "video" THEN call.videos ELSE 0]

LoadBitmap ==
    /\ pc = "media" /\ call.bitmaps < Len(PredictOption("MediaPaths"))
    /\ \/ Fail(release_media)
       \/ \E video \in 0..1 :
            /\ live' = [live EXCEPT !.bitmap = @ + 1, !.video = @ + video]
            /\ call' = [call EXCEPT !.bitmaps = @ + 1, !.videos = @ + video]
            /\ UNCHANGED <<handle, binding, pc>>

InitChunks ==
    /\ pc = "media" /\ ~(call.bitmaps < Len(PredictOption("MediaPaths")))
    /\ Allocate("chunks") /\ Goto("tokenize_media")

ChunksAndMedia == [k \in Kind |-> release_media[k] + OneOf({"chunks"})[k]]

\* Mutant: the media stay when the number of markers is wrong.
OnlyChunks == OneOf({"chunks"})
OnTokenizeFailure == ChunksAndMedia
TokenizeMedia ==
    /\ pc = "tokenize_media"
    /\ Fail(OnTokenizeFailure) \/ (Goto("eval_chunks") /\ UNCHANGED live)

\* Mutant: the media are released a second time when the evaluation fails.
MediaTwice == [k \in Kind |-> ChunksAndMedia[k] + release_media[k]]
OnEvalFailure == ChunksAndMedia
EvalChunks ==
    /\ pc = "eval_chunks"
    /\ \/ Fail(OnEvalFailure)
       \/ /\ live' = [k \in Kind |-> live[k] - ChunksAndMedia[k]]
          /\ Goto("sampler")

---------------------------------------------------------------------------
(* create_sampler, generate_tokens and copy_result_string, for text and    *)
(* media alike; then the methods that only have a result.                  *)

CreateSampler ==
    /\ pc = "sampler"
    /\ Allocate("sampler") /\ Goto("grammar")

AddGrammar ==
    /\ pc = "grammar"
    /\ IF PredictOption("Grammar") = "bad" THEN Fail(OneOf({"sampler"}))
       ELSE Goto("generate") /\ UNCHANGED live

GenerateTokens ==
    /\ pc = "generate"
    /\ Fail(OneOf({"sampler"})) \/ Release("sampler", 1, "result")

CopyResult ==
    /\ pc = "result"
    /\ \/ FailSilently
       \/ /\ Allocate("result")
          /\ call' = [call EXCEPT !.out = 1]
          /\ pc' = "return" /\ UNCHANGED <<handle, binding>>

\* ModelInfo, Detokenize and ApplyChatTemplate check l.state first.
CallInfo ==
    /\ pc = "idle" /\ handle = "open"
    /\ \E n \in 0..MaxMessages :
         /\ live' = [live EXCEPT !.argument = @ + 2 * n]
         /\ call' = [NoCall EXCEPT !.op = "Info", !.arguments = 2 * n]
    /\ pc' = "result" /\ UNCHANGED <<handle, binding>>

\* SaveState and LoadState: a path and a mode.
CallState ==
    /\ pc = "idle" /\ handle # "none"
    /\ live' = [live EXCEPT !.argument = @ + 2]
    /\ call' = [NoCall EXCEPT !.op = "State", !.arguments = 2]
    /\ pc' = "state" /\ UNCHANGED <<handle, binding>>

SaveOrLoad ==
    /\ pc = "state"
    /\ FailSilently \/ (handle = "open" /\ Goto("return") /\ UNCHANGED live)

\* The Go side returns: deferred frees run, a message is copied and freed by
\* bindingError, a result after a success.
Return ==
    /\ pc = "return"
    /\ live' = [live EXCEPT !.argument = @ - call.arguments, !.params = @ - call.params,
                            !.message = IF call.failed THEN @ - call.cerr ELSE @,
                            !.result = IF call.failed THEN @ ELSE @ - call.out]
    /\ call' = NoCall /\ pc' = "idle" /\ UNCHANGED <<handle, binding>>

Next ==
    \/ New \/ ParseDevices \/ LoadModel \/ InitContext \/ InitAdapter \/ ApplyAdapter
    \/ MMProjPath \/ LoadMMProj
    \/ Free \/ FreeMtmd \/ FreeContext \/ FreeAdapters \/ FreeModel \/ DeleteBinding
    \/ CallWithParams \/ CallEmbeddings \/ Enter \/ EnterTokenize \/ DecodePrompt \/ InitBatch \/ DecodeBatch
    \/ LoadBitmap \/ InitChunks \/ TokenizeMedia \/ EvalChunks
    \/ CreateSampler \/ AddGrammar \/ GenerateTokens \/ CopyResult
    \/ CallInfo \/ CallState \/ SaveOrLoad \/ Return
Spec == Init /\ [][Next]_vars

---------------------------------------------------------------------------
Steps == {"idle", "devices", "model", "context", "lora", "apply", "mmproj", "projector",
          "free_mtmd", "free_context", "free_adapters", "free_model", "free_binding",
          "enter", "prompt", "eval", "batch", "decode_batch", "media", "tokenize_media", "eval_chunks",
          "sampler", "grammar", "generate", "result", "state", "return"}

\* Nothing is released more often than it was allocated.
TypeOK ==
    /\ live \in [Kind -> Nat]
    /\ handle \in {"none", "open", "freed"}
    /\ binding \in [adapters : 0..1, mtmd : 0..1]
    /\ call.arguments \in Nat /\ call.bitmaps \in Nat /\ call.videos \in Nat
    /\ call.params \in 0..1 /\ call.cerr \in 0..1 /\ call.out \in 0..1 /\ call.failed \in BOOLEAN
    /\ pc \in Steps

\* Between calls exactly the open handle's own objects are allocated: whichever
\* step of New, of a prediction with media or of any other call failed, what it
\* had acquired by then has been released, and Free leaves nothing.
NothingLeaks ==
    pc = "idle" =>
        \A k \in Kind : live[k] =
            IF handle # "open" THEN 0
            ELSE IF k \in {"model", "ctx", "binding"} THEN 1
            ELSE IF k = "adapter" THEN binding.adapters
            ELSE IF k = "mtmd" THEN binding.mtmd
            ELSE 0

\* No object outlives what it points into: contexts, adapters and projectors
\* their model, a context its adapters, media and chunks the projector, a
\* sampler, a batch and a call inside C the context.
ParentsLive ==
    /\ live["ctx"] + live["adapter"] + live["mtmd"] > 0 => live["model"] = 1
    /\ live["ctx"] > 0 => live["adapter"] = binding.adapters
    /\ live["bitmap"] + live["video"] + live["chunks"] > 0 => live["mtmd"] = 1
    /\ live["sampler"] + live["batch"] > 0 \/ pc \in {"prompt", "eval", "media", "result"} => live["ctx"] = 1

\* The biases a call was given by its options: those of the last text, and all
\* that were added as tokens.
Given(opts) ==
    LET texts == {i \in DOMAIN opts : opts[i].field = "LogitBias"}
        last == {i \in texts : \A j \in texts : j <= i}
    IN  UNION {ToSet(opts[i].value) :
                  i \in last \cup {j \in DOMAIN opts : opts[j].field = "LogitBiases"}}

\* Each bias that can be read and whose id a llama_token can hold reaches the
\* sampler on the id the caller named, whatever stands around it in the text;
\* and no other token is biased unless an id is too wide (the conversion wraps
\* those without an error, binding.cpp:268).
BiasesArrive ==
    call.params = 1 =>
        LET fits == {g \in Given(call.opts) : Readable(g) /\ g.id <= IntMax}
            wide == {g \in Given(call.opts) : Readable(g) /\ g.id > IntMax}
        IN  /\ fits \subseteq ToSet(call.biases)
            /\ wide = {} => ToSet(call.biases) \subseteq fits
=============================================================================
