------------------------------ MODULE Generate ------------------------------
(***************************************************************************)
(* One generation: the loop of generate_tokens (binding.cpp) from the      *)
(* moment the prompt is in memory, and what Predict (llama.go) makes of    *)
(* its text.  Each token is sampled, shown to the token callback, searched *)
(* for stop words, given room (shifting the context when it is full) and   *)
(* decoded; the loop ends on the first step that says so.                  *)
(***************************************************************************)
EXTENDS KVMemory, StopWords, SequencesExt

CONSTANTS
    Token,          \* tokens that continue the text
    Eog,            \* the end-of-generation token
    Char,           \* characters
    Piece,          \* the text of each token: [Token -> Seq(Char)]
    Stops,          \* stop words, a sequence of texts
    NCtx,           \* cells of the context (n_ctx)
    TextPrompts,    \* tokenized prompts of llama_predict
    MediaPrompts,   \* [mem, n_past] left by mtmd_helper_eval_chunks
    TokensOptions,  \* values of the Go option Tokens
    NKeeps,         \* values of the option n_keep
    Unlimited,      \* the budget Tokens = 0 stands for (99999999 in the code)
    DefaultBudget,  \* the budget of a negative Tokens (128 in the code)
    CanShift,       \* llama_memory_can_shift
    DecodeMayFail   \* whether llama_decode may fail with room left

ASSUME ContextAssumption == NCtx \in Nat \ {0}
ASSUME TokenAssumption == Eog \notin Token /\ Piece \in [Token -> Seq(Char)]
ASSUME StopsAssumption == Stops \in Seq(Seq(Char))
ASSUME PromptAssumption ==
    /\ \A p \in TextPrompts : p \in Seq(Token) /\ Len(p) \in 1..NCtx - 1
    /\ \A p \in MediaPrompts : IsFiniteSet(p.mem) /\ p.n_past \in Nat
ASSUME OptionAssumption ==
    /\ NKeeps \subseteq Int /\ TokensOptions \subseteq Int
    /\ Unlimited \in Nat \ {0} /\ DefaultBudget \in Nat \ {0}
    /\ CanShift \in BOOLEAN /\ DecodeMayFail \in BOOLEAN

VARIABLES
    mem,              \* the attention memory
    n_past,           \* the loop's count of positions used
    i,                \* loop counter
    token,            \* the token sampled last
    output,           \* text generated so far
    appended_from,    \* length of output before the last piece
    streamed,         \* everything the token callback has been shown
    session_tokens,   \* prompt and decoded tokens (text prompts only)
    context_shifted,
    request,          \* [n_keep, n_predict, allow_shift], fixed for the call
    pc,
    why,              \* what ended the loop
    result            \* the text Predict returns

gen == <<mem, n_past, session_tokens, context_shifted>>
text == <<output, appended_from, streamed>>
vars == <<gen, text, i, token, request, pc, why, result>>

---------------------------------------------------------------------------
\* Mutant: the option reaches the loop as it is.
BudgetAsGiven(tokens) == tokens

\* Tokens = 0 asks for Unlimited in Go, anything else below 1 for the default in C.
Budget(tokens) ==
    CASE tokens = 0 -> Unlimited
      [] tokens < 0 -> DefaultBudget
      [] OTHER      -> tokens

\* Tokens at the start that a shift of a context of `past` tokens keeps.
KeepOf(n_keep, past) ==
    LET least == IF n_keep < past - 1 THEN n_keep ELSE past - 1
    IN  IF least > 0 THEN least ELSE 0

\* Mutant: a quarter is discarded, which may be nothing.
DiscardQuarter(n_keep, past) == (past - KeepOf(n_keep, past)) \div 4

\* Mutant: everything after n_keep is discarded.
DiscardAll(n_keep, past) == past - KeepOf(n_keep, past)

DiscardOf(n_keep, past) == (past - KeepOf(n_keep, past)) \div 2

Options(allow_shift) ==
    [n_keep : NKeeps, n_predict : {Budget(t) : t \in TokensOptions}, allow_shift : {allow_shift}]

\* llama_predict has decoded a text prompt; the context may be shifted.
FromText ==
    \E p \in TextPrompts :
        /\ mem = Linear(p) /\ n_past = Len(p) /\ session_tokens = p
        /\ request \in Options(TRUE)

\* llama_predict_mtmd has decoded the chunks of a prompt with images or audio.
FromMedia ==
    \E p \in MediaPrompts :
        /\ mem = p.mem /\ n_past = p.n_past /\ session_tokens = <<>>
        /\ request \in Options(FALSE)

Init ==
    /\ FromText \/ FromMedia
    /\ i = 0 /\ token = Eog
    /\ output = <<>> /\ appended_from = 0 /\ streamed = <<>>
    /\ context_shifted = FALSE
    /\ pc = "sample" /\ why = "running" /\ result = <<>>

End(reason) ==
    /\ pc' = "end" /\ why' = reason
    /\ UNCHANGED <<gen, i, token, request, result>>

BudgetSpent ==
    /\ pc = "sample" /\ i >= request.n_predict
    /\ End("budget") /\ UNCHANGED text

SampleEog ==
    /\ pc = "sample" /\ i < request.n_predict
    /\ End("eog") /\ UNCHANGED text

Sample ==
    /\ pc = "sample" /\ i < request.n_predict
    /\ \E t \in Token :
         /\ token' = t
         /\ output' = output \o Piece[t]
    /\ appended_from' = Len(output)
    /\ pc' = "callback"
    /\ UNCHANGED <<gen, i, streamed, request, why, result>>

\* The token callback returns false: the loop ends before any stop-word search.
CallbackDeclines ==
    /\ pc = "callback"
    /\ streamed' = streamed \o Piece[token]
    /\ End("declined") /\ UNCHANGED <<output, appended_from>>

CallbackAccepts ==
    /\ pc = "callback"
    /\ streamed' = streamed \o Piece[token]
    /\ pc' = "scan"
    /\ UNCHANGED <<gen, i, token, output, appended_from, request, why, result>>

stop_pos == find_stop_position(output, appended_from, Stops)

StopFound ==
    /\ pc = "scan" /\ stop_pos # NPos
    /\ output' = SubSeq(output, 1, stop_pos)
    /\ End("stop") /\ UNCHANGED <<appended_from, streamed>>

\* Mutant: the room check lets the context run full.
HasRoomForMore == n_past <= NCtx
HasRoom == n_past + 1 < NCtx

MayShift == /\ request.allow_shift /\ CanShift
            /\ DiscardOf(request.n_keep, n_past) > 0

\* Mutant: the tokens after the discarded ones are not moved.
SlidWithHole(n_keep, n_discard) == SeqRm(mem, n_keep, n_keep + n_discard)

\* The memory after the shift: n_discard tokens after n_keep are gone, those
\* behind them moved down.
Slid(n_keep, n_discard) ==
    SeqAdd(SeqRm(mem, n_keep, n_keep + n_discard), n_keep + n_discard, n_past, -n_discard)

NoStop(next) ==
    /\ pc = "scan" /\ stop_pos = NPos
    /\ pc' = next
    /\ UNCHANGED <<text, i, token, request, result>>

RoomLeft ==
    /\ HasRoom
    /\ NoStop("decode") /\ UNCHANGED <<gen, why>>

ContextShift ==
    LET n_keep == KeepOf(request.n_keep, n_past)
        n_discard == DiscardOf(request.n_keep, n_past)
    IN  /\ ~HasRoom /\ MayShift
        /\ mem' = Slid(n_keep, n_discard)
        /\ n_past' = n_past - n_discard
        /\ context_shifted' = TRUE
        /\ NoStop("decode") /\ UNCHANGED <<session_tokens, why>>

ContextFull ==
    /\ ~HasRoom /\ ~MayShift
    /\ why' = "full"
    /\ NoStop("end") /\ UNCHANGED gen

\* Mutant: the decoded token is not recorded.
SessionAsBefore == session_tokens
SessionAfterDecode ==       \* session_tokens is nullptr for media prompts
    IF request.allow_shift THEN Append(session_tokens, token) ELSE session_tokens

\* llama_decode finds a free cell, the loop counts the position.
Decode ==
    /\ pc = "decode" /\ Cardinality(mem) < NCtx
    /\ mem' = Extended(mem, <<token>>)
    /\ n_past' = n_past + 1
    /\ session_tokens' = SessionAfterDecode
    /\ i' = i + 1 /\ pc' = "sample"
    /\ UNCHANGED <<context_shifted, text, token, request, why, result>>

\* Mutant: a token that could not be decoded is made up for by another one.
DecodeRetried ==
    /\ pc = "decode"
    /\ Cardinality(mem) >= NCtx \/ DecodeMayFail
    /\ pc' = "sample"
    /\ UNCHANGED <<gen, text, i, token, request, why, result>>

DecodeFails ==
    /\ pc = "decode"
    /\ Cardinality(mem) >= NCtx \/ DecodeMayFail
    /\ End("decode_error") /\ UNCHANGED text

\* Predict returns the cleaned text, or only an error.
Return ==
    /\ pc = "end" /\ pc' = "returned"
    /\ result' = IF why = "decode_error" THEN <<>> ELSE cleanPredictionResult(output, Stops)
    /\ UNCHANGED <<gen, text, i, token, request, why>>

Next ==
    \/ BudgetSpent \/ SampleEog \/ Sample
    \/ CallbackDeclines \/ CallbackAccepts
    \/ StopFound \/ RoomLeft \/ ContextShift \/ ContextFull
    \/ Decode \/ DecodeFails \/ Return

Spec == Init /\ [][Next]_vars

\* The loop is straight-line code of one thread, and the callback returns:
\* whatever step is enabled is eventually taken.
FairSpec == Spec /\ WF_vars(Next)

---------------------------------------------------------------------------
TypeOK ==
    /\ n_past \in Nat /\ i \in 0..request.n_predict
    /\ token \in Token \cup {Eog}
    /\ output \in Seq(Char) /\ appended_from \in Nat /\ streamed \in Seq(Char)
    /\ session_tokens \in Seq(Token)
    /\ context_shifted \in BOOLEAN
    /\ request \in [n_keep : Int, n_predict : Nat \ {0}, allow_shift : BOOLEAN]
    /\ pc \in {"sample", "callback", "scan", "decode", "end", "returned"}
    /\ why \in {"running", "budget", "eog", "declined", "stop", "full", "decode_error"}

\* After any number of decodes and shifts, a text context holds one cell at
\* every position 0 .. n_past - 1 and no other: seq_rm, seq_add and the counter
\* of generate_tokens (binding.cpp:523-546) agree about what was discarded.
MemoryMatchesCounter == request.allow_shift => Dense(mem, n_past)

\* llama_decode is never asked for a cell the context does not have: the room
\* check in front of it is strong enough, so that without a shift "generation
\* stops gracefully at the context limit" (binding.cpp:491).
StopsGracefully == pc = "decode" => Cardinality(mem) < NCtx

\* While no shift happened, the memory is exactly the session tokens: the fact
\* llama_predict relies on when it saves both as one session (binding.cpp:995).
UnshiftedIsLinear ==
    request.allow_shift /\ ~context_shifted => mem = Linear(session_tokens)

\* The incremental search, which only looks around the last piece, stops at the
\* place where the first stop word occurs in the whole streamed text, and never
\* lets one pass: a text that was accepted and decoded contains none.
StopsAtFirst ==
    /\ why = "stop" => Len(output) = FirstStop(streamed, Stops)
    /\ pc = "decode" \/ why \in {"full", "budget", "eog"} => FirstStop(streamed, Stops) = NPos

\* Once a token passed the search, or the loop ended for any reason but a
\* declining callback, no stop word is left anywhere in the output.
NoStopInOutput ==
    pc \in {"decode", "end", "returned"} /\ why # "declined" => StopFree(output, Stops)

\* Predict returns what the token callback was shown, up to the first stop word in
\* it and no less: the cut of the loop and the trimming in Go do not add up to more.
\* Where the callback declined nothing was searched, and the end of the text may be
\* missing from one of its stop words on; a failed decode leaves only an error.
ResultWasStreamed ==
    pc = "returned" =>
        CASE why = "decode_error" -> result = <<>>
          [] why = "declined"     -> result \in BeforeSomeStop(streamed, Stops)
          [] OTHER                -> result = BeforeFirstStop(streamed, Stops)

\* The context limit ends a text generation only when there is nothing to
\* discard: the memory cannot shift, or n_keep covers the context.
FullOnlyWithoutShift ==
    why = "full" /\ request.allow_shift => ~CanShift \/ request.n_keep >= NCtx - 2

\* A text context as the sliding window sees it; a media context is left out,
\* an empty window that nothing happens to.
Seen(s) == IF request.allow_shift THEN s ELSE <<>>
Window == INSTANCE SlidingWindow WITH
    Tok <- Token, Size <- NCtx, window <- Seen(Contents(mem)), history <- session_tokens,
    keep <- KeepOf(request.n_keep, NCtx - 1)

\* generate_tokens implements the sliding window: a decode appends to what the
\* model attends to, a shift forgets the middle of it, and only when it is full.
WindowSpec == Window!Spec

\* Every generation comes to an end and Predict returns.
Returns == <>(pc = "returned")

=============================================================================
