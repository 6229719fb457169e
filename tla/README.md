# A TLA+ model of go-llama.cpp

go-llama.cpp binds llama.cpp to Go: `llama.go`, `options.go` and `pool.go` are
the Go side, `binding.cpp` the C++ side behind cgo, `toolchat/` a conversation
layer with tool calls.  llama.cpp itself is a submodule and not part of the
repository; where the binding depends on it, it is modelled from how the binding
uses it.

## 1. Inventory

| component | state | operations | what is hard about it |
|---|---|---|---|
| stop words (`find_stop_position`, `cleanPredictionResult`) | none | search around the last piece, trim a suffix | a stop word spans pieces, overlaps others, is longer than the text |
| generation loop (`generate_tokens`) | attention memory, `n_past`, output, session tokens | sample, callback, search, shift, decode | positions, counter and session must agree after any number of shifts; five reasons to stop in a fixed order; must end |
| prompt cache (`llama_predict`) | memory and logits of the context, session file | load, compare, drop the tail, decode the rest, save at two points | whatever earlier calls, failures and crashes left in memory or in the file must not reach the next prediction |
| LLama handle (`llama.go`) | `l.state`, `l.mu` | Predict, Eval, Embeddings, SaveState, LoadState, Free, ... | goroutines share handles; Free against everything else |
| callback registry (`llama.go`) | global map from context address to callback, RWMutex `m` | setCallback, tokenCallback | written outside `l.mu`, keyed by an address that is reused, read-locked while user code runs |
| pool (`pool.go`) | table of models, RWMutex | Load, Get, Predict, Embeddings, Remove, Free | a slow load between two critical sections |
| media prompts (`llama_predict_mtmd`) | bitmaps, chunks, memory | load, tokenize, evaluate, generate | two vectors freed by hand on each path; positions that cannot be shifted |
| embeddings, Eval, SaveState, LoadState | memory, logits, embedding mode | one decode, one file | what they leave for the next prediction, and in malloc's heap on an error |
| model loading and release (`load_model`, `New`, `Free`) | model, context, adapters, projector | acquire one after the other, release on error and in `Free` | failure at any step: nothing lost, nothing twice, no child without its parent |
| tool conversation (`toolchat.go`) | transcript, results, counters | rounds of prompt, parse, validate, execute | partial results, id collisions, round limits |
| schema grammar (`schema_grammar.go`, `EnvelopeGrammar`) | rules, names, references of one schema | JSON schema to GBNF, keyword by keyword | the grammar must admit what the schema admits; sanitized names clash; recursive definitions |
| options (`options.go`, parsers in `binding.cpp`) | option records | set, append, format, parse | which of two entries wins; text that cannot be read; narrowing of ids |
| tokenization, chat templates, model info | none | conversions | what they allocate, and that they take no lock |

How they interact.  `Predict` (Go) registers a callback in the registry, takes
`l.mu` and calls `llama_predict`, which works on session file and memory and then
calls `generate_tokens`; that calls `tokenCallback` (Go) for each token, which
calls the user's function.  `cleanPredictionResult` treats the text on the way
back.  `Pool` calls `New`, `Predict`, `Embeddings` and `Free` of handles without
holding its own lock.  `toolchat` calls `Predict` and nothing below it.

## 2. The modules

    StopWords            KVMemory             SlidingWindow
        \                 /     \               ^ (implemented by)
         +-- Generate ---+ . . . + . . . . . . .+
                                  \
                                PromptCache       LLama       Pool

    Envelope --- ToolRunner       SchemaGrammar

    Options --- Lifecycle

**StopWords** has the search and the trimming as operators on sequences of
characters with 0-based offsets, as in `std::string`.  `SearchFrom` is the
`from` of the C++ loop, `Earliest(Hits(...))` its running minimum.  `StopFree`
and `FirstStop` are reference definitions over the whole text.

**KVMemory** is the attention memory: cells with a position and a token, and the
llama.cpp calls that the binding makes on it (external).

**Generate** is one run of `generate_tokens`.  `pc` follows the body of the
`for` loop: `sample` (budget, end token, append the piece), `callback`, `scan`
(stop words, then the room check with the context shift), `decode`, and `end`
with the reason in `why`; `Return` is what `Predict` makes of the text.  Sampling,
the callback's answer and decode failures are free choices.  A text prompt starts
it with a dense memory and `allow_shift`, a media prompt with whatever cells its
chunks filled and no shift, as the two callers do.

**SlidingWindow** says what the context shift promises, without positions or
counters.  `Generate` implements it: `Window == INSTANCE SlidingWindow WITH
window <- Contents(mem), ...`, checked as the property `WindowSpec` and proved as
theorem `ImplementsWindow`.  Mapping: a decode is a `Push`, a shift is a `Forget`, everything else stutters.

**PromptCache** is `llama_predict` call after call.  `FilesOf` says which session
files the calls on a context may name.  Every context keeps memory,
logits and embedding mode between calls; the locals of the call in progress are
in the same record.  `llama_state_load_file` and `llama_state_save_file` are two
and three steps, because the file may be torn or changed between them.  The
generation inside is `Push` and `Forget` of SlidingWindow with `n_keep = 0`,
which Generate is shown to implement.  `OtherCall` stands for Eval, Embeddings
and LoadState.  `Fail` is an error return, which leaves memory as it is; `Crash`
loses the contexts and keeps the files.

**LLama** is the Go wrapper: goroutines with the handles they use (`uses`).  A method is a sequence of the steps between which
another goroutine can come (`Program`), in the order of the source, deferred
calls included: `Predict` with a callback reads `l.state`, registers, reads
`l.state` again for the deferred removal, and only then locks.  A goroutine has a
stack of calls, so that a callback can call methods.  A handle can be born late
(`New`), at an address that another one left behind.  The RWMutex `m` has readers
and a pending writer that keeps new readers out, as in Go.

**Pool** has one action per critical section of `p.mu`, and one per `Free` of a
model outside it.

**Envelope** is the JSON protocol: `parseEnvelope` from the fields of a decoded
object to an envelope (legacy objects, OpenAI-style functions, types left out),
and `Allowed`, the outputs that the rules of `EnvelopeGrammar` generate.  An
output cut short by the token limit parses to an error, with the grammar too.

**ToolRunner** is `Runner.Generate`.  `pc` is `prepare`, `turn` (head of the
loop with its check of `ctx.Err()`), `template` (in `ApplyChatTemplate`), `predict`,
`call` (a call of the batch is looked at, and the context with it), `run` (its
function is about to be called) and `done` with the error in `err`.  Outputs,
template failures, failures of tools and results that are not JSON are free choices;
`Cancel` may come between any two steps, so also between a check and what it guards.
A cancellation while a function runs has the same effect as one after it.  `ran` and
`late` are history variables: the tool functions entered so far, and how many
predictions and tools were begun on a context that was canceled by then.

**SchemaGrammar** compiles the schemas of the tools as `EnvelopeGrammar` does, one
tool an action (`CompileTool`, or `FallBack` when the converter gives up), into
rules that are trees instead of text; the operators carry the names of the
converter's methods.  A rule name is the sequence of its dash-separated parts,
because names clash after sanitizing.  `SampleCall` lets the model sample any
document its tool's rules derive.  `Valid` is JSON Schema validation.  The
converter and JSON Schema do not agree; two operators name all of the difference.
`Narrowed` is what the converter adds to a schema: declared properties exclude
others, and `properties` or `items` without a type imply one.  `Loosened` is what it
leaves out: keywords beside the one that decides, the "one" of `oneOf`, `minItems`
beyond 1 or without `items`, required keys that are not declared, and everything
about an object that may have other keys.  `CoversSchema` and `SampledIsValid` say
that nothing else is lost in either direction; section 5 compares the two operators
with what the repository says.  The module is recursive and only model-checked.

**Options** has the option records, the setters that overwrite and those that
append, and the way of the logit biases: formatted with the text of
`SetLogitBias` first, parsed on the C side entry by entry, ids narrowed from a
`long` to a token.

**Lifecycle** extends Options with one handle and everything that is allocated for
it: `live` counts each kind of object.  `pc` walks through `New` and `load_model`,
`Free`, and the calls, with a failing alternative (`Fail`, `FailTo`,
`FailSilently`) wherever the code has an error return, and wherever the code
handles a failed malloc.  `FailTo` also chooses whether the message could be
allocated.  The calls run one at a time, since they share no allocation but the
handle's; what happens when they overlap is LLama's subject.

MC modules only fix constants; the modules named `...Proofs` hold the theorems.

Definitions commented "Mutant" are not part of any specification.  Each is a
plausible bug in the definition below it; with that definition replaced by the
mutant, TLC finds the named property violated.

| run | property | replaced | by |
|---|---|---|---|
| `generate` | `TypeOK` | `Generate.Budget` | `BudgetAsGiven` |
| `generate` | `MemoryMatchesCounter` | `Generate.Slid` | `SlidWithHole` |
| `generate` | `StopsGracefully` | `Generate.HasRoom` | `HasRoomForMore` |
| `generate` | `UnshiftedIsLinear` | `Generate.SessionAfterDecode` | `SessionAsBefore` |
| `generate` | `StopsAtFirst` | `StopWords.SearchFrom` | `SearchFromPiece` |
| `generate` | `NoStopInOutput` | `StopWords.find_stop_position` | `find_first_listed` |
| `generate` | `ResultWasStreamed` | `StopWords.cleanPredictionResult` | `cleanLeading` |
| `generate` | `FullOnlyWithoutShift` | `Generate.DiscardOf` | `DiscardQuarter` |
| `generate` | `WindowSpec` | `Generate.DiscardOf` | `DiscardAll` |
| `generate` | `Returns` | `Generate.DecodeFails` | `DecodeRetried` |
| `prompt_cache` | `TypeOK` | `PromptCache.Reuse` | `ReuseAllButLast` |
| `prompt_cache` | `SampledFromPrompt` | `PromptCache.Kept` | `KeptAnyway` |
| `prompt_cache` | `FileConsistent` | `PromptCache.SavesSession` | `SavesShifted` |
| `prompt_cache` | `OnlySuffixDecoded` | `PromptCache.Reuse` | `ReuseWhole` |
| `llama` | `TypeOK` | `LLama.RUnlock` | `RUnlockTwice` |
| `llama` | `NoUseAfterFree` | `LLama.Pointer` | `PointerReadEarlier` |
| `llama` | `ContextExclusive` | `LLama.Unlocked` | `NotHeld` |
| `llama` | `Returns` | `LLama.RUnlock` | `RUnlockForgotten` |
| `llama` | `OwnCallback` | `LLama.Inserted` | `InsertedEverywhere` |
| `llama` | `RegistryClean` | `LLama.Erase` | `EraseUnlessFree` |
| `schema` | `GrammarReadable` | `SchemaGrammar.Prefix` | `SharedPrefix` |
| `schema` | `CoversSchema` | `SchemaGrammar.Forms` | `FormsAllOrTail` |
| `schema` | `SampledIsValid` | `SchemaGrammar.FreeName` | `BaseAsItIs` |
| `lifecycle` | `TypeOK` | `Lifecycle.OnEvalFailure` | `MediaTwice` |
| `lifecycle` | `NothingLeaks` | `Lifecycle.OnTokenizeFailure` | `OnlyChunks` |
| `lifecycle` | `ParentsLive` | `Lifecycle.AfterContext` | `AfterContextModel` |
| `lifecycle` | `BiasesArrive` | `Options.parse_logit_biases` | `ParseUpToUnreadable` |
| `pool` | `TypeOK` | `Pool.ModelsOf` | `EntriesOf` |
| `pool` | `OneLoadPerName` | `Pool.Reserve` | `ReserveNothing` |
| `pool` | `RegisteredIsLive` | `Pool.TableWithout` | `Table` |
| `pool` | `EveryModelReachable` | `Pool.Taken` | `TakenByModel` |
| `pool` | `ReservedWhileLoading` | `Pool.Deleted` | `Kept` |
| `tools` | `TypeOK` | `ToolRunner.TurnsSpent` | `TurnsSpentLate` |
| `tools` | `Accounted` | `ToolRunner.WithResult` | `OnlySuccesses` |
| `tools` | `PromptTellsAll` | `ToolRunner.promptMessages` | `PromptReplacing` |
| `tools` | `MessagesReplay` | `ToolRunner.formatToolResults` | `AllResults` |
| `tools` | `RequiredMeansCalled` | `ToolRunner.KindsAfter` | `KindsOfFollowup` |
| `tools` | `IdsDistinct` | `ToolRunner.MadeUpId` | `IdInTurn` |
| `tools` | `CanceledStops` | `ToolRunner.MayRun` | `MayRunBatch` |
| `tools` | `Returns` | `ToolRunner.Refuse` | `RefuseAndRetry` |

## 3. The runs

| run | configuration | expected | properties | what it shows |
|---|---|---|---|---|
| `generate` | `MCGenerate_all.cfg` | pass | `TypeOK`, `MemoryMatchesCounter`, `StopsGracefully`, `UnshiftedIsLinear`, `StopsAtFirst`, `NoStopInOutput`, `ResultWasStreamed`, `FullOnlyWithoutShift`, `WindowSpec`, `Returns` | One generation from every prompt, budget and n_keep: the context shift keeps memory, counter and session consistent, stop words are found wherever they lie, the loop implements the sliding window and always returns. |
| `prompt_cache` | `MCPromptCache_one.cfg` | pass | `TypeOK`, `SampledFromPrompt`, `FileConsistent`, `OnlySuffixDecoded` | Any sequence of predictions on one context with a session file, with failures, a crash and other calls in between: every prediction samples from its own prompt and every loadable session file is a session. |
| `llama` | `MCLLama_all.cfg` | pass | `TypeOK`, `NoUseAfterFree`, `ContextExclusive`, `OwnCallback`, `RegistryClean`, `Returns` | Two goroutines, with handles of their own or sharing one, over fewer addresses than handles: the C side is entered by one changing call at a time and never with a freed context, goroutines that share no handle do not notice each other through the global callback map, and every call returns. |
| `pool` | `MCPool_disciplined.cfg` | pass | `TypeOK`, `OneLoadPerName`, `RegisteredIsLive`, `EveryModelReachable`, `ReservedWhileLoading` | Three goroutines on two names, Remove and Free never overlapping a Load: no double load, no freed model in the table, no model lost. (The table's part, RegisteredIsLive, is proved for overlapping calls too.) |
| `prompt_cache_recurrent` | `MCPromptCache_recurrent.cfg` | violation | `SampledFromPrompt` | A model whose memory refuses partial removal: the mismatched tail of a session stays in memory and the prompt is decoded behind it. |
| `llama_steal` | `MCLLama_steal.cfg` | violation | `CallbackOfTheCall` | Two predictions with callbacks on one handle: the second one's callback receives the tokens of the first. |
| `llama_set_nested` | `MCLLama_setnested.cfg` | violation | `Returns` | A token callback that calls SetTokenCallback waits for itself. |
| `pool_twice` | `MCPool_twice.cfg` | violation | `OneLoadPerName` | Remove during a Load takes the reservation away; a second Load of the name opens the model again. |
| `tools` | `MCToolRunner_all.cfg` | pass | `TypeOK`, `Accounted`, `PromptTellsAll`, `MessagesReplay`, `RequiredMeansCalled`, `IdsDistinct`, `CanceledStops`, `Returns` | Whole conversations of a runner, with and without the grammar: the prompt and the response tell everything that happened exactly once, whatever fails and whenever the context is canceled, a canceled conversation begins at most what had passed its last check, and Generate returns. |
| `llama_info` | `MCLLama_info.cfg` | violation | `NoUseAfterFree` | ModelInfo on a handle that another goroutine frees: the C side works on the freed model. |
| `schema` | `MCSchemaGrammar_all.cfg` | pass | `GrammarReadable`, `CoversSchema`, `SampledIsValid` | One or two tools with schemas of every form, clashing names and recursion: the grammar is one the engine can read, but for what the converter adds to a schema (Narrowed) and what it leaves out of it (Loosened), a document can be sampled exactly if it is valid. |
| `lifecycle` | `MCLifecycle_all.cfg` | pass | `TypeOK`, `NothingLeaks`, `ParentsLive`, `BiasesArrive` | One handle loaded, used by every method and freed, with a failure at every step that can fail: what a call acquired is released exactly once and in the right order, and logit biases reach the tokens they name. |

Bounds, and why they are enough.

* `generate`: a context of 6 cells, prompts of 1, 3 and 5 tokens (the last leaves
  no room at all), budgets from -1, 0 and 2 with "unlimited" standing for 7 (the
  longest generation shifts several times), `n_keep` below 0, 0, in between, at
  the last value that leaves something to discard, and beyond the context.  Stop
  words `aab`, the empty one, and `ba`, with pieces `a`, `ab` and the empty piece:
  matches that span two and three pieces, overlap, and start at either edge of
  the search window.
* `prompt_cache`: contexts of 4 cells and five prompts that are equal, prefixes,
  extensions or different from each other and from the sessions generation makes
  of them, one of them too long.  Two generated tokens reach a context shift from
  the longer prompts.  Batches of two split a decode.  Calls are unbounded; one
  crash is enough, since after it everything but the file is as at the start.
* `llama`: two goroutines with two calls each and three handles over two
  addresses.  Either the first goroutine owns two handles and the second one, or
  both use one of them.  A handle that is in use may be born at the start or
  later; a third birth needs an address that was freed, so a pointer can change
  its owner under a callback that is still registered.  Callbacks may call
  methods that take no lock.  One token is enough for a prediction to be inside
  its callback, and two calls for a prediction on each side of a `Free`.  The
  three violations are found with one handle.
* `schema`: one tool with each keyword and each pair of keywords over leaves that
  are types, literals, booleans, references and unsupported types; definitions
  that are lists, trees or lead only to themselves; two tools with property names
  that sanitize to one name (`k`, `k!`) or to a name `reserve` makes up (`k-2`).
  Documents are scalars, arrays of up to two items, objects with any subset of
  the three keys, and a second and third level below `k`.  Two levels are enough
  for what one rule does with another; the names need the third key.
* `lifecycle`: one handle through its whole life, every option list of
  `MCModelChoices` and `MCPredictChoices`, and a failure at every step.  A call
  keeps nothing, so one after the other is enough.  Tokens go up to 3
  and a long up to 7: the bias ids 1 to 3 fit, 6 is read and too wide, -1 and an
  unreadable bias are skipped.
* `pool`: three goroutines with two calls each, two names, and as many instances
  as loads can open.  Goroutines, names and models are symmetric (there is no
  liveness property in this run).
* `tools`: two tools and a name that is none; batches of one and two calls, with
  one tool twice; every form of output that the parser tells apart.  Runners with
  the grammar take 2 turns or the default 4, so that turns, batches and failures
  combine; those that are only prompted take 2, because every output is possible
  in each.  One runner gets a system message of the caller's with an empty body, which
`promptMessages` replaces by the instructions alone.  Runners that `prepare` refuses
are among the initial states.

Fairness.  `ToolRunner`: weak fairness of the runner's own step, that is, models,
templates and tools return; nothing is assumed of `Cancel`.  `Generate`: weak fairness of the next step; the loop is sequential
code and the callback is assumed to return.  `LLama`: weak fairness for each
goroutine's step, that is, the Go scheduler runs what can run.  It is weak for
waiting on a lock as well: a goroutine can wait for ever only if the others make
infinitely many calls, which `MaxOps` excludes; Go's own locks hand over to
starving waiters, so nothing is assumed that Go does not provide.  The other
modules state safety only.

Deadlock is checked except where a run really ends: a finished generation or
conversation, pool goroutines after their last call, a grammar from which a call
was sampled.  In `LLama` the end is the explicit step
`Done`, so that a deadlock between locks is an error of its own.

## 4. What is proved

For all values of the constants, from the assumptions named in the modules
(context of at least one cell, prompts that fit, options that are integers;
outputs and messages of the protocol's types).  A hypothesis beyond these stands in
the statement of the theorem, and is argued below:

| theorem | module | property | what it says |
|---|---|---|---|
| `Types` | GenerateProofs | `TypeOK` | Every state of a generation is well typed and the loop never samples more than its budget, for every option value. |
| `Memory` | GenerateProofs | `MemoryMatchesCounter` | A text context has exactly one cell at every position below the counter, whatever the context size, n_keep and number of shifts. |
| `Unshifted` | GenerateProofs | `UnshiftedIsLinear` | Until the first shift memory and session tokens are the same sequence, so what llama_predict saves is a session. |
| `OnlyFullWhenStuck` | GenerateProofs | `FullOnlyWithoutShift` | In a context of at least three cells a text generation ends full only if shifting is impossible or n_keep protects all but one token. |
| `Room` | GenerateProofs | `StopsGracefully` | If no media prompt fills more cells than positions, llama_decode always finds a free cell. |
| `NoStopLeft` | GenerateProofs | `NoStopInOutput` | No stop word is left anywhere in the output of a generation the callback did not end. |
| `StopsAtTheFirst` | GenerateProofs | `StopsAtFirst` | A stopped generation is cut at the first stop word of the whole streamed text and no other generation streams one. |
| `ResultStreamed` | GenerateProofs | `ResultWasStreamed` | What Predict returns is the text it streamed in front of the earliest stop word in it, and no less; all of it if it has none; if the callback declined, the text in front of some stop word of it, or all; nothing after a failed decode. |
| `NothingCutTwice` | GenerateProofs |  | The trimming of stop-word endings after the loop finds nothing when the search has cut the text already. |
| `ImplementsWindow` | GenerateProofs | `WindowSpec` | The loop, with its counters, its cells and its arithmetic on n_keep, implements the sliding window: every step of it is one step of the abstract window or none. |
| `Types` | PromptCacheProofs | `TypeOK` | Any sequence of calls, failures, crashes and torn files keeps contexts, requests and files within their types. |
| `DecodesOnlySuffix` | PromptCacheProofs | `OnlySuffixDecoded` | Whatever a session file held and whoever wrote it: a prediction decodes exactly the prompt tokens that the cached session does not begin with, and the last one again if the session goes on after it; none at all if session and prompt are equal. |
| `SamplesThePrompt` | PromptCacheProofs | `SampledFromPrompt` | If contexts do not share session files and memory can be cut, every prediction, on any number of contexts, samples from exactly its own prompt. |
| `FilesAreSessions` | PromptCacheProofs | `FileConsistent` | Under the same hypotheses every loadable session file holds, for its tokens, the memory that decoding them leaves, after any crash or failed write. |
| `NothingFoundIsStopFree` | StopWordsProofs |  | If the text before the last piece has no stop word and the windowed search finds none, the whole text has none. |
| `CutIsStopFree` | StopWordsProofs |  | If the search finds a stop word, the text cut there has none, of any stop word. |
| `WindowIsEnough` | StopWordsProofs |  | The windowed search returns what a search of the whole text would return. |
| `CleanCutsAtStop` | StopWordsProofs |  | What cleanPredictionResult returns is the whole text, or the text in front of one of its stop words, however many it trims one after the other. |
| `CleanKeepsStopFree` | StopWordsProofs |  | Trimming leaves a text without stop words without stop words. |
| `Types` | ToolRunnerProofs | `TypeOK` | A conversation is well typed, takes at most maxTurns turns and keeps one output per turn. |
| `RunsAreAccounted` | ToolRunnerProofs | `Accounted` | Whatever the runners, outputs and failures: every run of a tool is in the response once and in order, but for those of the batch that failed. |
| `RequiredIsCalled` | ToolRunnerProofs | `RequiredMeansCalled` | A runner that requires a tool and uses the grammar returns no answer before a tool has run. |
| `IdsNeverCollide` | ToolRunnerProofs | `IdsDistinct` | With the grammar, the results of a conversation never share an id. |
| `PromptsTellAll` | ToolRunnerProofs | `PromptTellsAll` | Every prompt tells the model the instructions, the caller's messages and each completed turn with its results, once and in order, for any runner, messages and failures. |
| `MessagesAreReplayed` | ToolRunnerProofs | `MessagesReplay` | However Generate ends, the messages it returns are the caller's, without the instructions, then the completed turns and the answer if there is one. |
| `CancellationStops` | ToolRunnerProofs | `CanceledStops` | After the context is canceled at most one prediction or tool is begun, the one whose ctx.Err() had been read already, whichever runner, outputs and failures. |
| `NoDoubleFree` | LifecycleProofs | `TypeOK` | Whatever fails and in whatever order a handle is used: no resource is released that is not held, so every count stays within its range. |
| `NoLeak` | LifecycleProofs | `NothingLeaks` | Between calls nothing is held but what the handle owns, and nothing at all when there is no handle. |
| `ParentsOutlive` | LifecycleProofs | `ParentsLive` | A context or adapter never outlives its model, nor a projector's images their projector, on any error path and through Free. |
| `BiasesReachTokens` | LifecycleProofs | `BiasesArrive` | For every list of options: each logit bias that can be read and fits a token reaches the token it names, and if none is too wide no other token is biased. |
| `Types` | PoolProofs | `TypeOK` | Any number of goroutines, names and models, and calls that overlap in any way: the pool's table and its callers stay within their types, and no model counts as live that was not opened. |
| `TableIsLive` | PoolProofs | `RegisteredIsLive` | However Load, Remove and Free overlap: the table never holds a freed model, nor one model under two names. |
| `NoDoubleLoad` | PoolProofs | `OneLoadPerName` | If Remove and Free are not called while a Load runs (nothing in pool.go enforces it), no name is loaded twice at once. |
| `Reserved` | PoolProofs | `ReservedWhileLoading` | Under the same condition the reserved names are exactly those of the running Loads. |
| `NothingLost` | PoolProofs | `EveryModelReachable` | Under the same condition every model that is open is in the table or with a goroutine that will put it there or free it. |
| `WellTyped` | LLamaProofs | `TypeOK` | Any number of goroutines and handles, however shared: locks, reader counts and stacks stay in their sets, the reader count of the callback lock never goes below zero, and no method runs past its end. |
| `OneAtATime` | LLamaProofs | `ContextExclusive` | However handles are shared, two calls that change one context are never both inside the C side. |
| `FreeWaits` | LLamaProofs | `NoUseAfterFree` | If nobody calls a method that does without l.mu, no context is freed, or its address handed out again, under a call that works on it. |
| `TokensReachTheirOwn` | LLamaProofs | `OwnCallback` | Goroutines that share no handle do not notice each other in the global callback map: every token goes to the callback its prediction was given, with addresses reused and methods called from callbacks. |
| `NothingLeftBehind` | LLamaProofs | `RegistryClean` | Under the same condition a registered callback belongs to the handle that lives at its address, and when no method runs none that was given to a prediction is left. |
| `SomebodyRuns` | LLamaProofs |  | If token callbacks call no method that takes a lock, there is never a state in which methods run and each of them waits for a lock: no deadlock between l.mu of any handle, the callback lock and its pending writers. |
| `MethodsComeToAnEnd` | LLamaProofs |  | Every step of a method brings its goroutine nearer to the end of its outermost call, in an order with no infinite descent, and no other goroutine sets it back, with callbacks that call methods and any number of tokens up to the budget. |
| `OwnersAreSafe` | LLamaProofs | `NoUseAfterFree` | Goroutines that share no handle may call every method, those without l.mu too: no context is freed under a call that works on it. |
| `LoopCountsDown` | GenerateProofs |  | Every step of the generation loop, a context shift and a token without text too, lowers a natural number that begins below 6 * n_predict + 6. |
| `ConversationsEnd` | ToolRunnerProofs |  | Every step of a conversation but the one cancellation uses up a turn, a stage of the turn or a call of its batch, whatever the model asks for and whichever tools fail. |

The argument for Generate.  The properties are not inductive by themselves; three
invariants are, each with the ones before it.

* `TypeInv`: types, and while a token is being handled `i` is still below the
  budget.
* `MemInv`: the memory of a text generation is dense up to `n_past`, `n_past` is
  below the context size, and before the first shift memory and session are the
  same sequence.  The step that matters is the shift: `SlideDense` says that
  cutting `[k, k+d)` and moving the rest down by `d` leaves a dense memory
  of `d` cells less, and `ShiftAmounts` that the `n_keep` and `n_discard` of the
  code satisfy what it asks for.  That a decode always follows a room check
  (`pc = "decode" => HasRoom`) is needed for the bound to survive the decode.
* `CellsInv`: no more cells than positions.  It needs the hypothesis that no
  media prompt puts two cells on one position, and fails without it.
* `TextInv`: everything before the piece in hand is free of stop words, and what
  was streamed is the output.  `WindowIsEnough` carries the search step: in a text
  whose earlier part has no stop word, a match that starts before the window
  would lie in the earlier part.
* `StreamInv`: a text that has ended is what was streamed in front of its first stop
  word, or all of it, and the result is the same; where the callback declined, the
  text in front of some stop word.  Go's trimming is a recursive function over
  the stop words; the first stop word at which it would leave anything but the text
  in front of a stop word is a contradiction (`CleanCutsAtStop`), and so is the first
  one at which it cuts a text that has no stop words (`CleanKeepsStopFree`).
  `NothingCutTwice` follows.

`ImplementsWindow` goes step by step: a decode appends at `n_past`, which is the end
of the contents of a dense memory, so it is a `Push`; `ContentsOfSlide` says what
a cut and a move leave of the contents, which with `ShiftAmounts` is a `Forget`;
every other action leaves memory, session and request alone.

StopWordsProofs and KVMemoryProofs state these facts about the operators, for all
texts and memories, and are cited by name.

The argument for PromptCache.  `TypeInv` has, besides types, what the call in progress
knows of tokens: `RequestInv` (the request is one the context may make, within the
context size) and `TokensInv` (the reused prefix is a prefix of cached tokens and
prompt, at least one token stays to be decoded unless session and prompt are equal,
and what is decoded starts behind it).  They need no hypothesis, and
`DecodesOnlySuffix` is theirs: it holds for any contents of any file.  `MemoryInv`
ties the memory to the step: the restored session after the load, its reused part
after the drop, the prompt so far while decoding, the tokens of the session at the
saves.  `FileInv` and `OwnFile` tie the file to it: what can be loaded is consistent,
and the two parts of a file in the middle of a save are those of the saving
context.  Two hypotheses are needed, and without them the theorems are false.
`FilesApart`: with two contexts on one file the tokens of one save can stand before
the state of the other.  `~Recurrent`: a memory that refuses the cut keeps the tail
(`prompt_cache_recurrent`).  Nothing is assumed of crashes, failures or torn files.

The argument for Pool.  `Safe` is inductive whatever calls overlap: `HandsInv` says
that the model in a Load's hand is open and that models to be freed are in the hands
of one `Remove` or `Free`, and `OwnersInv` that no model is in two hands or in a hand
and in the table.  So what is freed is never in the table, also when `Register`
writes over another model or after a `Free` (`Types`, `TableIsLive`).  `Whole`, the
other three properties, is kept by every step but a `Remove` or `Free` that overlaps
a Load: `ReservedWhileLoading` says that nil entries and running Loads are the same
set of names, which gives `OneLoadPerName` and keeps `Register` from overwriting.
`NoDoubleLoad`, `Reserved` and `NothingLost` therefore assume `~Overlap`, that
Remove and Free are not called while a Load runs.  Nothing in `pool.go` enforces
this, and without it they are false (`pool_twice`).

The argument for Lifecycle.  `HandleCounts`, `CallCounts` and `InnerCounts` give
every count of `live` as a function of the step, the handle and the call's own
variables; the theorems read their claims off these equations.  `Control` and
`Members` say which steps go with which handle and call, and that a failed call
has no result.  Each error return is then one sum: what it releases is what the
equations say is there (`FailKeeps`), so nothing about it depends on how the
call got there.

`BiasesReachTokens` is about the options.  `NewPredictOptions` and
`parse_logit_biases` are loops, modelled as functions of the number of rounds;
`Iteration` says that such a function exists and `StepByStep` that what its rounds
keep holds at its end.  With them, `FormattedAreGiven`: the formatted biases are
those of the last text and all that were added; `ParsedAreReadable`: the parsed
ones are those that can be read, each on its narrowed id; `NarrowedFits`: an id up
to `IntMax` stays what it is.  `BiasInv` says that a call keeps the biases it began
with.

The argument for LLama.  The invariant is about stacks: each frame is well formed,
has a C-side pointer exactly between `begin` and `end`, callbacks are at even
depths above a prediction that is about to take its next token, and `m` has a
reader for each of them (`Readers`; it makes `RUnlock` safe).  `Locks`: the
frames between `lock` and `unlock` hold `l.mu` of their handle, and no two frames
hold the same one.  `Pointers`: `l.state` and the heap agree, and a frame that is
inside the C side with the lock has the pointer `l.state` has now.  `Free` changes
both with the lock held, so by `Locks` no such frame can be there
(`FreeModelKeeps`); `New` takes an address that is nobody's.  `Programs` and
`Labels` are finite facts about the step sequences; everything else is for any
number of goroutines, handles, addresses, calls and tokens.  Frames of methods
without the lock are outside `Pointers`: that is why `FreeWaits` excludes them
and `llama_info` exists.

`SomebodyRuns` is the absence of deadlock, for any number of goroutines and handles.
`Turns` is what it rests on: the invariant above, and that a locked `l.mu` has its
`Owners` (a call that stands between `lock` and `unlock`), that a pending or writing
`Writer` of `m` is a call that stands there, and which frames can lie above a
prediction (`NestedFrames`).  Then the order is short: while `m` has readers, the
topmost call of one of them is in a callback and waits for nothing (`ReadersRun`);
without readers, a writer can go on, because `store` and `erase` wait for nothing
else; without either, the owner of an `l.mu` that is waited for stands behind its
`lock` with `m` open to it, so it can go on.  The hypothesis that callbacks call no method with a lock is
necessary: with `set_callback` in `NestedOps` a goroutine waits for itself
(`llama_set_nested`).  On the small instance the same is said by TLC's deadlock
check in the run `llama`.

`MethodsComeToAnEnd` gives each call a number, `Ahead`: its tokens left, times more
than its program is long, and the steps to the end of its program.  A step of a goroutine
lowers the number of its topmost call, or removes that call; a callback puts a
call on top, and lowers that of the prediction below (`Cost` makes the step back
from `call` to `token` a step down).  So the stack, read from the outermost
call, descends lexicographically, and `Finite` bounds its depth and its
numbers.  Other goroutines leave the stack alone, whatever locks they hold.

`TokensReachTheirOwn` and `NothingLeftBehind` are about goroutines that share no
handle (`Disjoint`, stated in the properties themselves; `llama_steal` is the case
they leave out).  The locks are no help, since `Predict` writes the map before
it takes `l.mu`.  `OwnFrames` says of each frame that the pointer it has noted down
is what `l.state` still is for as long as it will be used as a key, and how far a
method called from a callback can have come: it works on the same handle and stands
before `l.mu` or before `m`, which the prediction below it holds.  Only the first
frame of a goroutine can therefore register or free.  `OwnEntries` says that the entry
at a live address is the one its prediction registered, or the user's.  `Free`
erases the entry before it gives the address back (`llama.go`, `Free`), which is why
a handle born there finds none; with the two swapped the invariant breaks.

`OwnersAreSafe` adds to `FreeWaits` what remains of it for the methods without
`l.mu`.  `Fresh` says of every call inside the C side, whichever its method, that its
pointer is what its handle has now; only the goroutine that owns the handle can free
it, and a goroutine that frees has nothing below (`OwnFrames`).  The run
`llama_info` has two goroutines on one handle.

The argument for ToolRunner.  `TypeInv` adds to the types where the counters
stand in each phase, and that there is no error before the return.  `AccountInv`:
while `Generate` runs, the calls of the results recorded and of the batch so far
are exactly what ran; `EndTurn` moves the second part into the first
(`CallsOfConcat`), and only a failing `RunCall`, which returns, leaves a run
without a result.  `RequiredMeansCalled` is inductive by itself: `AllowedParses`
says that a final answer is in the grammar of its turn only if the root rule has
it, `KindsOfTurn` that this takes a result when a tool is required.  `IdInv`: ids
recorded come from earlier turns, ids of the batch are this turn's number and the
position; the grammar generates no ids, and two such pairs are equal only for one
call (`DistinctConcat`).  It fails without the grammar, where the model may write
an id of the same form.

`TalkInv` is for what the model is told.  It says that the history and the messages
of the response are the same sequence, the caller's messages and then what
`Said` makes of each completed turn, and that the prompt is `promptMessages` of that
history; so the instructions are added at every turn to a copy and never to what is
kept.  The proof found a mistake in an earlier form of `PromptTellsAll`, which
expected the caller's system message in every prompt: one with an empty body is
dropped (`Blank` of MCToolRunner is that case).  `CancellationStops` rests on
`LateInv`: what has been begun late and what stands behind its check
(`template`, `run`) are together at most one, because every check that follows a
cancellation ends the conversation.

Termination.  `Returns`, in three modules, is liveness and only model-checked; that a
step which can be taken is taken is the fairness of section 3.  What the code itself
has to do for it is safety, and is proved.  `LoopCountsDown`: `StepsLeft`, six
for each token the budget still has and the stage of the one in hand, falls with every
step of `generate_tokens`, so no shift, empty piece or stop word makes it loop.
`ConversationsEnd`: turns left, then the stage of the turn, then the calls of
its batch without a result, fall in lexicographic order, except at the one
`Cancel`.  For LLama it takes `MethodsComeToAnEnd` and `SomebodyRuns`, as
locks can keep a step from being taken: finitely many steps are left, and while there
are any, some goroutine can take one.

Only model-checked: `Returns` itself, and everything about SchemaGrammar, whose
operators are recursive (the prover takes no module that declares one).

## 5. Where the code and its documentation disagree

Each of the first five is a run that TLC finds violated.

1. `prompt_cache_recurrent`: `binding.cpp:958` ignores the answer of
   `llama_memory_seq_rm`.  A recurrent or hybrid model refuses to drop the tail of
   a state, the stale session stays, and the prompt is decoded behind it; the
   comment at `binding.cpp:922-925` says that the tail is dropped.
2. `llama_steal`: `Predict` registers its callback before it takes `l.mu`
   (`llama.go:430-433`, `451`), so a waiting prediction receives the tokens of the
   running one ("All methods are safe for concurrent use", `llama.go:20`).
   `SpeculativeSampling` does the same.
3. `llama_set_nested`: the user's callback runs under `m.RLock`
   (`llama.go:620-625`); `SetTokenCallback`, "save to call [...] while a
   prediction is running" (`llama.go:608`), waits for ever when called from it.
   The same holds of `Free` or a `Predict` with a callback on another handle.
4. `pool_twice`: `Remove` of a name that is being loaded deletes its reservation
   (`pool.go:95`), and the name can be loaded twice (`pool.go:32-33`).  By the same
   overlap the Load that registers later writes over the model of the other, which
   nobody can free any more, and a model registered after `Pool.Free` is not freed by
   it (`pool.go:103`); `EveryModelReachable` is checked without overlap.
5. `llama_info`: `ModelInfo`, `SupportsVision`, `Detokenize`, `ApplyChatTemplate` and
   `TokenizeString` read `l.state` and enter the C side without `l.mu`
   (`llama.go:271`), so `Free` can release the model under them.

Met while modelling, without a run of their own: when a call of a batch fails,
`Generate` drops the results that `executeToolCalls` returns with its error
(`toolchat.go:134-137`), so tools that have run are missing from the response
(`Accounted` says that nothing else ever is); a `n_keep` that covers the
context stops a generation where the top README says it "keeps going" (its
line 77; `FullOnlyWithoutShift` says exactly when); a declining callback ends the
loop before the stop-word search, so a stop word completed by the last piece
stays in the output unless it is a suffix (README:115 "matched anywhere"); images
that put several cells on one position can run out of cells before the room check
sees it (`binding.cpp:490-493` "stops gracefully"; the hypothesis of theorem
`Room`); the comment at `llama.go:598-599` speaks of a finalizer that does not exist; two
contexts that share one session file can leave the tokens of one with the state
of the other; `ParseEnvelope` numbers calls within one output (`call_1`, ...)
while the runner numbers turns as well, so a driver that parses several outputs
gets the same ids again (the mutant `IdInTurn` breaks `IdsDistinct`).

In the tool conversation: a cancellation during `ApplyChatTemplate`, or right after
`ctx.Err()` was read, still begins that prediction or tool (`toolchat.go:93-112`,
`302-306`); `CanceledStops` says that it is the last.

In the schema grammar, `Narrowed` and `Loosened` are also a list of disagreements.
"The grammar accepts a superset of the schema" (`schema_grammar.go:53-56`) does not
hold: an object with declared properties and without `additionalProperties: false`
may have other keys under the schema and never has them under the grammar, and
`properties` or `items` without a type allow every other kind of document, which the
grammar does not.  Constraints that the comment lists as supported
(`schema_grammar.go:47-50`, README:176-177) are ignored: `oneOf` is read as `anyOf`,
so a document that fits two alternatives is generated; `minItems` of 2 and more
counts as 1, and is ignored without `items`; an object without
properties, or with `additionalProperties` other than `false`, is any object, whatever
it requires; and of two keywords that each decide (`enum` beside `type`, `$ref` beside
`items`) one is dropped.  A required key that is not among the properties is never
generated, so grammar and schema have no document in common.  A definition that
leads back to itself with nothing in between compiles to a left-recursive rule,
which the engine refuses together with all the other tools' rules (`Guarded`);
numbers longer than 16 digits cannot be sampled.  In the options: a logit-bias id
beyond 32 bits wraps to another token without an error (`binding.cpp:268`), which
`BiasesArrive` excludes; `SetMlock` and `SetMemoryMap` as predict options,
`SetModelSeed`, `EnableF16Memory`, the low-VRAM, mul-mat-q, LoRA-base and
perplexity options are accepted and reach nothing on the C side.

## 6. What is not modelled

The text of prompts, tool schemas in the prompt (an argument object that parses is
one object like any other), GBNF text and descriptors; samplers and logits (any
token may be sampled); what tokenization, chat templates and model info compute
(conversions of single values; their locks are in LLama, their allocations in
Lifecycle), the scanning of single numbers and the number options that only
samplers read; the layout of state files; the example program and the build.
llama.cpp is assumed to do what the binding's use of it implies.
`SpeculativeSampling` is the program of `Predict`; that it reads the other handle's
`state` without its lock is left out, the C side never uses it.  Two contexts that
share a session file are not a run, as the repository promises nothing about them.

## 7. Plan

What is left:

1. SchemaGrammar: the rules of one keyword are operators that are not
   recursive; what each admits of one document, given what its parts admit, can be
   stated in a module without recursion and proved there.  `CoversSchema`,
   `SampledIsValid` and `GrammarReadable` stay with TLC, as they need induction over
   schemas.
2. Pool's refinement of a table of models with atomic operations, under the
   discipline of its theorems.
