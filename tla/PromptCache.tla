---------------------------- MODULE PromptCache ----------------------------
(***************************************************************************)
(* The prompt cache: llama_predict (binding.cpp) call after call, on one   *)
(* or several contexts that may name the same session file.  A session     *)
(* file is written in two parts, the token list and then the state, by     *)
(* open-truncate-write; a reader or a second writer may come between, and  *)
(* so may the end of the process.  Inside a generation the context is the  *)
(* SlidingWindow that Generate implements.                                 *)
(***************************************************************************)
EXTENDS KVMemory, SequencesExt

CONSTANTS
    Ctx,          \* contexts (LLama instances)
    File,         \* session files
    FilesOf,      \* per context, the files its calls may name
    NoFile,       \* no session file asked for
    Torn,         \* a part of a file that is absent or incomplete
    Token,
    NCtx,         \* cells of a context
    Batch,        \* tokens decoded at once: min(batch, n_batch)
    Prompts,      \* tokenized prompts, those that are too long included
    Leftovers,    \* what other calls may leave in memory
    MaxGenerated, \* bound: tokens generated per call
    MaxCrashes,   \* bound: ends of the process
    MayFail,      \* whether decode, sampler set-up and saves may fail
    Recurrent     \* a memory whose state cannot be cut in the middle

ASSUME CtxAssumption == NCtx \in Nat \ {0} /\ Batch \in Nat \ {0} /\ NoFile \notin File
ASSUME FilesAssumption == FilesOf \in [Ctx -> SUBSET File]
ASSUME CrashAssumption == MaxCrashes \in Nat
ASSUME PromptsAssumption == Prompts \subseteq Seq(Token) \ {<<>>}

VARIABLES
    file,    \* [tokens, state] per session file
    st,      \* the call each context is in, and its memory
    crashes
vars == <<file, st, crashes>>

---------------------------------------------------------------------------
Requests(c) == [prompt : Prompts, file : FilesOf[c] \cup {NoFile}, ro : BOOLEAN, all : BOOLEAN]

\* A context between calls; the locals of a finished call are gone.
Idle(mem, logits, emb) ==
         [pc |-> "idle", mem |-> mem, logits |-> logits, emb |-> emb,
          req |-> [prompt |-> <<>>, file |-> NoFile, ro |-> FALSE, all |-> FALSE],
          cached |-> <<>>, reused |-> 0, exact |-> FALSE, decoded |-> 0,
          session |-> <<>>, window |-> <<>>, shifted |-> FALSE]
Fresh == Idle({}, {}, FALSE)

Init ==
    /\ file = [f \in File |-> [tokens |-> Torn, state |-> Torn]]
    /\ st = [c \in Ctx |-> Fresh]
    /\ crashes = 0

At(c, label) == st[c].pc = label
Goto(c, label) ==
    st' = [st EXCEPT ![c] = IF label = "idle" THEN Idle(@.mem, @.logits, @.emb)
                            ELSE [@ EXCEPT !.pc = label]]
Quiet == UNCHANGED <<file, crashes>>

\* A new call; a prompt that fills the context is refused before anything happens.
Call(c) ==
    /\ At(c, "idle")
    /\ \E r \in Requests(c) :
         /\ Len(r.prompt) < NCtx
         /\ st' = [st EXCEPT ![c] = [@ EXCEPT
                !.req = r, !.session = r.prompt,
                !.pc = IF r.file = NoFile THEN "drop" ELSE "load"]]
    /\ Quiet

\* file_exists, and the first read of llama_state_load_file: the token list.
LoadTokens(c) ==
    /\ At(c, "load")
    /\ LET read == file[st[c].req.file].tokens
       IN  IF read = Torn \/ Len(read) > NCtx THEN Goto(c, "drop")
           ELSE st' = [st EXCEPT ![c].cached = read, ![c].pc = "load_state"]
    /\ Quiet

PrefixLen(s, t) == Max({n \in 0..Len(s) : n <= Len(t) /\ SubSeq(s, 1, n) = SubSeq(t, 1, n)})

\* Mutant: the last cached token is always decoded again.
ReuseAllButLast(cached, prompt) == PrefixLen(cached, prompt) - 1
\* Mutant: a session that goes on after the match is not used.
ReuseWhole(cached, prompt) ==
    IF PrefixLen(cached, prompt) < Len(cached) THEN 0 ELSE PrefixLen(cached, prompt)

\* How many tokens of the session stand for the prompt; when they cover it and
\* the session goes on, the last one is decoded again for its logits.
Reuse(cached, prompt) ==
    IF cached # prompt /\ PrefixLen(cached, prompt) >= Len(prompt) THEN Len(prompt) - 1
    ELSE PrefixLen(cached, prompt)

\* The second read restores memory and logits, and fails if the state does not
\* follow the token list; the memory is then in no particular condition.
LoadState(c) ==
    /\ At(c, "load_state")
    /\ LET saved == file[st[c].req.file].state
           cached == st[c].cached
       IN  IF saved # Torn /\ saved.at = Len(cached)
           THEN st' = [st EXCEPT
                   ![c].mem = saved.mem, ![c].logits = saved.logits,
                   ![c].exact = (cached = st[c].req.prompt),
                   ![c].reused = Reuse(cached, st[c].req.prompt),
                   ![c].pc = "drop"]
           ELSE \E m \in {{}, st[c].mem} :
                  st' = [st EXCEPT ![c].mem = m, ![c].logits = {}, ![c].cached = <<>>,
                                   ![c].pc = "drop"]
    /\ Quiet

\* llama_memory_seq_rm: a recurrent state refuses to be cut, and the caller
\* does not look at the answer.
CutFrom(mem, p) ==
    IF Recurrent /\ \E c \in mem : c.pos >= p THEN mem ELSE SeqRm(mem, p, -1)

\* Mutant: the memory of earlier calls is not cleared.
KeptAnyway(s) == IF s.exact THEN s.mem ELSE CutFrom(s.mem, s.reused + 1)

\* An exact hit keeps everything, a partial one the tokens it reuses, a miss nothing.
Kept(s) ==
    CASE s.exact -> s.mem
      [] ~s.exact /\ s.reused > 0 -> CutFrom(s.mem, s.reused)
      [] OTHER -> {}

Drop(c) ==
    /\ At(c, "drop")
    /\ st' = [st EXCEPT ![c].mem = Kept(st[c]), ![c].emb = FALSE,
                        ![c].pc = IF st[c].exact THEN "sampler" ELSE "decode"]
    /\ Quiet

\* One batch of decode_tokens; after the last one the prompt may be saved.
SavesPrompt(r) == r.file # NoFile /\ ~r.ro /\ ~r.all
SavesAll(r) == r.file # NoFile /\ ~r.ro /\ r.all

DecodeChunk(c) ==
    /\ At(c, "decode")
    /\ LET s == st[c]
           done == s.reused + s.decoded
           n == Min({Batch, Len(s.req.prompt) - done})
           mem == Extended(s.mem, SubSeq(s.req.prompt, done + 1, done + n))
       IN st' = [st EXCEPT
            ![c].mem = mem, ![c].logits = mem, ![c].decoded = @ + n,
            ![c].pc = IF done + n < Len(s.req.prompt) THEN "decode"
                      ELSE IF SavesPrompt(s.req) THEN "save" ELSE "sampler"]
    /\ Quiet

\* A failed decode or sampler (a grammar that does not parse) ends the call
\* with an error; whatever the memory holds by then stays.
Fail(c) ==
    /\ MayFail /\ \E label \in {"decode", "sampler", "generate"} : At(c, label)
    /\ Goto(c, "idle") /\ Quiet

---------------------------------------------------------------------------
\* llama_state_save_file: truncate, write the tokens, write the state.
SaveOpen(c) ==
    /\ At(c, "save") /\ Goto(c, "save_tokens")
    /\ file' = [file EXCEPT ![st[c].req.file] = [tokens |-> Torn, state |-> Torn]]
    /\ UNCHANGED crashes

SaveTokens(c) ==
    /\ At(c, "save_tokens") /\ Goto(c, "save_state")
    /\ file' = [file EXCEPT ![st[c].req.file].tokens = st[c].session]
    /\ UNCHANGED crashes

AfterSave(s) == IF SavesPrompt(s.req) THEN "sampler" ELSE "idle"

SaveState(c) ==
    /\ At(c, "save_state") /\ Goto(c, AfterSave(st[c]))
    /\ file' = [file EXCEPT ![st[c].req.file].state =
                    [at |-> Len(st[c].session), mem |-> st[c].mem, logits |-> st[c].logits]]
    /\ UNCHANGED crashes

\* A save that fails part way is only logged: the file stays as it is.
SaveFails(c) ==
    /\ MayFail /\ (At(c, "save") \/ At(c, "save_tokens") \/ At(c, "save_state"))
    /\ Goto(c, AfterSave(st[c])) /\ Quiet

---------------------------------------------------------------------------
CreateSampler(c) ==
    /\ At(c, "sampler")
    /\ st' = [st EXCEPT ![c].window = st[c].req.prompt, ![c].pc = "generate"]
    /\ Quiet

\* Generate, seen as SlidingWindow's Push and Forget (n_keep = 0).
GenerateToken(c) ==
    LET w == st[c].window
        full == Len(w) + 1 >= NCtx
        room == IF full THEN SubSeq(w, Len(w) \div 2 + 1, Len(w)) ELSE w
    IN  /\ At(c, "generate")
        /\ Len(st[c].session) < Len(st[c].req.prompt) + MaxGenerated
        /\ full => Len(w) \div 2 > 0
        /\ \E t \in Token : st' = [st EXCEPT
               ![c].window = Append(room, t), ![c].session = Append(@, t),
               ![c].shifted = @ \/ full,
               ![c].mem = Linear(Append(room, t)), ![c].logits = Linear(Append(room, t))]
        /\ Quiet

\* Mutant: the session is saved after a context shift as well.
SavesShifted(s) == SavesAll(s.req)
SavesSession(s) == SavesAll(s.req) /\ ~s.shifted

\* The loop ends; with EnablePromptCacheAll the session is saved unless the
\* context was shifted.
EndGeneration(c) ==
    /\ At(c, "generate")
    /\ Goto(c, IF SavesSession(st[c]) THEN "save" ELSE "idle")
    /\ Quiet

\* Eval, Embeddings and LoadState between two predictions leave the memory
\* with something else, and embeddings leave the context in embedding mode.
OtherCall(c) ==
    /\ At(c, "idle")
    /\ \E p \in Leftovers, e \in {TRUE, st[c].emb} :
         st' = [st EXCEPT ![c].mem = Linear(p), ![c].logits = Linear(p), ![c].emb = e]
    /\ Quiet

\* The process ends, files stay as they are, and it is started again.
Crash ==
    /\ crashes < MaxCrashes /\ crashes' = crashes + 1
    /\ st' = [c \in Ctx |-> Fresh]
    /\ UNCHANGED file

Step(c) ==
    \/ LoadTokens(c) \/ LoadState(c) \/ Drop(c) \/ DecodeChunk(c) \/ Fail(c)
    \/ SaveOpen(c) \/ SaveTokens(c) \/ SaveState(c) \/ SaveFails(c)
    \/ CreateSampler(c) \/ GenerateToken(c) \/ EndGeneration(c)

Next == Crash \/ \E c \in Ctx : Call(c) \/ OtherCall(c) \/ Step(c)
Spec == Init /\ [][Next]_vars

---------------------------------------------------------------------------
Labels == {"idle", "load", "load_state", "drop", "decode", "save", "save_tokens",
           "save_state", "sampler", "generate"}

TypeOK ==
    /\ \A c \in Ctx : /\ st[c].pc \in Labels /\ st[c].session \in Seq(Token)
                      /\ st[c].reused \in 0..NCtx /\ st[c].decoded \in 0..NCtx
    /\ \A f \in File : file[f].tokens = Torn \/ file[f].tokens \in Seq(Token)
    /\ crashes \in 0..MaxCrashes

\* Whatever the session file, an earlier call or a failed one left behind, the
\* first token is sampled from exactly the prompt: its tokens and nothing else
\* are in memory, the logits are those of its last token, and the context is
\* not in embedding mode.
SampledFromPrompt ==
    \A c \in Ctx : At(c, "sampler") =>
        /\ st[c].mem = Linear(st[c].req.prompt)
        /\ st[c].logits = st[c].mem
        /\ ~st[c].emb

\* A session file that can be loaded is a session: the state in it is the one
\* its token list describes, after shifts, failures and crashes as well.
FileConsistent ==
    \A f \in File :
        LET F == file[f] IN
        F.tokens # Torn /\ F.state # Torn /\ F.state.at = Len(F.tokens) =>
            F.state.mem = Linear(F.tokens) /\ F.state.logits = F.state.mem

\* No prompt token that the cached session already covers is decoded again,
\* except the last one when the session goes on after it.
OnlySuffixDecoded ==
    \A c \in Ctx : At(c, "sampler") =>
        LET common == PrefixLen(st[c].cached, st[c].req.prompt)
            covered == common = Len(st[c].req.prompt) /\ common < Len(st[c].cached)
        IN  st[c].decoded = Len(st[c].req.prompt) - common + (IF covered THEN 1 ELSE 0)
=============================================================================
