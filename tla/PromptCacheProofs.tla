------------------------- MODULE PromptCacheProofs -------------------------
(***************************************************************************)
(* The prompt cache keeps its promises for any number of contexts, files,  *)
(* prompts and failures, as long as no two contexts name one file and the  *)
(* memory can be cut in the middle.                                        *)
(***************************************************************************)
EXTENDS PromptCache, KVMemoryProofs, WellFoundedInduction

\* No session file is named by calls on two contexts.
FilesApart == \A c, d \in Ctx : c # d => FilesOf[c] \cap FilesOf[d] = {}

LoadSteps == {"load", "load_state"}
SaveSteps == {"save", "save_tokens", "save_state"}

\* Every context has the fields Init gives it.
Whole(s) ==
    s = [pc |-> s.pc, mem |-> s.mem, logits |-> s.logits, emb |-> s.emb, req |-> s.req,
         cached |-> s.cached, reused |-> s.reused, exact |-> s.exact, decoded |-> s.decoded,
         session |-> s.session, window |-> s.window, shifted |-> s.shifted]
Shapes ==
    /\ st = [c \in Ctx |-> st[c]]
    /\ \A c \in Ctx : Whole(st[c])

\* A session file has two parts; the tokens are a list, if they are there.
FilesTyped ==
    /\ file = [f \in File |-> file[f]]
    /\ \A f \in File : /\ file[f] = [tokens |-> file[f].tokens, state |-> file[f].state]
                       /\ file[f].tokens = Torn \/ file[f].tokens \in Seq(Token)

\* The request a context works on, and that it is finished with between calls.
RequestInv(s, files) ==
    /\ s.pc \in Labels
    /\ s.pc = "idle" => s = Idle(s.mem, s.logits, s.emb)
    /\ s.pc # "idle" => /\ s.req.prompt \in Prompts /\ Len(s.req.prompt) < NCtx
                        /\ s.req.file \in files \cup {NoFile}
    /\ s.pc \in LoadSteps => s.req.file # NoFile
    /\ s.pc \in SaveSteps => SavesPrompt(s.req) \/ SavesAll(s.req)

\* The tokens of a call: what was cached, how much of it stands for the prompt,
\* how much has been decoded, and the session so far.
TokensInv(s) ==
    /\ s.cached \in Seq(Token) /\ s.session \in Seq(Token) /\ s.decoded \in Nat
    /\ s.pc \in LoadSteps => s.exact = FALSE /\ s.reused = 0
    /\ s.pc = "load" => s.cached = <<>>
    /\ s.pc \in LoadSteps \cup {"drop"} => s.decoded = 0
    /\ s.pc \notin {"idle"} \cup LoadSteps =>
         s.reused = Reuse(s.cached, s.req.prompt) /\ (s.exact <=> s.cached = s.req.prompt)
    /\ s.pc = "decode" => ~s.exact /\ s.reused + s.decoded < Len(s.req.prompt)
    /\ s.pc \in SaveSteps \cup {"sampler", "generate"} => s.reused + s.decoded = Len(s.req.prompt)
    /\ s.pc \in LoadSteps \cup {"drop", "decode", "sampler"} => s.session = s.req.prompt
    /\ s.pc \in SaveSteps /\ SavesPrompt(s.req) => s.session = s.req.prompt

TypeInv ==
    /\ Shapes /\ FilesTyped
    /\ \A c \in Ctx : RequestInv(st[c], FilesOf[c]) /\ TokensInv(st[c])
    /\ crashes \in 0..MaxCrashes

\* What is in memory: the cached session when some of it is used, the part of
\* the prompt that stands already, the session, the window of a generation.
MemoryInv(s) ==
    /\ s.pc = "drop" /\ (s.exact \/ s.reused > 0) => s.mem = Linear(s.cached) /\ s.logits = s.mem
    /\ s.pc \in {"decode", "sampler", "generate"} \cup SaveSteps => s.emb = FALSE
    /\ s.pc = "decode" => s.mem = Linear(SubSeq(s.req.prompt, 1, s.reused + s.decoded))
    /\ s.pc \in {"sampler"} \cup SaveSteps => s.mem = Linear(s.session) /\ s.logits = s.mem
    /\ s.pc = "generate" => /\ s.window \in Seq(Token)
                            /\ s.mem = Linear(s.window) /\ s.logits = s.mem
                            /\ ~s.shifted => s.window = s.session
    /\ s.pc # "generate" => ~s.shifted

\* How far the call is with its own session file.
FileInv(s, F) ==
    /\ s.pc = "load_state" => F.tokens = s.cached /\ s.cached # Torn
    /\ s.pc = "save_tokens" => F.tokens = Torn /\ F.state = Torn
    /\ s.pc = "save_state" => F.tokens = s.session /\ F.state = Torn

OwnFile(s) == s.req.file \in File => FileInv(s, file[s.req.file])

Inv ==
    /\ TypeInv
    /\ FileConsistent
    /\ \A c \in Ctx : MemoryInv(st[c]) /\ OwnFile(st[c])

---------------------------------------------------------------------------
LessThan == {d \in Nat \X Nat : d[1] < d[2]}

\* A set of numbers with an upper bound has a greatest one: the bound's least
\* distance from it.
LEMMA MaxOfBounded ==
    ASSUME NEW n \in Nat, NEW S, S # {}, \A x \in S : x \in 0..n
    PROVE  Max(S) \in S /\ \A x \in S : x <= Max(S)
<1> DEFINE D == {n - x : x \in S}
<1>1. D \subseteq Nat /\ D # {}
  <2>1. \A x \in S : n - x \in Nat
    OBVIOUS
  <2> QED BY <2>1
<1>2. IsWellFoundedOn(LessThan, Nat)
  BY NatLessThanWellFounded DEF OpToRel, LessThan
<1>3. PICK p \in D : \A q \in D : <<q, p>> \notin LessThan
  <2> HIDE DEF D
  <2> QED BY <1>1, <1>2, WFMin, Zenon
<1>4. PICK m \in S : p = n - m
  BY <1>3
<1>5. ASSUME NEW x \in S PROVE m >= x
  <2>1. n - x \in D /\ n - x \in Nat /\ p \in Nat
    BY <1>1
  <2>2. <<n - x, p>> \notin LessThan
    BY <1>3, <2>1
  <2>3. ~(n - x < p)
    BY <2>1, <2>2 DEF LessThan
  <2>4. m \in Int /\ x \in Int
    OBVIOUS
  <2> QED BY <1>4, <2>3, <2>4
<1>6. \E y \in S : \A x \in S : y >= x
  BY <1>4, <1>5
<1>7. Max(S) \in S /\ \A x \in S : Max(S) >= x
  BY <1>6 DEF Max
<1>8. \A x \in S : x \in Int
  OBVIOUS
<1> QED BY <1>7, <1>8

\* The smaller of two numbers.
LEMMA MinOfTwo ==
    ASSUME NEW a \in Int, NEW b \in Int
    PROVE  Min({a, b}) = IF a <= b THEN a ELSE b
<1>1. \A x \in {a, b} : (\A y \in {a, b} : x <= y) <=> x = (IF a <= b THEN a ELSE b)
  OBVIOUS
<1>2. (IF a <= b THEN a ELSE b) \in {a, b}
  OBVIOUS
<1> QED BY <1>1, <1>2 DEF Min

\* The common prefix is one of both sequences, and the longest.
LEMMA PrefixLenIsLongest ==
    ASSUME NEW T, NEW s \in Seq(T), NEW t \in Seq(T)
    PROVE  /\ PrefixLen(s, t) \in 0..Len(s) /\ PrefixLen(s, t) <= Len(t)
           /\ SubSeq(s, 1, PrefixLen(s, t)) = SubSeq(t, 1, PrefixLen(s, t))
           /\ \A n \in 0..Len(s) : n <= Len(t) /\ SubSeq(s, 1, n) = SubSeq(t, 1, n)
                => n <= PrefixLen(s, t)
<1> DEFINE S == {n \in 0..Len(s) : n <= Len(t) /\ SubSeq(s, 1, n) = SubSeq(t, 1, n)}
<1>1. (\A n \in S : n \in 0..Len(s)) /\ Len(s) \in Nat
  OBVIOUS
<1>2. 0 \in S
  <2>1. SubSeq(s, 1, 0) = <<>> /\ SubSeq(t, 1, 0) = <<>>
    OBVIOUS
  <2> QED BY <2>1
<1>3. PrefixLen(s, t) = Max(S)
  BY DEF PrefixLen
<1>4. Max(S) \in S /\ \A x \in S : x <= Max(S)
  <2> HIDE DEF S
  <2> QED BY <1>1, <1>2, MaxOfBounded
<1> QED BY <1>3, <1>4

\* What is reused of a cached session: never the whole prompt unless the session
\* is the prompt, and only tokens that both have.
LEMMA ReuseIsShared ==
    ASSUME NEW T, NEW cached \in Seq(T), NEW prompt \in Seq(T), prompt # <<>>
    PROVE  /\ Reuse(cached, prompt) \in 0..Len(prompt)
           /\ Reuse(cached, prompt) <= Len(cached)
           /\ cached = prompt => Reuse(cached, prompt) = Len(prompt)
           /\ cached # prompt => Reuse(cached, prompt) < Len(prompt)
           /\ cached = <<>> => Reuse(cached, prompt) = 0
           /\ SubSeq(cached, 1, Reuse(cached, prompt)) = SubSeq(prompt, 1, Reuse(cached, prompt))
<1> DEFINE n == PrefixLen(cached, prompt)
           r == Reuse(cached, prompt)
<1>1. /\ n \in 0..Len(cached) /\ n <= Len(prompt) /\ SubSeq(cached, 1, n) = SubSeq(prompt, 1, n)
      /\ \A m \in 0..Len(cached) : m <= Len(prompt) /\ SubSeq(cached, 1, m) = SubSeq(prompt, 1, m) => m <= n
  BY PrefixLenIsLongest
<1>2. Len(prompt) \in Nat \ {0} /\ Len(cached) \in Nat /\ n \in Nat
  BY <1>1
<1>3. cached = prompt => n = Len(prompt)
  BY <1>1, <1>2
<1>4. r = IF cached # prompt /\ n >= Len(prompt) THEN Len(prompt) - 1 ELSE n
  BY DEF Reuse
<1> HIDE DEF n, r
<1>5. r \in 0..n /\ (r = n \/ r = n - 1)
  BY <1>1, <1>2, <1>4
<1>6. SubSeq(cached, 1, r) = SubSeq(prompt, 1, r)
  <2>1. SubSeq(SubSeq(cached, 1, n), 1, r) = SubSeq(cached, 1, r)
    BY <1>1, <1>2, <1>5
  <2>2. SubSeq(SubSeq(prompt, 1, n), 1, r) = SubSeq(prompt, 1, r)
    BY <1>1, <1>2, <1>5
  <2> QED BY <1>1, <2>1, <2>2
<1>7. cached = <<>> => r = 0
  BY <1>1, <1>2, <1>4
<1>8. r \in 0..Len(prompt) /\ r <= Len(cached)
  BY <1>1, <1>2, <1>5
<1>9. /\ cached = prompt => r = Len(prompt)
      /\ cached # prompt => r < Len(prompt)
  BY <1>1, <1>2, <1>3, <1>4
<1> QED BY <1>6, <1>7, <1>8, <1>9 DEF r

---------------------------------------------------------------------------
\* A step of context c leaves the other contexts alone.
Others(c) == /\ st' = [d \in Ctx |-> st'[d]]
             /\ \A d \in Ctx \ {c} : st'[d] = st[d]

\* What a step from s to t may leave as it is.
KeepsMemory(s, t) == t.mem = s.mem /\ t.logits = s.logits /\ t.emb = s.emb
KeepsTokens(s, t) == /\ t.cached = s.cached /\ t.reused = s.reused /\ t.exact = s.exact
                     /\ t.decoded = s.decoded /\ t.session = s.session
KeepsWindow(s, t) == t.window = s.window /\ t.shifted = s.shifted

\* Another label: everything else stays, until the call is over.
LEMMA GotoEffect ==
    ASSUME Shapes, NEW c \in Ctx, NEW label, Goto(c, label)
    PROVE  /\ Others(c) /\ Whole(st'[c]) /\ st'[c].pc = label
           /\ label = "idle" => st'[c] = Idle(st[c].mem, st[c].logits, st[c].emb)
           /\ label # "idle" => /\ KeepsMemory(st[c], st'[c]) /\ KeepsTokens(st[c], st'[c])
                                /\ KeepsWindow(st[c], st'[c]) /\ st'[c].req = st[c].req
<1>1. st = [d \in Ctx |-> st[d]] /\ Whole(st[c])
  BY DEF Shapes
<1>2. CASE label = "idle"
  <2>1. st'[c] = Idle(st[c].mem, st[c].logits, st[c].emb) /\ Others(c)
    BY <1>1, <1>2 DEF Goto, Others
  <2>2. Whole(st'[c]) /\ st'[c].pc = "idle"
    BY <2>1 DEF Whole, Idle
  <2> QED BY <1>2, <2>1, <2>2
<1>3. CASE label # "idle"
  <2>1. st'[c] = [st[c] EXCEPT !.pc = label] /\ Others(c)
    BY <1>1, <1>3 DEF Goto, Others
  <2>2. /\ Whole(st'[c]) /\ st'[c].pc = label /\ KeepsMemory(st[c], st'[c])
        /\ KeepsTokens(st[c], st'[c]) /\ KeepsWindow(st[c], st'[c]) /\ st'[c].req = st[c].req
    BY <1>1, <2>1 DEF Whole, KeepsMemory, KeepsTokens, KeepsWindow
  <2> QED BY <1>3, <2>1, <2>2
<1> QED BY <1>2, <1>3

\* The request, and the prompt as the session.
LEMMA CallEffect ==
    ASSUME Shapes, NEW c \in Ctx, Call(c)
    PROVE  /\ Others(c) /\ Whole(st'[c]) /\ st[c].pc = "idle"
           /\ KeepsMemory(st[c], st'[c]) /\ KeepsWindow(st[c], st'[c])
           /\ st'[c].cached = st[c].cached /\ st'[c].reused = st[c].reused
           /\ st'[c].exact = st[c].exact /\ st'[c].decoded = st[c].decoded
           /\ \E r \in Requests(c) :
                /\ Len(r.prompt) < NCtx /\ st'[c].req = r /\ st'[c].session = r.prompt
                /\ st'[c].pc = IF r.file = NoFile THEN "drop" ELSE "load"
<1>1. st = [d \in Ctx |-> st[d]] /\ Whole(st[c]) /\ st[c].pc = "idle"
  BY DEF Shapes, Call, At
<1>2. PICK r \in Requests(c) :
        /\ Len(r.prompt) < NCtx
        /\ st' = [st EXCEPT ![c] = [@ EXCEPT !.req = r, !.session = r.prompt,
                                    !.pc = IF r.file = NoFile THEN "drop" ELSE "load"]]
  BY DEF Call
<1> DEFINE pc == IF r.file = NoFile THEN "drop" ELSE "load"
           prompt == r.prompt
<1>3. /\ st' = [st EXCEPT ![c] = [@ EXCEPT !.req = r, !.session = prompt, !.pc = pc]]
      /\ Len(prompt) < NCtx
  BY <1>2
<1> HIDE DEF pc, prompt
<1>4. Others(c) /\ st'[c] = [st[c] EXCEPT !.req = r, !.session = prompt, !.pc = pc]
  BY <1>1, <1>3 DEF Others
<1>5. /\ Whole(st'[c]) /\ KeepsMemory(st[c], st'[c]) /\ KeepsWindow(st[c], st'[c])
      /\ st'[c].cached = st[c].cached /\ st'[c].reused = st[c].reused
      /\ st'[c].exact = st[c].exact /\ st'[c].decoded = st[c].decoded
      /\ st'[c].req = r /\ st'[c].session = prompt /\ st'[c].pc = pc
  BY <1>1, <1>4, ZenonT(60) DEF Whole, KeepsMemory, KeepsWindow
<1> QED BY <1>1, <1>3, <1>4, <1>5 DEF pc, prompt

\* The token list, or a call without a session.
LEMMA LoadTokensEffect ==
    ASSUME Shapes, NEW c \in Ctx, LoadTokens(c)
    PROVE  /\ Others(c) /\ Whole(st'[c]) /\ st[c].pc = "load" /\ st'[c].req = st[c].req
           /\ KeepsMemory(st[c], st'[c]) /\ KeepsWindow(st[c], st'[c])
           /\ \/ st'[c].pc = "drop" /\ KeepsTokens(st[c], st'[c])
              \/ /\ st'[c].pc = "load_state"
                 /\ st'[c].cached = file[st[c].req.file].tokens /\ st'[c].cached # Torn
                 /\ st'[c].reused = st[c].reused /\ st'[c].exact = st[c].exact
                 /\ st'[c].decoded = st[c].decoded /\ st'[c].session = st[c].session
<1> DEFINE read == file[st[c].req.file].tokens
<1>1. st = [d \in Ctx |-> st[d]] /\ Whole(st[c]) /\ st[c].pc = "load"
  BY DEF Shapes, LoadTokens, At
<1>2. CASE read = Torn \/ Len(read) > NCtx
  <2>1. Goto(c, "drop")
    BY <1>2 DEF LoadTokens
  <2>2. /\ Others(c) /\ Whole(st'[c]) /\ st'[c].pc = "drop"
        /\ KeepsMemory(st[c], st'[c]) /\ KeepsTokens(st[c], st'[c])
        /\ KeepsWindow(st[c], st'[c]) /\ st'[c].req = st[c].req
    BY <2>1, GotoEffect
  <2> QED BY <1>1, <2>2
<1>3. CASE ~(read = Torn \/ Len(read) > NCtx)
  <2>1. st' = [st EXCEPT ![c].cached = read, ![c].pc = "load_state"] /\ read # Torn
    BY <1>3 DEF LoadTokens
  <2> HIDE DEF read
  <2>2. Others(c) /\ st'[c] = [st[c] EXCEPT !.cached = read, !.pc = "load_state"]
    BY <1>1, <2>1 DEF Others
  <2>3. /\ Whole(st'[c]) /\ KeepsMemory(st[c], st'[c]) /\ KeepsWindow(st[c], st'[c])
        /\ st'[c].req = st[c].req /\ st'[c].pc = "load_state" /\ st'[c].cached = read
        /\ st'[c].reused = st[c].reused /\ st'[c].exact = st[c].exact
        /\ st'[c].decoded = st[c].decoded /\ st'[c].session = st[c].session
    BY <1>1, <2>2, ZenonT(60) DEF Whole, KeepsMemory, KeepsWindow
  <2> QED BY <1>1, <2>1, <2>2, <2>3 DEF read
<1> QED BY <1>2, <1>3

\* Memory and logits from the file and what they are worth, or no session.
LEMMA LoadStateEffect ==
    ASSUME Shapes, NEW c \in Ctx, LoadState(c)
    PROVE  /\ Others(c) /\ Whole(st'[c]) /\ st[c].pc = "load_state" /\ st'[c].pc = "drop"
           /\ st'[c].req = st[c].req /\ KeepsWindow(st[c], st'[c])
           /\ st'[c].decoded = st[c].decoded /\ st'[c].session = st[c].session
           /\ LET saved == file[st[c].req.file].state IN
              \/ /\ saved # Torn /\ saved.at = Len(st[c].cached)
                 /\ st'[c].mem = saved.mem /\ st'[c].logits = saved.logits
                 /\ st'[c].cached = st[c].cached
                 /\ st'[c].exact = (st[c].cached = st[c].req.prompt)
                 /\ st'[c].reused = Reuse(st[c].cached, st[c].req.prompt)
              \/ /\ st'[c].cached = <<>>
                 /\ st'[c].exact = st[c].exact /\ st'[c].reused = st[c].reused
<1> DEFINE saved == file[st[c].req.file].state
           exact == st[c].cached = st[c].req.prompt
           reused == Reuse(st[c].cached, st[c].req.prompt)
           mem == saved.mem
           logits == saved.logits
<1>1. st = [d \in Ctx |-> st[d]] /\ Whole(st[c]) /\ st[c].pc = "load_state"
  BY DEF Shapes, LoadState, At
<1>2. CASE saved # Torn /\ saved.at = Len(st[c].cached)
  <2>1. st' = [st EXCEPT ![c].mem = mem, ![c].logits = logits, ![c].exact = exact,
                         ![c].reused = reused, ![c].pc = "drop"]
    BY <1>2 DEF LoadState
  <2> HIDE DEF mem, logits, exact, reused
  <2>2. Others(c) /\ st'[c] = [st[c] EXCEPT !.mem = mem, !.logits = logits, !.exact = exact,
                                            !.reused = reused, !.pc = "drop"]
    BY <1>1, <2>1 DEF Others
  <2>3. /\ Whole(st'[c]) /\ st'[c].mem = mem /\ st'[c].logits = logits
        /\ st'[c].exact = exact /\ st'[c].reused = reused /\ st'[c].pc = "drop"
        /\ st'[c].req = st[c].req /\ KeepsWindow(st[c], st'[c]) /\ st'[c].cached = st[c].cached
        /\ st'[c].decoded = st[c].decoded /\ st'[c].session = st[c].session
    BY <1>1, <2>2, ZenonT(60) DEF Whole, KeepsWindow
  <2> QED BY <1>1, <1>2, <2>2, <2>3 DEF mem, logits, exact, reused
<1>3. CASE ~(saved # Torn /\ saved.at = Len(st[c].cached))
  <2>1. PICK m \in {{}, st[c].mem} :
          st' = [st EXCEPT ![c].mem = m, ![c].logits = {}, ![c].cached = <<>>, ![c].pc = "drop"]
    BY <1>3 DEF LoadState
  <2>2. Others(c) /\ st'[c] = [st[c] EXCEPT !.mem = m, !.logits = {}, !.cached = <<>>, !.pc = "drop"]
    BY <1>1, <2>1 DEF Others
  <2>3. /\ Whole(st'[c]) /\ st'[c].cached = <<>>
        /\ st'[c].exact = st[c].exact /\ st'[c].reused = st[c].reused /\ st'[c].pc = "drop"
        /\ st'[c].req = st[c].req /\ KeepsWindow(st[c], st'[c])
        /\ st'[c].decoded = st[c].decoded /\ st'[c].session = st[c].session
    <3>1. Whole(st'[c]) /\ KeepsWindow(st[c], st'[c]) /\ st'[c].req = st[c].req
      BY <1>1, <2>2 DEF Whole, KeepsWindow
    <3>2. /\ st'[c].cached = <<>> /\ st'[c].exact = st[c].exact /\ st'[c].reused = st[c].reused
          /\ st'[c].pc = "drop" /\ st'[c].decoded = st[c].decoded /\ st'[c].session = st[c].session
      BY <1>1, <2>2 DEF Whole
    <3> QED BY <3>1, <3>2
  <2> QED BY <1>1, <2>2, <2>3
<1> QED BY <1>2, <1>3

\* What is kept stays in memory, and the context leaves embedding mode.
LEMMA DropEffect ==
    ASSUME Shapes, NEW c \in Ctx, Drop(c)
    PROVE  /\ Others(c) /\ Whole(st'[c]) /\ st[c].pc = "drop"
           /\ st'[c].pc = IF st[c].exact THEN "sampler" ELSE "decode"
           /\ st'[c].mem = Kept(st[c]) /\ st'[c].logits = st[c].logits /\ st'[c].emb = FALSE
           /\ st'[c].req = st[c].req /\ KeepsTokens(st[c], st'[c]) /\ KeepsWindow(st[c], st'[c])
<1> DEFINE pc == IF st[c].exact THEN "sampler" ELSE "decode"
           kept == Kept(st[c])
<1>1. st = [d \in Ctx |-> st[d]] /\ Whole(st[c]) /\ st[c].pc = "drop"
  BY DEF Shapes, Drop, At
<1>2. st' = [st EXCEPT ![c].mem = kept, ![c].emb = FALSE, ![c].pc = pc]
  BY DEF Drop
<1> HIDE DEF kept, pc
<1>3. Others(c) /\ st'[c] = [st[c] EXCEPT !.mem = kept, !.emb = FALSE, !.pc = pc]
  BY <1>1, <1>2 DEF Others
<1>4. /\ Whole(st'[c]) /\ st'[c].mem = kept /\ st'[c].logits = st[c].logits
      /\ st'[c].emb = FALSE /\ st'[c].pc = pc /\ st'[c].req = st[c].req
      /\ KeepsTokens(st[c], st'[c]) /\ KeepsWindow(st[c], st'[c])
  BY <1>1, <1>3, ZenonT(60) DEF Whole, KeepsTokens, KeepsWindow
<1> QED BY <1>1, <1>3, <1>4 DEF kept, pc

\* What one batch decodes.
Done(s) == s.reused + s.decoded
Chunk(s) == Min({Batch, Len(s.req.prompt) - Done(s)})

\* The chunk behind what is in memory already.
LEMMA DecodeEffect ==
    ASSUME Shapes, NEW c \in Ctx, DecodeChunk(c)
    PROVE  LET s == st[c]
               n == Chunk(s)
           IN  /\ Others(c) /\ Whole(st'[c]) /\ s.pc = "decode"
               /\ st'[c].pc = IF Done(s) + n < Len(s.req.prompt) THEN "decode"
                              ELSE IF SavesPrompt(s.req) THEN "save" ELSE "sampler"
               /\ st'[c].mem = Extended(s.mem, SubSeq(s.req.prompt, Done(s) + 1, Done(s) + n))
               /\ st'[c].logits = st'[c].mem /\ st'[c].emb = s.emb
               /\ st'[c].decoded = s.decoded + n
               /\ st'[c].cached = s.cached /\ st'[c].reused = s.reused /\ st'[c].exact = s.exact
               /\ st'[c].session = s.session /\ st'[c].req = s.req /\ KeepsWindow(s, st'[c])
<1> DEFINE s == st[c]
           n == Chunk(s)
           mem == Extended(s.mem, SubSeq(s.req.prompt, Done(s) + 1, Done(s) + n))
           pc == IF Done(s) + n < Len(s.req.prompt) THEN "decode"
                 ELSE IF SavesPrompt(s.req) THEN "save" ELSE "sampler"
<1>1. st = [d \in Ctx |-> st[d]] /\ Whole(st[c]) /\ st[c].pc = "decode"
  BY DEF Shapes, DecodeChunk, At
<1>2. st' = [st EXCEPT ![c].mem = mem, ![c].logits = mem, ![c].decoded = @ + n, ![c].pc = pc]
  BY DEF DecodeChunk, Chunk, Done
<1> HIDE DEF n, mem, pc
<1>3. /\ Others(c)
      /\ st'[c] = [st[c] EXCEPT !.mem = mem, !.logits = mem, !.decoded = @ + n, !.pc = pc]
  BY <1>1, <1>2 DEF Others
<1>4. /\ Whole(st'[c]) /\ st'[c].mem = mem /\ st'[c].logits = mem /\ st'[c].emb = st[c].emb
      /\ st'[c].decoded = st[c].decoded + n /\ st'[c].pc = pc
      /\ st'[c].cached = st[c].cached /\ st'[c].reused = st[c].reused /\ st'[c].exact = st[c].exact
      /\ st'[c].session = st[c].session /\ st'[c].req = st[c].req /\ KeepsWindow(st[c], st'[c])
  BY <1>1, <1>3, ZenonT(60) DEF Whole, KeepsWindow
<1> QED BY <1>1, <1>3, <1>4 DEF n, mem, pc

\* The prompt is the first window.
LEMMA SamplerEffect ==
    ASSUME Shapes, NEW c \in Ctx, CreateSampler(c)
    PROVE  /\ Others(c) /\ Whole(st'[c]) /\ st[c].pc = "sampler" /\ st'[c].pc = "generate"
           /\ st'[c].window = st[c].req.prompt /\ st'[c].shifted = st[c].shifted
           /\ st'[c].req = st[c].req
           /\ KeepsMemory(st[c], st'[c]) /\ KeepsTokens(st[c], st'[c])
<1> DEFINE prompt == st[c].req.prompt
<1>1. st = [d \in Ctx |-> st[d]] /\ Whole(st[c]) /\ st[c].pc = "sampler"
  BY DEF Shapes, CreateSampler, At
<1>2. st' = [st EXCEPT ![c].window = prompt, ![c].pc = "generate"]
  BY DEF CreateSampler
<1> HIDE DEF prompt
<1>3. Others(c) /\ st'[c] = [st[c] EXCEPT !.window = prompt, !.pc = "generate"]
  BY <1>1, <1>2 DEF Others
<1>4. /\ Whole(st'[c]) /\ st'[c].window = prompt /\ st'[c].shifted = st[c].shifted
      /\ st'[c].pc = "generate" /\ st'[c].req = st[c].req
      /\ KeepsMemory(st[c], st'[c]) /\ KeepsTokens(st[c], st'[c])
  BY <1>1, <1>3, ZenonT(60) DEF Whole, KeepsMemory, KeepsTokens
<1> QED BY <1>1, <1>3, <1>4 DEF prompt

\* One more token in the session and in a window that may have slid first.
LEMMA GenerateEffect ==
    ASSUME Shapes, NEW c \in Ctx, GenerateToken(c)
    PROVE  LET s == st[c]
               w == s.window
               full == Len(w) + 1 >= NCtx
               room == IF full THEN SubSeq(w, Len(w) \div 2 + 1, Len(w)) ELSE w
           IN  /\ Others(c) /\ Whole(st'[c]) /\ s.pc = "generate" /\ st'[c].pc = "generate"
               /\ \E t \in Token : /\ st'[c].window = Append(room, t)
                                   /\ st'[c].session = Append(s.session, t)
               /\ st'[c].shifted = (s.shifted \/ full)
               /\ st'[c].mem = Linear(st'[c].window) /\ st'[c].logits = st'[c].mem
               /\ st'[c].emb = s.emb /\ st'[c].cached = s.cached /\ st'[c].reused = s.reused
               /\ st'[c].exact = s.exact /\ st'[c].decoded = s.decoded /\ st'[c].req = s.req
<1> DEFINE s == st[c]
           w == s.window
           full == Len(w) + 1 >= NCtx
           room == IF full THEN SubSeq(w, Len(w) \div 2 + 1, Len(w)) ELSE w
<1>1. st = [d \in Ctx |-> st[d]] /\ Whole(st[c]) /\ st[c].pc = "generate"
  BY DEF Shapes, GenerateToken, At
<1>2. PICK t \in Token : st' = [st EXCEPT
               ![c].window = Append(room, t), ![c].session = Append(@, t),
               ![c].shifted = @ \/ full,
               ![c].mem = Linear(Append(room, t)), ![c].logits = Linear(Append(room, t))]
  BY DEF GenerateToken
<1> DEFINE window == Append(room, t)
           session == Append(st[c].session, t)
           shifted == st[c].shifted \/ full
           mem == Linear(window)
<1>3. st' = [st EXCEPT ![c].window = window, ![c].session = session, ![c].shifted = shifted,
                       ![c].mem = mem, ![c].logits = mem]
  BY <1>2
<1> HIDE DEF window, session, shifted, mem
<1>4. /\ Others(c)
      /\ st'[c] = [st[c] EXCEPT !.window = window, !.session = session, !.shifted = shifted,
                                !.mem = mem, !.logits = mem]
  BY <1>1, <1>3 DEF Others
<1>5. /\ Whole(st'[c]) /\ st'[c].window = window /\ st'[c].session = session
      /\ st'[c].shifted = shifted /\ st'[c].mem = mem /\ st'[c].logits = mem
      /\ st'[c].emb = st[c].emb /\ st'[c].cached = st[c].cached /\ st'[c].reused = st[c].reused
      /\ st'[c].exact = st[c].exact /\ st'[c].decoded = st[c].decoded /\ st'[c].req = st[c].req
      /\ st'[c].pc = st[c].pc
  BY <1>1, <1>4, ZenonT(60) DEF Whole
<1> QED BY <1>1, <1>4, <1>5 DEF window, session, shifted, mem

\* Another call between two predictions changes what is in memory only.
LEMMA OtherCallEffect ==
    ASSUME Shapes, NEW c \in Ctx, OtherCall(c)
    PROVE  /\ Others(c) /\ Whole(st'[c]) /\ st[c].pc = "idle" /\ st'[c].pc = "idle"
           /\ st'[c].req = st[c].req
           /\ KeepsTokens(st[c], st'[c]) /\ KeepsWindow(st[c], st'[c])
<1>1. st = [d \in Ctx |-> st[d]] /\ Whole(st[c]) /\ st[c].pc = "idle"
  BY DEF Shapes, OtherCall, At
<1>2. PICK p \in Leftovers, e \in {TRUE, st[c].emb} :
         st' = [st EXCEPT ![c].mem = Linear(p), ![c].logits = Linear(p), ![c].emb = e]
  BY DEF OtherCall
<1> DEFINE mem == Linear(p)
<1>3. st' = [st EXCEPT ![c].mem = mem, ![c].logits = mem, ![c].emb = e]
  BY <1>2
<1> HIDE DEF mem
<1>4. Others(c) /\ st'[c] = [st[c] EXCEPT !.mem = mem, !.logits = mem, !.emb = e]
  BY <1>1, <1>3 DEF Others
<1>5. /\ Whole(st'[c]) /\ st'[c].pc = st[c].pc /\ st'[c].req = st[c].req
      /\ KeepsTokens(st[c], st'[c]) /\ KeepsWindow(st[c], st'[c])
  BY <1>1, <1>4, ZenonT(60) DEF Whole, KeepsTokens, KeepsWindow
<1> QED BY <1>1, <1>4, <1>5

---------------------------------------------------------------------------
\* A step of context c that leaves c in order leaves everything in order.
LEMMA TypeMoves ==
    ASSUME TypeInv, NEW c \in Ctx, Others(c), Whole(st'[c]), FilesTyped', crashes' = crashes,
           RequestInv(st'[c], FilesOf[c]), TokensInv(st'[c])
    PROVE  TypeInv'
<1>1. \A d \in Ctx : Whole(st'[d]) /\ RequestInv(st'[d], FilesOf[d]) /\ TokensInv(st'[d])
  BY DEF TypeInv, Shapes, Others
<1>2. Shapes'
  BY <1>1 DEF Others, Shapes
<1> QED BY <1>1, <1>2 DEF TypeInv

\* The prompt a call works on, and what stands for it in the cached session.
LEMMA PromptOfCall ==
    ASSUME TypeInv, NEW c \in Ctx, st[c].pc # "idle"
    PROVE  LET s == st[c]
               p == s.req.prompt
           IN  /\ p \in Seq(Token) /\ p # <<>> /\ Len(p) \in Nat /\ Len(p) < NCtx
               /\ Reuse(s.cached, p) \in 0..Len(p) /\ Reuse(s.cached, p) <= Len(s.cached)
               /\ s.cached = p => Reuse(s.cached, p) = Len(p)
               /\ s.cached # p => Reuse(s.cached, p) < Len(p)
               /\ s.cached = <<>> => Reuse(s.cached, p) = 0
               /\ SubSeq(s.cached, 1, Reuse(s.cached, p)) = SubSeq(p, 1, Reuse(s.cached, p))
               /\ Reuse(<<>>, p) = 0
<1> DEFINE p == st[c].req.prompt
           cached == st[c].cached
<1>1. p \in Prompts /\ Len(p) < NCtx /\ cached \in Seq(Token)
  BY DEF TypeInv, RequestInv, TokensInv
<1>2. p \in Seq(Token) /\ p # <<>> /\ <<>> \in Seq(Token)
  BY <1>1, PromptsAssumption
<1> HIDE DEF p, cached
<1>3. Len(p) \in Nat
  BY <1>2
<1>4. /\ Reuse(cached, p) \in 0..Len(p) /\ Reuse(cached, p) <= Len(cached)
      /\ cached = p => Reuse(cached, p) = Len(p)
      /\ cached # p => Reuse(cached, p) < Len(p)
      /\ cached = <<>> => Reuse(cached, p) = 0
      /\ SubSeq(cached, 1, Reuse(cached, p)) = SubSeq(p, 1, Reuse(cached, p))
  BY <1>1, <1>2, ReuseIsShared
<1>5. Reuse(<<>>, p) = 0
  BY <1>2, ReuseIsShared
<1> QED BY <1>1, <1>2, <1>3, <1>4, <1>5 DEF p, cached

\* No session file, an idle context.
LEMMA InitTypes == Init => TypeInv
<1> SUFFICES ASSUME Init PROVE TypeInv
  OBVIOUS
<1>1. \A c \in Ctx : st[c] = Fresh
  BY DEF Init
<1>2. Whole(Fresh) /\ \A files : RequestInv(Fresh, files) /\ TokensInv(Fresh)
  BY DEF Whole, RequestInv, TokensInv, Fresh, Idle, Labels, LoadSteps, SaveSteps
<1>3. Shapes
  BY <1>1, <1>2 DEF Init, Shapes
<1>4. FilesTyped
  BY DEF Init, FilesTyped
<1>5. crashes \in 0..MaxCrashes
  BY CrashAssumption DEF Init
<1> QED BY <1>1, <1>2, <1>3, <1>4, <1>5 DEF TypeInv

\* A call begins with nothing of an earlier one but what is in memory.
LEMMA CallTypes ==
    ASSUME TypeInv, NEW c \in Ctx, Call(c)
    PROVE  RequestInv(st'[c], FilesOf[c]) /\ TokensInv(st'[c])
<1> DEFINE s == st[c]
           t == st'[c]
<1>1. /\ s.pc = "idle" /\ t.cached = s.cached /\ t.reused = s.reused
      /\ t.exact = s.exact /\ t.decoded = s.decoded
  BY CallEffect DEF TypeInv
<1>2. PICK r \in Requests(c) : /\ Len(r.prompt) < NCtx /\ t.req = r /\ t.session = r.prompt
                               /\ t.pc = IF r.file = NoFile THEN "drop" ELSE "load"
  BY CallEffect DEF TypeInv
<1>3. r.prompt \in Prompts /\ r.prompt \in Seq(Token) \ {<<>>} /\ r.file \in FilesOf[c] \cup {NoFile}
  BY PromptsAssumption DEF Requests
<1>4. s = Idle(s.mem, s.logits, s.emb)
  BY <1>1 DEF TypeInv, RequestInv
<1>5. s.cached = <<>> /\ s.reused = 0 /\ s.exact = FALSE /\ s.decoded = 0
  BY <1>4 DEF Idle
<1>6. Reuse(<<>>, r.prompt) = 0 /\ <<>> \in Seq(Token)
  <2>1. r.prompt \in Seq(Token) /\ r.prompt # <<>> /\ <<>> \in Seq(Token)
    BY <1>3
  <2> QED BY <2>1, ReuseIsShared
<1> HIDE DEF s, t
<1>7. RequestInv(t, FilesOf[c])
  BY <1>2, <1>3 DEF RequestInv, Labels, LoadSteps, SaveSteps
<1>8. TokensInv(t)
  BY <1>1, <1>2, <1>3, <1>5, <1>6 DEF TokensInv, LoadSteps, SaveSteps
<1> QED BY <1>7, <1>8 DEF t

\* Nothing is reused yet.
LEMMA LoadTokensTypes ==
    ASSUME TypeInv, NEW c \in Ctx, LoadTokens(c)
    PROVE  RequestInv(st'[c], FilesOf[c]) /\ TokensInv(st'[c])
<1> DEFINE s == st[c]
           t == st'[c]
<1>1. /\ s.pc = "load" /\ t.req = s.req /\ RequestInv(s, FilesOf[c]) /\ TokensInv(s)
      /\ t.reused = s.reused /\ t.exact = s.exact /\ t.decoded = s.decoded /\ t.session = s.session
      /\ \/ t.pc = "drop" /\ t.cached = s.cached
         \/ t.pc = "load_state" /\ t.cached = file[s.req.file].tokens /\ t.cached # Torn
  BY LoadTokensEffect DEF TypeInv, KeepsTokens
<1>2. s.req.file \in File
  BY <1>1, FilesAssumption DEF RequestInv, LoadSteps
<1>3. t.cached \in Seq(Token)
  BY <1>1, <1>2 DEF TypeInv, FilesTyped, TokensInv
<1>4. /\ s.req.prompt # <<>> /\ Reuse(<<>>, s.req.prompt) = 0
  BY <1>1, PromptOfCall
<1> HIDE DEF s, t
<1>5. RequestInv(t, FilesOf[c])
  BY <1>1 DEF RequestInv, Labels, LoadSteps, SaveSteps
<1>6. TokensInv(t)
  BY <1>1, <1>3, <1>4 DEF TokensInv, LoadSteps, SaveSteps
<1> QED BY <1>5, <1>6 DEF t

\* What is reused is what the cached session has in common with the prompt.
LEMMA LoadStateTypes ==
    ASSUME TypeInv, NEW c \in Ctx, LoadState(c)
    PROVE  RequestInv(st'[c], FilesOf[c]) /\ TokensInv(st'[c])
<1> DEFINE s == st[c]
           t == st'[c]
<1>1. /\ s.pc = "load_state" /\ t.pc = "drop" /\ t.req = s.req
      /\ RequestInv(s, FilesOf[c]) /\ TokensInv(s)
      /\ t.decoded = s.decoded /\ t.session = s.session
      /\ \/ /\ t.cached = s.cached /\ t.exact = (s.cached = s.req.prompt)
            /\ t.reused = Reuse(s.cached, s.req.prompt)
         \/ t.cached = <<>> /\ t.exact = s.exact /\ t.reused = s.reused
  BY LoadStateEffect DEF TypeInv
<1>2. s.req.prompt # <<>> /\ Reuse(<<>>, s.req.prompt) = 0 /\ <<>> \in Seq(Token)
  BY <1>1, PromptOfCall
<1> HIDE DEF s, t
<1>3. RequestInv(t, FilesOf[c])
  BY <1>1 DEF RequestInv, Labels, LoadSteps, SaveSteps
<1>4. s.exact = FALSE /\ s.reused = 0 /\ s.decoded = 0 /\ s.session = s.req.prompt
  BY <1>1 DEF TokensInv, LoadSteps
<1>5. TokensInv(t)
  <2>1. t.reused = Reuse(t.cached, t.req.prompt) /\ (t.exact <=> t.cached = t.req.prompt)
    BY <1>1, <1>2, <1>4
  <2> QED BY <1>1, <1>2, <1>4, <2>1 DEF TokensInv, LoadSteps, SaveSteps
<1> QED BY <1>3, <1>5 DEF t

\* An exact hit has the whole prompt, any other call a part of it.
LEMMA DropTypes ==
    ASSUME TypeInv, NEW c \in Ctx, Drop(c)
    PROVE  RequestInv(st'[c], FilesOf[c]) /\ TokensInv(st'[c])
<1> DEFINE s == st[c]
           t == st'[c]
<1>1. /\ s.pc = "drop" /\ t.pc = (IF s.exact THEN "sampler" ELSE "decode") /\ t.req = s.req
      /\ RequestInv(s, FilesOf[c]) /\ TokensInv(s) /\ KeepsTokens(s, t)
  BY DropEffect DEF TypeInv
<1>2. /\ Reuse(s.cached, s.req.prompt) \in 0..Len(s.req.prompt) /\ Len(s.req.prompt) \in Nat
      /\ s.cached = s.req.prompt => Reuse(s.cached, s.req.prompt) = Len(s.req.prompt)
      /\ s.cached # s.req.prompt => Reuse(s.cached, s.req.prompt) < Len(s.req.prompt)
  BY <1>1, PromptOfCall
<1> HIDE DEF s, t
<1>3. /\ s.decoded = 0 /\ s.session = s.req.prompt
      /\ s.reused = Reuse(s.cached, s.req.prompt) /\ (s.exact <=> s.cached = s.req.prompt)
      /\ s.cached \in Seq(Token) /\ s.session \in Seq(Token)
  BY <1>1 DEF TokensInv, LoadSteps
<1>4. RequestInv(t, FilesOf[c])
  BY <1>1 DEF RequestInv, Labels, LoadSteps, SaveSteps
<1>5. TokensInv(t)
  <2>1. CASE s.exact
    <3>1. t.pc = "sampler" /\ s.reused + s.decoded = Len(s.req.prompt)
      BY <1>1, <1>2, <1>3, <2>1
    <3> QED BY <1>1, <1>3, <3>1 DEF TokensInv, KeepsTokens, LoadSteps, SaveSteps
  <2>2. CASE ~s.exact
    <3>1. t.pc = "decode" /\ s.reused + s.decoded < Len(s.req.prompt)
      BY <1>1, <1>2, <1>3, <2>2
    <3> QED BY <1>1, <1>3, <2>2, <3>1 DEF TokensInv, KeepsTokens, LoadSteps, SaveSteps
  <2> QED BY <2>1, <2>2
<1> QED BY <1>4, <1>5 DEF t

\* A chunk is not empty and does not go past the prompt.
LEMMA ChunkIsWithin ==
    ASSUME TypeInv, NEW c \in Ctx, st[c].pc = "decode"
    PROVE  /\ Done(st[c]) \in 0..Len(st[c].req.prompt) /\ Chunk(st[c]) \in Nat \ {0}
           /\ Done(st[c]) + Chunk(st[c]) \in 0..Len(st[c].req.prompt)
<1> DEFINE s == st[c]
           n == Len(s.req.prompt)
<1>1. /\ n \in Nat /\ s.reused \in Nat /\ s.decoded \in Nat /\ s.reused + s.decoded < n
  <2>1. TokensInv(s)
    BY DEF TypeInv
  <2>2. s.reused = Reuse(s.cached, s.req.prompt) /\ s.decoded \in Nat /\ s.reused + s.decoded < n
    BY <2>1 DEF TokensInv, LoadSteps
  <2>3. Reuse(s.cached, s.req.prompt) \in 0..n /\ n \in Nat
    BY PromptOfCall
  <2> QED BY <2>2, <2>3
<1> HIDE DEF n
<1>2. Done(s) \in 0..n /\ n - Done(s) \in Nat \ {0}
  BY <1>1 DEF Done
<1>3. Batch \in Nat \ {0}
  BY CtxAssumption
<1>4. Chunk(s) = IF Batch <= n - Done(s) THEN Batch ELSE n - Done(s)
  BY <1>2, <1>3, MinOfTwo DEF Chunk, n
<1>5. Chunk(s) \in Nat \ {0} /\ Done(s) + Chunk(s) \in 0..n
  BY <1>1, <1>2, <1>3, <1>4
<1> QED BY <1>2, <1>5 DEF n

\* The decoded part of the prompt grows until it is the prompt.
LEMMA DecodeTypes ==
    ASSUME TypeInv, NEW c \in Ctx, DecodeChunk(c)
    PROVE  RequestInv(st'[c], FilesOf[c]) /\ TokensInv(st'[c])
<1> DEFINE s == st[c]
           t == st'[c]
           n == Chunk(s)
<1>1. /\ s.pc = "decode" /\ t.req = s.req /\ RequestInv(s, FilesOf[c]) /\ TokensInv(s)
      /\ t.cached = s.cached /\ t.reused = s.reused /\ t.exact = s.exact
      /\ t.session = s.session /\ t.decoded = s.decoded + n
      /\ t.pc = IF Done(s) + n < Len(s.req.prompt) THEN "decode"
                ELSE IF SavesPrompt(s.req) THEN "save" ELSE "sampler"
  BY DecodeEffect DEF TypeInv
<1>2. /\ Done(s) \in 0..Len(s.req.prompt) /\ n \in Nat
      /\ Done(s) + n \in 0..Len(s.req.prompt)
  BY <1>1, ChunkIsWithin
<1>3. Len(s.req.prompt) \in Nat /\ Reuse(s.cached, s.req.prompt) \in 0..Len(s.req.prompt)
  BY <1>1, PromptOfCall
<1> HIDE DEF s, t, n
<1>4. /\ s.decoded \in Nat /\ s.session = s.req.prompt /\ ~s.exact
      /\ s.reused = Reuse(s.cached, s.req.prompt) /\ (s.exact <=> s.cached = s.req.prompt)
      /\ s.cached \in Seq(Token) /\ s.session \in Seq(Token)
  BY <1>1 DEF TokensInv, LoadSteps
<1>5. RequestInv(t, FilesOf[c])
  BY <1>1 DEF RequestInv, Labels, LoadSteps, SaveSteps
<1>6. t.reused + t.decoded = Done(s) + n /\ t.decoded \in Nat
  BY <1>1, <1>2, <1>3, <1>4, SMTT(40) DEF Done
<1>7. TokensInv(t)
  <2>1. CASE Done(s) + n < Len(s.req.prompt)
    <3>1. t.pc = "decode" /\ t.reused + t.decoded < Len(t.req.prompt)
      BY <1>1, <1>6, <2>1
    <3> QED BY <1>1, <1>4, <1>6, <3>1 DEF TokensInv, LoadSteps, SaveSteps
  <2>2. CASE ~(Done(s) + n < Len(s.req.prompt))
    <3>1. t.pc \in {"save", "sampler"} /\ t.reused + t.decoded = Len(t.req.prompt)
      BY <1>1, <1>2, <1>3, <1>6, <2>2
    <3> QED BY <1>1, <1>4, <1>6, <3>1 DEF TokensInv, LoadSteps, SaveSteps
  <2> QED BY <2>1, <2>2
<1> QED BY <1>5, <1>7 DEF t

\* The end of a call leaves nothing behind, another label little to check.
LEMMA IdleTypes ==
    ASSUME NEW mem, NEW logits, NEW emb, NEW files
    PROVE  RequestInv(Idle(mem, logits, emb), files) /\ TokensInv(Idle(mem, logits, emb))
<1> QED BY DEF RequestInv, TokensInv, Idle, Labels, LoadSteps, SaveSteps

LEMMA GotoTypes ==
    ASSUME TypeInv, NEW c \in Ctx, NEW label, Goto(c, label),
           \/ label = "idle"
           \/ /\ st[c].pc \in SaveSteps /\ label \in SaveSteps
           \/ /\ st[c].pc \in SaveSteps /\ label = "sampler" /\ SavesPrompt(st[c].req)
           \/ /\ st[c].pc = "generate" /\ label = "save" /\ SavesAll(st[c].req)
    PROVE  RequestInv(st'[c], FilesOf[c]) /\ TokensInv(st'[c])
<1> DEFINE s == st[c]
           t == st'[c]
<1>1. CASE label = "idle"
  BY <1>1, GotoEffect, IdleTypes DEF TypeInv
<1>2. CASE label # "idle"
  <2>1. /\ t.pc = label /\ t.req = s.req /\ KeepsTokens(s, t)
        /\ RequestInv(s, FilesOf[c]) /\ TokensInv(s)
    BY <1>2, GotoEffect DEF TypeInv
  <2> HIDE DEF s, t
  <2>2. RequestInv(t, FilesOf[c])
    BY <1>2, <2>1 DEF RequestInv, Labels, LoadSteps, SaveSteps, s
  <2>3. ~(SavesPrompt(s.req) /\ SavesAll(s.req))
    BY DEF SavesPrompt, SavesAll
  <2>4. TokensInv(t)
    BY <1>2, <2>1, <2>3 DEF TokensInv, KeepsTokens, LoadSteps, SaveSteps, s
  <2> QED BY <2>2, <2>4 DEF t
<1> QED BY <1>1, <1>2

\* Generation adds tokens to the session; the prompt stays decoded.
LEMMA GenerateTypes ==
    ASSUME TypeInv, NEW c \in Ctx, CreateSampler(c) \/ GenerateToken(c)
    PROVE  RequestInv(st'[c], FilesOf[c]) /\ TokensInv(st'[c])
<1> DEFINE s == st[c]
           t == st'[c]
<1>1. /\ s.pc \in {"sampler", "generate"} /\ t.pc = "generate" /\ t.req = s.req
      /\ RequestInv(s, FilesOf[c]) /\ TokensInv(s)
      /\ t.cached = s.cached /\ t.reused = s.reused /\ t.exact = s.exact /\ t.decoded = s.decoded
      /\ t.session = s.session \/ \E x \in Token : t.session = Append(s.session, x)
  <2>1. CASE CreateSampler(c)
    BY <2>1, SamplerEffect DEF TypeInv, KeepsTokens
  <2>2. CASE GenerateToken(c)
    BY <2>2, GenerateEffect DEF TypeInv
  <2> QED BY <2>1, <2>2
<1>2. s.session \in Seq(Token)
  BY <1>1 DEF TokensInv
<1> HIDE DEF s, t
<1>3. t.session \in Seq(Token)
  <2>1. \A x \in Token : Append(s.session, x) \in Seq(Token)
    BY <1>2
  <2> QED BY <1>1, <1>2, <2>1, Zenon
<1>4. RequestInv(t, FilesOf[c])
  BY <1>1 DEF RequestInv, Labels, LoadSteps, SaveSteps
<1>5. TokensInv(t)
  BY <1>1, <1>3 DEF TokensInv, LoadSteps, SaveSteps
<1> QED BY <1>4, <1>5 DEF t

\* Whatever another call leaves in memory, there is no call to describe.
LEMMA OtherCallTypes ==
    ASSUME TypeInv, NEW c \in Ctx, OtherCall(c)
    PROVE  RequestInv(st'[c], FilesOf[c]) /\ TokensInv(st'[c])
<1> DEFINE s == st[c]
           t == st'[c]
<1>1. /\ s.pc = "idle" /\ t.pc = "idle" /\ t.req = s.req /\ KeepsTokens(s, t) /\ KeepsWindow(s, t)
      /\ Whole(t) /\ RequestInv(s, FilesOf[c])
  BY OtherCallEffect DEF TypeInv
<1>2. s = Idle(s.mem, s.logits, s.emb)
  BY <1>1 DEF RequestInv
<1>3. t = Idle(t.mem, t.logits, t.emb)
  <2>1. /\ s.req = [prompt |-> <<>>, file |-> NoFile, ro |-> FALSE, all |-> FALSE]
        /\ s.cached = <<>> /\ s.reused = 0 /\ s.exact = FALSE /\ s.decoded = 0
        /\ s.session = <<>> /\ s.window = <<>> /\ s.shifted = FALSE
    <3> HIDE DEF s
    <3> QED BY <1>2 DEF Idle
  <2> HIDE DEF s, t
  <2> QED BY <1>1, <2>1 DEF Idle, Whole, KeepsTokens, KeepsWindow
<1> HIDE DEF t
<1>4. RequestInv(t, FilesOf[c]) /\ TokensInv(t)
  BY <1>3, IdleTypes
<1> QED BY <1>4 DEF t

\* The steps of a save, and what each leaves in the file.
LEMMA SaveIsTyped ==
    ASSUME TypeInv, NEW c \in Ctx, SaveOpen(c) \/ SaveTokens(c) \/ SaveState(c) \/ SaveFails(c)
    PROVE  RequestInv(st'[c], FilesOf[c]) /\ TokensInv(st'[c]) /\ Others(c) /\ Whole(st'[c])
<1>1. st[c].pc \in SaveSteps
  BY DEF SaveOpen, SaveTokens, SaveState, SaveFails, At, SaveSteps
<1>2. Goto(c, "save_tokens") \/ Goto(c, "save_state") \/ Goto(c, AfterSave(st[c]))
  BY DEF SaveOpen, SaveTokens, SaveState, SaveFails
<1>3. PICK label : /\ Goto(c, label)
                   /\ \/ label \in SaveSteps
                      \/ label = "sampler" /\ SavesPrompt(st[c].req)
                      \/ label = "idle"
  BY <1>2 DEF AfterSave, SaveSteps
<1> QED BY <1>1, <1>3, GotoTypes, GotoEffect DEF TypeInv

\* The file a save writes, and its parts afterwards.
LEMMA SaveWrites ==
    ASSUME TypeInv, NEW c \in Ctx, SaveOpen(c) \/ SaveTokens(c) \/ SaveState(c)
    PROVE  LET f == st[c].req.file IN
           /\ f \in FilesOf[c] /\ f \in File
           /\ file' = [g \in File |-> file'[g]] /\ \A g \in File \ {f} : file'[g] = file[g]
           /\ file'[f] = [tokens |-> file'[f].tokens, state |-> file'[f].state]
           /\ SaveOpen(c) => file'[f].tokens = Torn /\ file'[f].state = Torn
           /\ SaveTokens(c) => file'[f].tokens = st[c].session /\ file'[f].state = file[f].state
           /\ SaveState(c) => /\ file'[f].tokens = file[f].tokens
                              /\ file'[f].state = [at |-> Len(st[c].session), mem |-> st[c].mem,
                                                   logits |-> st[c].logits]
<1> DEFINE f == st[c].req.file
           saved == [at |-> Len(st[c].session), mem |-> st[c].mem, logits |-> st[c].logits]
<1>1. st[c].pc \in SaveSteps
  BY DEF SaveOpen, SaveTokens, SaveState, At, SaveSteps
<1>2. RequestInv(st[c], FilesOf[c])
  BY DEF TypeInv
<1>3. f # NoFile
  BY <1>1, <1>2 DEF RequestInv, SavesPrompt, SavesAll
<1>4. f \in FilesOf[c] /\ f \in File
  BY <1>1, <1>2, <1>3, FilesAssumption DEF RequestInv, SaveSteps
<1>5. /\ file = [g \in File |-> file[g]]
      /\ file[f] = [tokens |-> file[f].tokens, state |-> file[f].state]
  BY <1>4 DEF TypeInv, FilesTyped
<1>6. /\ SaveOpen(c) => file' = [file EXCEPT ![f] = [tokens |-> Torn, state |-> Torn]]
      /\ SaveTokens(c) => file' = [file EXCEPT ![f].tokens = st[c].session]
      /\ SaveState(c) => file' = [file EXCEPT ![f].state = saved]
      /\ ~(SaveOpen(c) /\ SaveTokens(c)) /\ ~(SaveOpen(c) /\ SaveState(c)) /\ ~(SaveTokens(c) /\ SaveState(c))
  BY DEF SaveOpen, SaveTokens, SaveState, At
<1> HIDE DEF f, saved
<1>7. CASE SaveOpen(c)
  <2>1. file' = [file EXCEPT ![f] = [tokens |-> Torn, state |-> Torn]]
    BY <1>6, <1>7
  <2> QED BY <1>4, <1>5, <1>6, <1>7, <2>1 DEF f
<1>8. CASE SaveTokens(c)
  <2>1. /\ file' = [file EXCEPT ![f].tokens = st[c].session]
        /\ ~SaveOpen(c) /\ ~SaveState(c)
    BY <1>6, <1>8
  <2>2. /\ file' = [g \in File |-> file'[g]] /\ \A g \in File \ {f} : file'[g] = file[g]
        /\ file'[f] = [file[f] EXCEPT !.tokens = st[c].session]
    BY <1>4, <1>5, <2>1
  <2>3. /\ file'[f] = [tokens |-> file'[f].tokens, state |-> file'[f].state]
        /\ file'[f].tokens = st[c].session /\ file'[f].state = file[f].state
    BY <1>5, <2>2
  <2> QED BY <1>4, <2>1, <2>2, <2>3 DEF f
<1>9. CASE SaveState(c)
  <2>1. /\ file' = [file EXCEPT ![f].state = saved]
        /\ ~SaveOpen(c) /\ ~SaveTokens(c)
    BY <1>6, <1>9
  <2>2. /\ file' = [g \in File |-> file'[g]] /\ \A g \in File \ {f} : file'[g] = file[g]
        /\ file'[f] = [file[f] EXCEPT !.state = saved]
    BY <1>4, <1>5, <2>1
  <2>3. /\ file'[f] = [tokens |-> file'[f].tokens, state |-> file'[f].state]
        /\ file'[f].tokens = file[f].tokens /\ file'[f].state = saved
    BY <1>5, <2>2
  <2> QED BY <1>4, <2>1, <2>2, <2>3 DEF f, saved
<1> QED BY <1>7, <1>8, <1>9

\* What a save writes is a list of tokens.
LEMMA SavedIsTyped ==
    ASSUME TypeInv, NEW c \in Ctx, SaveOpen(c) \/ SaveTokens(c) \/ SaveState(c)
    PROVE  FilesTyped'
<1> DEFINE f == st[c].req.file
<1>1. /\ f \in File
      /\ file' = [g \in File |-> file'[g]] /\ \A g \in File \ {f} : file'[g] = file[g]
      /\ file'[f] = [tokens |-> file'[f].tokens, state |-> file'[f].state]
      /\ file'[f].tokens \in {Torn, st[c].session, file[f].tokens}
  BY SaveWrites
<1>2. st[c].session \in Seq(Token) /\ FilesTyped
  BY DEF TypeInv, TokensInv
<1> HIDE DEF f
<1>3. file'[f].tokens = Torn \/ file'[f].tokens \in Seq(Token)
  BY <1>1, <1>2 DEF FilesTyped
<1> QED BY <1>1, <1>2, <1>3 DEF FilesTyped

\* Every step keeps the types.
LEMMA TypeStep == TypeInv /\ [Next]_vars => TypeInv'
<1> SUFFICES ASSUME TypeInv, [Next]_vars PROVE TypeInv'
  OBVIOUS
<1>1. CASE UNCHANGED vars
  BY <1>1 DEF vars, TypeInv, Shapes, FilesTyped
<1>2. CASE Crash
  <2>1. /\ st' = [c \in Ctx |-> Fresh] /\ file' = file
        /\ crashes < MaxCrashes /\ crashes' = crashes + 1
    BY <1>2 DEF Crash
  <2>2. Whole(Fresh) /\ \A files : RequestInv(Fresh, files) /\ TokensInv(Fresh)
    BY IdleTypes DEF Whole, Fresh, Idle
  <2>3. Shapes' /\ FilesTyped'
    BY <2>1, <2>2 DEF Shapes, FilesTyped, TypeInv
  <2>4. crashes' \in 0..MaxCrashes
    BY <2>1, CrashAssumption DEF TypeInv
  <2> QED BY <2>1, <2>2, <2>3, <2>4 DEF TypeInv
<1>3. ASSUME NEW c \in Ctx, Call(c) \/ OtherCall(c) \/ Step(c)
      PROVE  TypeInv'
  <2>1. CASE Call(c)
    <3>1. Others(c) /\ Whole(st'[c]) /\ UNCHANGED <<file, crashes>>
      BY <2>1, CallEffect DEF Call, Quiet, TypeInv
    <3>2. FilesTyped'
      BY <3>1 DEF TypeInv, FilesTyped
    <3> QED BY <2>1, <3>1, <3>2, CallTypes, TypeMoves
  <2>2. CASE OtherCall(c)
    <3>1. Others(c) /\ Whole(st'[c]) /\ UNCHANGED <<file, crashes>>
      BY <2>2, OtherCallEffect DEF OtherCall, Quiet, TypeInv
    <3>2. FilesTyped'
      BY <3>1 DEF TypeInv, FilesTyped
    <3> QED BY <2>2, <3>1, <3>2, OtherCallTypes, TypeMoves
  <2>3. CASE LoadTokens(c)
    <3>1. Others(c) /\ Whole(st'[c]) /\ UNCHANGED <<file, crashes>>
      BY <2>3, LoadTokensEffect DEF LoadTokens, Quiet, TypeInv
    <3>2. FilesTyped'
      BY <3>1 DEF TypeInv, FilesTyped
    <3> QED BY <2>3, <3>1, <3>2, LoadTokensTypes, TypeMoves
  <2>4. CASE LoadState(c)
    <3>1. Others(c) /\ Whole(st'[c]) /\ UNCHANGED <<file, crashes>>
      BY <2>4, LoadStateEffect DEF LoadState, Quiet, TypeInv
    <3>2. FilesTyped'
      BY <3>1 DEF TypeInv, FilesTyped
    <3> QED BY <2>4, <3>1, <3>2, LoadStateTypes, TypeMoves
  <2>5. CASE Drop(c)
    <3>1. Others(c) /\ Whole(st'[c]) /\ UNCHANGED <<file, crashes>>
      BY <2>5, DropEffect DEF Drop, Quiet, TypeInv
    <3>2. FilesTyped'
      BY <3>1 DEF TypeInv, FilesTyped
    <3> QED BY <2>5, <3>1, <3>2, DropTypes, TypeMoves
  <2>6. CASE DecodeChunk(c)
    <3>1. Others(c) /\ Whole(st'[c]) /\ UNCHANGED <<file, crashes>>
      BY <2>6, DecodeEffect DEF DecodeChunk, Quiet, TypeInv
    <3>2. FilesTyped'
      BY <3>1 DEF TypeInv, FilesTyped
    <3> QED BY <2>6, <3>1, <3>2, DecodeTypes, TypeMoves
  <2>7. CASE Fail(c) \/ EndGeneration(c)
    <3>1. PICK label : /\ Goto(c, label) /\ UNCHANGED <<file, crashes>>
                       /\ \/ label = "idle"
                          \/ st[c].pc = "generate" /\ label = "save" /\ SavesAll(st[c].req)
      BY <2>7 DEF Fail, EndGeneration, SavesSession, At, Quiet
    <3>2. Others(c) /\ Whole(st'[c])
      BY <3>1, GotoEffect DEF TypeInv
    <3>3. FilesTyped'
      BY <3>1 DEF TypeInv, FilesTyped
    <3> QED BY <3>1, <3>2, <3>3, GotoTypes, TypeMoves
  <2>8. CASE SaveOpen(c) \/ SaveTokens(c) \/ SaveState(c) \/ SaveFails(c)
    <3>1. crashes' = crashes
      BY <2>8 DEF SaveOpen, SaveTokens, SaveState, SaveFails, Quiet
    <3>2. SaveFails(c) => FilesTyped'
      BY DEF SaveFails, Quiet, TypeInv, FilesTyped
    <3>3. FilesTyped'
      BY <2>8, <3>2, SavedIsTyped
    <3> QED BY <2>8, <3>1, <3>3, SaveIsTyped, TypeMoves
  <2>9. CASE CreateSampler(c) \/ GenerateToken(c)
    <3>1. Others(c) /\ Whole(st'[c]) /\ UNCHANGED <<file, crashes>>
      BY <2>9, SamplerEffect, GenerateEffect DEF CreateSampler, GenerateToken, Quiet, TypeInv
    <3>2. FilesTyped'
      BY <3>1 DEF TypeInv, FilesTyped
    <3> QED BY <2>9, <3>1, <3>2, GenerateTypes, TypeMoves
  <2> QED BY <1>3, <2>1, <2>2, <2>3, <2>4, <2>5, <2>6, <2>7, <2>8, <2>9 DEF Step
<1> QED BY <1>1, <1>2, <1>3 DEF Next

\* A context is at a step of llama_predict, counts no token it does not have,
\* and a session file holds a token list or none.
LEMMA TypesFollow == TypeInv => TypeOK
<1> SUFFICES ASSUME TypeInv PROVE TypeOK
  OBVIOUS
<1>1. ASSUME NEW c \in Ctx
      PROVE  /\ st[c].pc \in Labels /\ st[c].session \in Seq(Token)
             /\ st[c].reused \in 0..NCtx /\ st[c].decoded \in 0..NCtx
  <2> DEFINE s == st[c]
             n == Len(s.req.prompt)
  <2>1. RequestInv(s, FilesOf[c]) /\ TokensInv(s) /\ NCtx \in Nat
    BY CtxAssumption DEF TypeInv
  <2>2. s.pc \in Labels /\ s.session \in Seq(Token) /\ s.decoded \in Nat
    BY <2>1 DEF RequestInv, TokensInv
  <2>3. CASE s.pc = "idle"
    <3>1. s = Idle(s.mem, s.logits, s.emb)
      BY <2>1, <2>3 DEF RequestInv
    <3>2. s.reused = 0 /\ s.decoded = 0
      BY <3>1 DEF Idle
    <3> QED BY <2>1, <2>2, <3>2
  <2>4. CASE s.pc # "idle"
    <3>1. n \in Nat /\ n < NCtx /\ Reuse(s.cached, s.req.prompt) \in 0..n
      BY <2>4, PromptOfCall
    <3> HIDE DEF n
    <3>2. s.pc \in LoadSteps \cup {"drop"} => s.decoded = 0
      BY <2>1 DEF TokensInv
    <3>3. s.pc \notin LoadSteps \cup {"drop"} => s.reused + s.decoded <= n
      BY <2>1, <2>2, <2>4, <3>1 DEF TokensInv, RequestInv, Labels, LoadSteps, SaveSteps, n
    <3>4. s.reused \in 0..n
      BY <2>1, <2>4, <3>1 DEF TokensInv
    <3>5. s.decoded <= n
      BY <2>2, <3>1, <3>2, <3>3, <3>4
    <3> QED BY <2>1, <2>2, <3>1, <3>4, <3>5
  <2> QED BY <2>3, <2>4
<1> QED BY <1>1 DEF TypeOK, TypeInv, FilesTyped

\* Types: however many contexts share a session file, whatever fails and
\* whatever a crash leaves, the counts of llama_predict stay in their ranges
\* and a file's token list is a list of tokens.
THEOREM Types == Spec => []TypeOK
<1> QED BY InitTypes, TypeStep, TypesFollow, PTL DEF Spec

\* What has been decoded is what the cached session does not cover.
LEMMA DecodedIsSuffix == TypeInv => OnlySuffixDecoded
<1> SUFFICES ASSUME TypeInv, NEW c \in Ctx, st[c].pc = "sampler"
             PROVE  LET common == PrefixLen(st[c].cached, st[c].req.prompt)
                        covered == common = Len(st[c].req.prompt) /\ common < Len(st[c].cached)
                    IN  st[c].decoded = Len(st[c].req.prompt) - common + (IF covered THEN 1 ELSE 0)
  BY DEF OnlySuffixDecoded, At
<1> DEFINE cached == st[c].cached
           p == st[c].req.prompt
           common == PrefixLen(cached, p)
<1>1. TokensInv(st[c]) /\ p \in Seq(Token) /\ Len(p) \in Nat
  BY PromptOfCall DEF TypeInv
<1>2. /\ cached \in Seq(Token) /\ st[c].decoded \in Nat
      /\ st[c].reused = Reuse(cached, p) /\ st[c].reused + st[c].decoded = Len(p)
  BY <1>1 DEF TokensInv, LoadSteps
<1> HIDE DEF cached, p, common
<1>3. /\ common \in 0..Len(cached) /\ common <= Len(p)
      /\ SubSeq(cached, 1, common) = SubSeq(p, 1, common)
      /\ \A n \in 0..Len(cached) : n <= Len(p) /\ SubSeq(cached, 1, n) = SubSeq(p, 1, n) => n <= common
  BY <1>1, <1>2, PrefixLenIsLongest DEF common
<1>4. Reuse(cached, p) = IF cached # p /\ common >= Len(p) THEN Len(p) - 1 ELSE common
  BY DEF Reuse, common
<1>5. Len(cached) \in Nat /\ common \in Nat
  BY <1>2, <1>3
<1>6. CASE cached = p
  <2>1. common = Len(p)
    BY <1>1, <1>3, <1>5, <1>6
  <2>2. st[c].reused = common
    BY <1>2, <1>4, <1>6
  <2>3. st[c].decoded = 0 /\ ~(common < Len(cached))
    BY <1>1, <1>2, <1>5, <1>6, <2>1, <2>2
  <2> QED BY <1>1, <2>1, <2>3 DEF cached, p, common
<1>7. CASE cached # p /\ common >= Len(p)
  <2>1. common = Len(p) /\ SubSeq(p, 1, common) = p
    BY <1>1, <1>3, <1>5, <1>7
  <2>2. common # Len(cached)
    <3>1. SUFFICES ASSUME common = Len(cached) PROVE FALSE
      OBVIOUS
    <3>2. SubSeq(cached, 1, common) = cached
      BY <1>2, <3>1
    <3> QED BY <1>3, <1>7, <2>1, <3>2
  <2>3. common < Len(cached)
    BY <1>3, <1>5, <2>2
  <2>4. st[c].decoded = 1
    BY <1>1, <1>2, <1>4, <1>7
  <2> QED BY <1>1, <2>1, <2>3, <2>4 DEF cached, p, common
<1>8. CASE cached # p /\ common < Len(p)
  <2>1. st[c].decoded = Len(p) - common
    BY <1>1, <1>2, <1>4, <1>5, <1>8
  <2> QED BY <1>1, <1>5, <1>8, <2>1 DEF cached, p, common
<1>9. common >= Len(p) \/ common < Len(p)
  BY <1>1, <1>5
<1> QED BY <1>6, <1>7, <1>8, <1>9

\* Decoding: when the first token is sampled, exactly the prompt tokens that the
\* cached session does not cover have been decoded, and the last one once more
\* when the session goes on after it; whatever the files hold and whoever else
\* writes them.
THEOREM DecodesOnlySuffix == Spec => []OnlySuffixDecoded
<1> QED BY InitTypes, TypeStep, DecodedIsSuffix, PTL DEF Spec

---------------------------------------------------------------------------
\* What the file's entry has to say for it to be a session.
Session(F) ==
    F.tokens # Torn /\ F.state # Torn /\ F.state.at = Len(F.tokens) =>
        F.state.mem = Linear(F.tokens) /\ F.state.logits = F.state.mem

\* The files of the other contexts are not written by a step of context c, so
\* what they rely on still holds.
LEMMA InvMoves ==
    ASSUME FilesApart, Inv, TypeInv', NEW c \in Ctx, Others(c),
           \A g \in File \ FilesOf[c] : file'[g] = file[g],
           \A g \in File : Session(file'[g]),
           MemoryInv(st'[c]), OwnFile(st[c])'
    PROVE  Inv'
<1>1. \A d \in Ctx : MemoryInv(st'[d])
  BY DEF Inv, Others
<1>2. ASSUME NEW d \in Ctx \ {c} PROVE OwnFile(st[d])'
  <2>1. st'[d] = st[d] /\ OwnFile(st[d]) /\ RequestInv(st[d], FilesOf[d])
    BY DEF Inv, TypeInv, Others
  <2>2. CASE st[d].req.file \notin File
    BY <2>1, <2>2 DEF OwnFile
  <2>3. CASE st[d].pc = "idle"
    BY <2>1, <2>3 DEF OwnFile, FileInv
  <2>4. CASE st[d].req.file \in File /\ st[d].pc # "idle"
    <3>1. st[d].req.file \in FilesOf[d]
      BY <2>1, <2>4, CtxAssumption DEF RequestInv
    <3>2. st[d].req.file \notin FilesOf[c]
      BY <3>1 DEF FilesApart
    <3>3. file'[st[d].req.file] = file[st[d].req.file]
      BY <2>4, <3>2
    <3> QED BY <2>1, <2>4, <3>3 DEF OwnFile
  <2> QED BY <2>2, <2>3, <2>4
<1>3. FileConsistent'
  BY DEF FileConsistent, Session
<1> QED BY <1>1, <1>2, <1>3 DEF Inv

\* Most steps do not touch a file.
LEMMA InvMovesQuietly ==
    ASSUME FilesApart, Inv, TypeInv', NEW c \in Ctx, Others(c), file' = file,
           MemoryInv(st'[c]), OwnFile(st'[c])
    PROVE  Inv'
<1>1. \A g \in File : Session(file[g])
  BY DEF Inv, FileConsistent, Session
<1>2. OwnFile(st[c])'
  BY DEF OwnFile
<1> QED BY <1>1, <1>2, InvMoves

LEMMA IdleMemory ==
    ASSUME NEW mem, NEW logits, NEW emb
    PROVE  MemoryInv(Idle(mem, logits, emb)) /\ OwnFile(Idle(mem, logits, emb))
<1> QED BY DEF MemoryInv, OwnFile, FileInv, Idle, SaveSteps

\* No session file can be loaded yet.
LEMMA InitHolds == Init => Inv
<1> SUFFICES ASSUME Init PROVE Inv
  OBVIOUS
<1>1. \A c \in Ctx : st[c] = Fresh
  BY DEF Init
<1>2. FileConsistent
  BY DEF Init, FileConsistent
<1>3. \A c \in Ctx : MemoryInv(st[c]) /\ OwnFile(st[c])
  BY <1>1, IdleMemory DEF Fresh
<1> QED BY <1>2, <1>3, InitTypes DEF Inv

\* A call begins with no session.
LEMMA CallMemory ==
    ASSUME Inv, NEW c \in Ctx, Call(c)
    PROVE  MemoryInv(st'[c]) /\ OwnFile(st'[c])
<1> DEFINE s == st[c]
           t == st'[c]
<1>1. /\ s.pc = "idle" /\ t.pc \in {"drop", "load"} /\ t.reused = s.reused /\ t.exact = s.exact
      /\ KeepsWindow(s, t) /\ RequestInv(s, FilesOf[c])
  BY CallEffect DEF Inv, TypeInv
<1>2. s = Idle(s.mem, s.logits, s.emb)
  BY <1>1 DEF RequestInv
<1> HIDE DEF s, t
<1>3. s.reused = 0 /\ s.exact = FALSE /\ ~s.shifted
  BY <1>2 DEF Idle
<1>4. MemoryInv(t)
  BY <1>1, <1>3 DEF MemoryInv, KeepsWindow, SaveSteps
<1>5. OwnFile(t)
  BY <1>1 DEF OwnFile, FileInv
<1> QED BY <1>4, <1>5 DEF t

\* The token list that was read is the file's until its state has been read.
LEMMA LoadTokensMemory ==
    ASSUME Inv, NEW c \in Ctx, LoadTokens(c)
    PROVE  MemoryInv(st'[c]) /\ OwnFile(st'[c])
<1> DEFINE s == st[c]
           t == st'[c]
<1>1. /\ s.pc = "load" /\ t.req = s.req /\ TokensInv(s) /\ MemoryInv(s)
      /\ t.reused = s.reused /\ t.exact = s.exact /\ KeepsWindow(s, t)
      /\ \/ t.pc = "drop"
         \/ t.pc = "load_state" /\ t.cached = file[t.req.file].tokens /\ t.cached # Torn
  BY LoadTokensEffect DEF Inv, TypeInv, KeepsTokens
<1> HIDE DEF s, t
<1>2. s.reused = 0 /\ s.exact = FALSE /\ ~s.shifted
  BY <1>1 DEF TokensInv, MemoryInv, LoadSteps
<1>3. MemoryInv(t)
  BY <1>1, <1>2 DEF MemoryInv, KeepsWindow, SaveSteps
<1>4. OwnFile(t)
  BY <1>1 DEF OwnFile, FileInv
<1> QED BY <1>3, <1>4 DEF t

\* A state that follows its token list is the state of those tokens.
LEMMA LoadStateMemory ==
    ASSUME Inv, NEW c \in Ctx, LoadState(c)
    PROVE  MemoryInv(st'[c]) /\ OwnFile(st'[c])
<1> DEFINE s == st[c]
           t == st'[c]
           F == file[s.req.file]
<1>1. /\ s.pc = "load_state" /\ t.pc = "drop" /\ t.req = s.req /\ KeepsWindow(s, t)
      /\ RequestInv(s, FilesOf[c]) /\ TokensInv(s) /\ MemoryInv(s) /\ OwnFile(s)
      /\ \/ /\ F.state # Torn /\ F.state.at = Len(s.cached)
            /\ t.mem = F.state.mem /\ t.logits = F.state.logits /\ t.cached = s.cached
         \/ t.exact = s.exact /\ t.reused = s.reused
  BY LoadStateEffect DEF Inv, TypeInv
<1>2. s.req.file \in File
  BY <1>1, FilesAssumption DEF RequestInv, LoadSteps
<1>3. Session(F)
  BY <1>2 DEF Inv, FileConsistent, Session
<1>4. F.tokens = s.cached /\ s.cached # Torn
  BY <1>1, <1>2 DEF OwnFile, FileInv
<1> HIDE DEF s, t, F
<1>5. s.reused = 0 /\ s.exact = FALSE /\ ~s.shifted
  BY <1>1 DEF TokensInv, MemoryInv, LoadSteps
<1>6. F.state # Torn /\ F.state.at = Len(s.cached) => F.state.mem = Linear(s.cached) /\ F.state.logits = F.state.mem
  BY <1>3, <1>4 DEF Session
<1>7. t.exact \/ t.reused > 0 => t.mem = Linear(t.cached) /\ t.logits = t.mem
  BY <1>1, <1>5, <1>6
<1>8. MemoryInv(t)
  BY <1>1, <1>5, <1>7 DEF MemoryInv, KeepsWindow, SaveSteps
<1>9. OwnFile(t)
  BY <1>1 DEF OwnFile, FileInv
<1> QED BY <1>8, <1>9 DEF t

\* What is kept of a session is the part of the prompt it stands for.
LEMMA DropMemory ==
    ASSUME ~Recurrent, Inv, NEW c \in Ctx, Drop(c)
    PROVE  MemoryInv(st'[c]) /\ OwnFile(st'[c])
<1> DEFINE s == st[c]
           t == st'[c]
           p == s.req.prompt
<1>1. /\ s.pc = "drop" /\ t.pc = (IF s.exact THEN "sampler" ELSE "decode") /\ t.req = s.req
      /\ t.mem = Kept(s) /\ t.logits = s.logits /\ t.emb = FALSE
      /\ KeepsTokens(s, t) /\ KeepsWindow(s, t) /\ TokensInv(s) /\ MemoryInv(s)
  BY DropEffect DEF Inv, TypeInv
<1>2. /\ p \in Seq(Token) /\ Reuse(s.cached, p) \in 0..Len(p) /\ Reuse(s.cached, p) <= Len(s.cached)
      /\ SubSeq(s.cached, 1, Reuse(s.cached, p)) = SubSeq(p, 1, Reuse(s.cached, p))
      /\ Len(p) \in Nat
  BY <1>1, PromptOfCall DEF Inv
<1> HIDE DEF s, t, p
<1>3. /\ s.cached \in Seq(Token) /\ s.decoded = 0 /\ s.session = p
      /\ s.reused = Reuse(s.cached, p) /\ (s.exact <=> s.cached = p)
  BY <1>1 DEF TokensInv, LoadSteps, p
<1>4. /\ ~s.shifted
      /\ s.exact \/ s.reused > 0 => s.mem = Linear(s.cached) /\ s.logits = s.mem
  BY <1>1 DEF MemoryInv
<1>5. CASE s.exact
  <2>1. t.pc = "sampler" /\ t.mem = Linear(t.session) /\ t.logits = t.mem
    BY <1>1, <1>3, <1>4, <1>5 DEF Kept, KeepsTokens
  <2>2. MemoryInv(t)
    BY <1>1, <1>4, <2>1 DEF MemoryInv, KeepsWindow, SaveSteps
  <2> QED BY <2>1, <2>2 DEF OwnFile, FileInv, t
<1>6. CASE ~s.exact
  <2>1. t.mem = Linear(SubSeq(p, 1, s.reused))
    <3>1. CASE s.reused > 0
      <4>1. t.mem = SeqRm(Linear(s.cached), s.reused, -1)
        BY <1>1, <1>4, <1>6, <3>1 DEF Kept, CutFrom
      <4>2. s.reused \in 0..Len(s.cached)
        BY <1>2, <1>3
      <4>3. SeqRm(Linear(s.cached), s.reused, -1) = Linear(SubSeq(s.cached, 1, s.reused))
        BY <1>3, <4>2, CutLinear
      <4>4. SubSeq(s.cached, 1, s.reused) = SubSeq(p, 1, s.reused)
        BY <1>2, <1>3
      <4> QED BY <4>1, <4>3, <4>4
    <3>2. CASE ~(s.reused > 0)
      <4>1. t.mem = {}
        BY <1>1, <1>6, <3>2 DEF Kept
      <4>2. s.reused = 0
        BY <1>2, <1>3, <3>2
      <4>3. 0 \in 0..Len(p)
        BY <1>2
      <4>4. Linear(SubSeq(p, 1, 0)) = {[pos |-> j - 1, tok |-> p[j]] : j \in 1..0}
        BY <1>2, <4>3, LinearOfFirst
      <4>5. 1..0 = {}
        OBVIOUS
      <4> QED BY <4>1, <4>2, <4>4, <4>5
    <3> QED BY <3>1, <3>2
  <2>2. s.reused + s.decoded = s.reused
    BY <1>2, <1>3
  <2>3. /\ t.pc = "decode" /\ t.req.prompt = p /\ t.reused = s.reused /\ t.decoded = s.decoded
        /\ ~t.shifted
    BY <1>1, <1>4, <1>6 DEF KeepsTokens, KeepsWindow, p
  <2>4. MemoryInv(t)
    BY <1>1, <2>1, <2>2, <2>3 DEF MemoryInv, SaveSteps
  <2> QED BY <2>3, <2>4 DEF OwnFile, FileInv, t
<1> QED BY <1>5, <1>6

\* A chunk goes behind the part of the prompt that is in memory.
LEMMA DecodeMemory ==
    ASSUME Inv, NEW c \in Ctx, DecodeChunk(c)
    PROVE  MemoryInv(st'[c]) /\ OwnFile(st'[c])
<1> DEFINE s == st[c]
           t == st'[c]
           p == s.req.prompt
           a == Done(s)
           b == Done(s) + Chunk(s)
<1>1. /\ s.pc = "decode" /\ t.req = s.req /\ TokensInv(s) /\ MemoryInv(s)
      /\ t.pc = (IF b < Len(p) THEN "decode" ELSE IF SavesPrompt(s.req) THEN "save" ELSE "sampler")
      /\ t.mem = Extended(s.mem, SubSeq(p, a + 1, b)) /\ t.logits = t.mem /\ t.emb = s.emb
      /\ t.decoded = s.decoded + Chunk(s) /\ t.reused = s.reused /\ t.session = s.session
      /\ KeepsWindow(s, t)
  BY DecodeEffect DEF Inv, TypeInv
<1>2. a \in 0..Len(p) /\ Chunk(s) \in Nat /\ b \in 0..Len(p)
  BY <1>1, ChunkIsWithin DEF Inv
<1>3. /\ p \in Seq(Token) /\ Len(p) \in Nat /\ Reuse(s.cached, p) \in 0..Len(p)
  BY <1>1, PromptOfCall DEF Inv
<1>4. s.session = p /\ s.decoded \in Nat /\ s.reused \in Nat
  BY <1>1, <1>3 DEF TokensInv, LoadSteps
<1>5. s.mem = Linear(SubSeq(p, 1, a)) /\ s.emb = FALSE /\ ~s.shifted
  BY <1>1 DEF MemoryInv, Done
<1>6. b \in a..Len(p) /\ t.reused + t.decoded = b
  BY <1>1, <1>2, <1>4, SMTT(40) DEF Done
<1> HIDE DEF s, t, p, a, b
<1>7. t.mem = Linear(SubSeq(p, 1, b))
  BY <1>1, <1>2, <1>3, <1>5, <1>6, ExtendedLinear
<1>8. MemoryInv(t)
  <2>1. CASE b < Len(p)
    BY <1>1, <1>5, <1>6, <1>7, <2>1 DEF MemoryInv, KeepsWindow, SaveSteps, p
  <2>2. CASE ~(b < Len(p))
    <3>1. b = Len(p)
      BY <1>2, <1>3, <2>2
    <3>2. SubSeq(p, 1, b) = p
      BY <1>3, <3>1
    <3>3. t.mem = Linear(t.session) /\ t.pc \in {"save", "sampler"}
      BY <1>1, <1>4, <1>7, <2>2, <3>2
    <3> QED BY <1>1, <1>5, <3>3 DEF MemoryInv, KeepsWindow, SaveSteps
  <2> QED BY <2>1, <2>2
<1>9. OwnFile(t)
  BY <1>1 DEF OwnFile, FileInv
<1> QED BY <1>8, <1>9 DEF t

\* The first window is the session.
LEMMA SamplerMemory ==
    ASSUME Inv, NEW c \in Ctx, CreateSampler(c)
    PROVE  MemoryInv(st'[c]) /\ OwnFile(st'[c])
<1> DEFINE s == st[c]
           t == st'[c]
<1>1. /\ s.pc = "sampler" /\ t.pc = "generate" /\ t.window = s.req.prompt
      /\ KeepsMemory(s, t) /\ KeepsTokens(s, t) /\ TokensInv(s) /\ MemoryInv(s)
  BY SamplerEffect DEF Inv, TypeInv
<1> HIDE DEF s, t
<1>2. s.session = s.req.prompt /\ s.session \in Seq(Token)
  BY <1>1 DEF TokensInv
<1>3. MemoryInv(t)
  BY <1>1, <1>2 DEF MemoryInv, KeepsMemory, KeepsTokens, SaveSteps
<1>4. OwnFile(t)
  BY <1>1 DEF OwnFile, FileInv
<1> QED BY <1>3, <1>4 DEF t

\* Without a shift window and session grow by the same token.
LEMMA GenerateMemory ==
    ASSUME Inv, NEW c \in Ctx, GenerateToken(c)
    PROVE  MemoryInv(st'[c]) /\ OwnFile(st'[c])
<1> DEFINE s == st[c]
           t == st'[c]
           w == s.window
           full == Len(w) + 1 >= NCtx
           room == IF full THEN SubSeq(w, Len(w) \div 2 + 1, Len(w)) ELSE w
<1>1. /\ s.pc = "generate" /\ t.pc = "generate" /\ MemoryInv(s)
      /\ \E x \in Token : t.window = Append(room, x) /\ t.session = Append(s.session, x)
      /\ (t.shifted <=> s.shifted \/ full)
      /\ t.mem = Linear(t.window) /\ t.logits = t.mem /\ t.emb = s.emb
  BY GenerateEffect DEF Inv, TypeInv
<1>2. w \in Seq(Token) /\ s.emb = FALSE /\ (~s.shifted => w = s.session)
  BY <1>1 DEF MemoryInv
<1> HIDE DEF s, t, w, full
<1>3. room \in Seq(Token)
  <2>1. Len(w) \in Nat /\ Len(w) \div 2 + 1 \in Nat \ {0}
    BY <1>2
  <2>2. SubSeq(w, Len(w) \div 2 + 1, Len(w)) \in Seq(Token)
    BY <1>2, <2>1
  <2> QED BY <1>2, <2>2
<1>4. ~full => room = w
  OBVIOUS
<1> HIDE DEF room
<1>5. t.window \in Seq(Token) /\ (~t.shifted => t.window = t.session)
  <2>1. PICK x \in Token : t.window = Append(room, x) /\ t.session = Append(s.session, x)
    BY <1>1
  <2>2. t.window \in Seq(Token)
    BY <1>3, <2>1
  <2>3. ~t.shifted => room = s.session
    BY <1>1, <1>2, <1>4
  <2> QED BY <2>1, <2>2, <2>3
<1>6. MemoryInv(t)
  BY <1>1, <1>2, <1>5 DEF MemoryInv, SaveSteps
<1>7. OwnFile(t)
  BY <1>1 DEF OwnFile, FileInv
<1> QED BY <1>6, <1>7 DEF t

\* Before the first token and in a save the session is in memory.
LEMMA SessionMemory ==
    ASSUME NEW s, s.pc \in {"sampler"} \cup SaveSteps, s.emb = FALSE, ~s.shifted,
           s.mem = Linear(s.session), s.logits = s.mem
    PROVE  MemoryInv(s)
<1> QED BY DEF MemoryInv, SaveSteps

\* A call that is over, or saves what is in memory, or has saved its prompt.
LEMMA GotoMemory ==
    ASSUME Inv, NEW c \in Ctx, NEW label, Goto(c, label),
           \/ label = "idle"
           \/ /\ st[c].pc \in SaveSteps /\ label \in SaveSteps
           \/ /\ st[c].pc \in SaveSteps /\ label = "sampler" /\ SavesPrompt(st[c].req)
           \/ /\ st[c].pc = "generate" /\ label = "save" /\ ~st[c].shifted
    PROVE  MemoryInv(st'[c])
<1> DEFINE s == st[c]
           t == st'[c]
<1>1. CASE label = "idle"
  <2>1. t = Idle(s.mem, s.logits, s.emb)
    BY <1>1, GotoEffect DEF Inv, TypeInv
  <2> QED BY <2>1, IdleMemory
<1>2. CASE label # "idle"
  <2>1. /\ t.pc = label /\ t.req = s.req /\ KeepsMemory(s, t) /\ KeepsTokens(s, t) /\ KeepsWindow(s, t)
        /\ MemoryInv(s)
    BY <1>2, GotoEffect DEF Inv, TypeInv
  <2> HIDE DEF s, t
  <2>2. CASE s.pc \in SaveSteps
    <3>1. t.pc \in {"sampler"} \cup SaveSteps
      BY <1>2, <2>1, <2>2 DEF SaveSteps, s
    <3>2. s.mem = Linear(s.session) /\ s.logits = s.mem /\ s.emb = FALSE /\ ~s.shifted
      BY <2>1, <2>2 DEF MemoryInv, SaveSteps
    <3>3. /\ t.emb = FALSE /\ ~t.shifted /\ t.mem = Linear(t.session) /\ t.logits = t.mem
          /\ t.pc \in {"sampler"} \cup SaveSteps
      BY <2>1, <3>1, <3>2 DEF KeepsMemory, KeepsTokens, KeepsWindow, SaveSteps
    <3> QED BY <3>3, SessionMemory DEF t
  <2>3. CASE s.pc = "generate" /\ label = "save" /\ ~s.shifted
    <3>1. s.mem = Linear(s.session) /\ s.logits = s.mem /\ s.emb = FALSE
      BY <2>1, <2>3 DEF MemoryInv
    <3>2. t.pc = "save" /\ ~s.shifted
      BY <2>1, <2>3
    <3>3. /\ t.emb = FALSE /\ ~t.shifted /\ t.mem = Linear(t.session) /\ t.logits = t.mem
          /\ t.pc \in {"sampler"} \cup SaveSteps
      BY <2>1, <3>1, <3>2 DEF KeepsMemory, KeepsTokens, KeepsWindow, SaveSteps
    <3> QED BY <3>3, SessionMemory DEF t
  <2> QED BY <1>2, <2>2, <2>3 DEF s, t
<1> QED BY <1>1, <1>2

\* What a save has written is the session in memory, or nothing that can be loaded.
LEMMA SaveKeeps ==
    ASSUME FilesApart, Inv, TypeInv', NEW c \in Ctx, SaveOpen(c) \/ SaveTokens(c) \/ SaveState(c)
    PROVE  Inv'
<1> DEFINE s == st[c]
           t == st'[c]
           f == s.req.file
           F == file'[f]
<1>1. /\ f \in FilesOf[c] /\ f \in File
      /\ \A g \in File \ {f} : file'[g] = file[g]
      /\ SaveOpen(c) => F.tokens = Torn /\ F.state = Torn
      /\ SaveTokens(c) => F.tokens = s.session /\ F.state = file[f].state
      /\ SaveState(c) => /\ F.tokens = file[f].tokens
                         /\ F.state = [at |-> Len(s.session), mem |-> s.mem, logits |-> s.logits]
  BY SaveWrites DEF Inv
<1>2. MemoryInv(s) /\ OwnFile(s) /\ \A g \in File : Session(file[g])
  BY DEF Inv, FileConsistent, Session
<1>3. CASE SaveOpen(c)
  <2>1. Goto(c, "save_tokens") /\ s.pc = "save"
    BY <1>3 DEF SaveOpen, At
  <2>2. Others(c) /\ t.pc = "save_tokens" /\ t.req = s.req /\ MemoryInv(t)
    BY <2>1, GotoEffect, GotoMemory DEF Inv, TypeInv, SaveSteps
  <2>3. Session(F) /\ OwnFile(st[c])'
    <3>1. F.tokens = Torn /\ F.state = Torn
      BY <1>1, <1>3
    <3>2. FileInv(t, F) /\ Session(F)
      BY <2>2, <3>1 DEF FileInv, Session
    <3> QED BY <2>2, <3>2 DEF OwnFile
  <2>4. \A g \in File : Session(file'[g])
    BY <1>1, <1>2, <2>3
  <2> QED BY <1>1, <2>2, <2>3, <2>4, InvMoves
<1>4. CASE SaveTokens(c)
  <2>1. Goto(c, "save_state") /\ s.pc = "save_tokens"
    BY <1>4 DEF SaveTokens, At
  <2>2. /\ Others(c) /\ t.pc = "save_state" /\ t.req = s.req /\ t.session = s.session
        /\ MemoryInv(t)
    BY <2>1, GotoEffect, GotoMemory DEF Inv, TypeInv, SaveSteps, KeepsTokens
  <2>3. Session(F) /\ OwnFile(st[c])'
    <3>1. F.tokens = s.session /\ F.state = Torn
      BY <1>1, <1>2, <1>4, <2>1 DEF OwnFile, FileInv
    <3>2. FileInv(t, F) /\ Session(F)
      BY <2>2, <3>1 DEF FileInv, Session
    <3> QED BY <2>2, <3>2 DEF OwnFile
  <2>4. \A g \in File : Session(file'[g])
    BY <1>1, <1>2, <2>3
  <2> QED BY <1>1, <2>2, <2>3, <2>4, InvMoves
<1>5. CASE SaveState(c)
  <2>1. Goto(c, AfterSave(s)) /\ s.pc = "save_state"
    BY <1>5 DEF SaveState, At
  <2>2. (AfterSave(s) = "sampler" /\ SavesPrompt(s.req)) \/ AfterSave(s) = "idle"
    BY DEF AfterSave
  <2>3. Others(c) /\ t.pc = AfterSave(s) /\ MemoryInv(t)
    BY <2>1, <2>2, GotoEffect, GotoMemory DEF Inv, TypeInv, SaveSteps
  <2>4. Session(F)
    <3>1. /\ F.tokens = s.session
          /\ F.state = [at |-> Len(s.session), mem |-> s.mem, logits |-> s.logits]
      BY <1>1, <1>2, <1>5, <2>1 DEF OwnFile, FileInv
    <3>2. s.mem = Linear(s.session) /\ s.logits = s.mem
      BY <1>2, <2>1 DEF MemoryInv, SaveSteps
    <3>3. F.state.mem = Linear(F.tokens) /\ F.state.logits = F.state.mem
      BY <3>1, <3>2
    <3> QED BY <3>3 DEF Session
  <2>5. OwnFile(st[c])'
    BY <2>2, <2>3 DEF OwnFile, FileInv
  <2>6. \A g \in File : Session(file'[g])
    BY <1>1, <1>2, <2>4
  <2> QED BY <1>1, <2>3, <2>5, <2>6, InvMoves
<1> QED BY <1>3, <1>4, <1>5

\* Every step keeps memory, files and calls in agreement.
LEMMA InvStep ==
    ASSUME FilesApart, ~Recurrent
    PROVE  Inv /\ [Next]_vars => Inv'
<1> SUFFICES ASSUME Inv, [Next]_vars PROVE Inv'
  OBVIOUS
<1>1. TypeInv'
  BY TypeStep DEF Inv
<1>2. CASE UNCHANGED vars
  BY <1>1, <1>2 DEF vars, Inv, FileConsistent, OwnFile
<1>3. CASE Crash
  <2>1. st' = [c \in Ctx |-> Fresh] /\ file' = file
    BY <1>3 DEF Crash
  <2>2. \A c \in Ctx : MemoryInv(st'[c]) /\ OwnFile(st'[c])
    BY <2>1, IdleMemory DEF Fresh
  <2>3. \A c \in Ctx : OwnFile(st[c])'
    BY <2>1, <2>2 DEF OwnFile
  <2>4. FileConsistent'
    BY <2>1 DEF Inv, FileConsistent
  <2> QED BY <1>1, <2>2, <2>3, <2>4 DEF Inv
<1>4. ASSUME NEW c \in Ctx, Call(c) \/ OtherCall(c) \/ Step(c)
      PROVE  Inv'
  <2>1. CASE Call(c)
    <3>1. Others(c) /\ file' = file
      BY <2>1, CallEffect DEF Call, Quiet, Inv, TypeInv
    <3> QED BY <1>1, <2>1, <3>1, CallMemory, InvMovesQuietly
  <2>2. CASE OtherCall(c)
    <3>1. /\ Others(c) /\ file' = file /\ st'[c].pc = "idle" /\ KeepsWindow(st[c], st'[c])
          /\ st[c].pc = "idle" /\ MemoryInv(st[c])
      BY <2>2, OtherCallEffect DEF OtherCall, Quiet, Inv, TypeInv
    <3>2. MemoryInv(st'[c]) /\ OwnFile(st'[c])
      BY <3>1 DEF MemoryInv, OwnFile, FileInv, KeepsWindow, SaveSteps
    <3> QED BY <1>1, <3>1, <3>2, InvMovesQuietly
  <2>3. CASE LoadTokens(c)
    <3>1. Others(c) /\ file' = file
      BY <2>3, LoadTokensEffect DEF LoadTokens, Quiet, Inv, TypeInv
    <3> QED BY <1>1, <2>3, <3>1, LoadTokensMemory, InvMovesQuietly
  <2>4. CASE LoadState(c)
    <3>1. Others(c) /\ file' = file
      BY <2>4, LoadStateEffect DEF LoadState, Quiet, Inv, TypeInv
    <3> QED BY <1>1, <2>4, <3>1, LoadStateMemory, InvMovesQuietly
  <2>5. CASE Drop(c)
    <3>1. Others(c) /\ file' = file
      BY <2>5, DropEffect DEF Drop, Quiet, Inv, TypeInv
    <3> QED BY <1>1, <2>5, <3>1, DropMemory, InvMovesQuietly
  <2>6. CASE DecodeChunk(c)
    <3>1. Others(c) /\ file' = file
      BY <2>6, DecodeEffect DEF DecodeChunk, Quiet, Inv, TypeInv
    <3> QED BY <1>1, <2>6, <3>1, DecodeMemory, InvMovesQuietly
  <2>7. CASE Fail(c) \/ EndGeneration(c)
    <3>1. PICK label : /\ Goto(c, label) /\ file' = file
                       /\ \/ label = "idle"
                          \/ st[c].pc = "generate" /\ label = "save" /\ ~st[c].shifted
      BY <2>7 DEF Fail, EndGeneration, SavesSession, At, Quiet
    <3>2. Others(c) /\ st'[c].pc = label /\ MemoryInv(st'[c])
      BY <3>1, GotoEffect, GotoMemory DEF Inv, TypeInv
    <3>3. OwnFile(st'[c])
      BY <3>1, <3>2 DEF OwnFile, FileInv
    <3> QED BY <1>1, <3>1, <3>2, <3>3, InvMovesQuietly
  <2>8. CASE SaveOpen(c) \/ SaveTokens(c) \/ SaveState(c)
    BY <1>1, <2>8, SaveKeeps
  <2>9. CASE SaveFails(c)
    <3>1. /\ Goto(c, AfterSave(st[c])) /\ file' = file /\ st[c].pc \in SaveSteps
          /\ (AfterSave(st[c]) = "sampler" /\ SavesPrompt(st[c].req)) \/ AfterSave(st[c]) = "idle"
      BY <2>9 DEF SaveFails, At, Quiet, AfterSave, SaveSteps
    <3>2. Others(c) /\ st'[c].pc = AfterSave(st[c]) /\ MemoryInv(st'[c])
      BY <3>1, GotoEffect, GotoMemory DEF Inv, TypeInv
    <3>3. OwnFile(st'[c])
      BY <3>1, <3>2 DEF OwnFile, FileInv
    <3> QED BY <1>1, <3>1, <3>2, <3>3, InvMovesQuietly
  <2>10. CASE CreateSampler(c)
    <3>1. Others(c) /\ file' = file
      BY <2>10, SamplerEffect DEF CreateSampler, Quiet, Inv, TypeInv
    <3> QED BY <1>1, <2>10, <3>1, SamplerMemory, InvMovesQuietly
  <2>11. CASE GenerateToken(c)
    <3>1. Others(c) /\ file' = file
      BY <2>11, GenerateEffect DEF GenerateToken, Quiet, Inv, TypeInv
    <3> QED BY <1>1, <2>11, <3>1, GenerateMemory, InvMovesQuietly
  <2> QED BY <1>4, <2>1, <2>2, <2>3, <2>4, <2>5, <2>6, <2>7, <2>8, <2>9, <2>10, <2>11 DEF Step
<1> QED BY <1>2, <1>3, <1>4 DEF Next

\* What is sampled from is the session, and at the first token the prompt.
LEMMA PromptIsSampled == Inv => SampledFromPrompt
<1> SUFFICES ASSUME Inv, NEW c \in Ctx, st[c].pc = "sampler"
             PROVE  /\ st[c].mem = Linear(st[c].req.prompt) /\ st[c].logits = st[c].mem /\ ~st[c].emb
  BY DEF SampledFromPrompt, At
<1>1. TokensInv(st[c]) /\ MemoryInv(st[c])
  BY DEF Inv, TypeInv
<1> QED BY <1>1 DEF TokensInv, MemoryInv

\* Prompt: when no two contexts name one session file and memory can be cut in
\* the middle, llama_predict samples its first token from exactly the prompt,
\* whatever a session file, an earlier call, a failure or a crash left behind.
THEOREM SamplesThePrompt ==
    ASSUME FilesApart, ~Recurrent
    PROVE  Spec => []SampledFromPrompt
<1>1. Inv /\ [Next]_vars => Inv'
  BY InvStep
<1> QED BY <1>1, InitHolds, PromptIsSampled, PTL DEF Spec

\* Files: under the same conditions a session file that can be loaded holds the
\* state of its token list, wherever a save failed or the process ended.
THEOREM FilesAreSessions ==
    ASSUME FilesApart, ~Recurrent
    PROVE  Spec => []FileConsistent
<1>1. Inv /\ [Next]_vars => Inv'
  BY InvStep
<1>2. Inv => FileConsistent
  BY DEF Inv
<1> QED BY <1>1, <1>2, InitHolds, PTL DEF Spec
=============================================================================
