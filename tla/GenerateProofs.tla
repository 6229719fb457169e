--------------------------- MODULE GenerateProofs ---------------------------
(***************************************************************************)
(* Theorems about one generation, for every context size, prompt, option,  *)
(* token vocabulary and list of stop words.                                *)
(*                                                                         *)
(* Three invariants, each inductive with the ones before it: the types     *)
(* with the progress of the counter (TypeInv), the memory (MemInv,         *)
(* CellsInv) and the text (TextInv).                                       *)
(***************************************************************************)
EXTENDS Generate, StopWordsProofs, KVMemoryProofs

\* A token that is being handled was paid for.
TypeInv ==
    /\ TypeOK
    /\ pc \in {"callback", "scan", "decode"} => i < request.n_predict /\ token \in Token
    /\ (why = "running") <=> (pc \in {"sample", "callback", "scan", "decode"})

\* The memory of a text generation: dense, never full, and the session tokens
\* as long as nothing was shifted.
MemInv ==
    /\ pc = "decode" => HasRoom
    /\ why = "full" => ~HasRoom /\ ~MayShift
    /\ request.allow_shift =>
         /\ mem \subseteq [pos : Nat, tok : Token]
         /\ Dense(mem, n_past)
         /\ n_past \in 1..NCtx - 1
         /\ ~context_shifted => mem = Linear(session_tokens) /\ Len(session_tokens) = n_past

\* No more cells than counted positions.
CellsInv == IsFiniteSet(mem) /\ Cardinality(mem) <= n_past

\* What was searched has no stop word, what was streamed is the output up to
\* the piece in hand.
TextInv ==
    /\ pc \in {"callback", "scan"} =>
         /\ appended_from \in 0..Len(output)
         /\ StopFree(SubSeq(output, 1, appended_from), Stops)
    /\ pc = "callback" => output = streamed \o Piece[token]
    /\ pc \in {"sample", "scan", "decode"} => streamed = output
    /\ pc \in {"sample", "decode"} => StopFree(output, Stops)
    /\ why \in {"budget", "eog", "full", "decode_error"} =>
         streamed = output /\ StopFree(output, Stops)
    /\ why = "stop" => Len(output) = FirstStop(streamed, Stops) /\ StopFree(output, Stops)

---------------------------------------------------------------------------
\* Every value of the option Tokens becomes a positive budget.
LEMMA BudgetIsPositive ==
    ASSUME NEW t \in TokensOptions
    PROVE  Budget(t) \in Nat \ {0}
<1> QED BY OptionAssumption DEF Budget

\* A shift leaves what n_keep protects and something after it.
LEMMA ShiftAmounts ==
    ASSUME NEW k \in Int, NEW past \in Nat
    PROVE  /\ KeepOf(k, past) \in Nat /\ DiscardOf(k, past) \in Int
           /\ past > 0 => KeepOf(k, past) \in 0..past - 1
           /\ DiscardOf(k, past) > 0 => KeepOf(k, past) + DiscardOf(k, past) < past
<1>1. KeepOf(k, past) \in Nat /\ (past > 0 => KeepOf(k, past) \in 0..past - 1)
  BY DEF KeepOf
<1> HIDE DEF KeepOf
<1>2. \A n \in Int : n \div 2 \in Int /\ (n \div 2 > 0 => n \div 2 < n)
  OBVIOUS
<1>3. past - KeepOf(k, past) \in Int
  BY <1>1
<1> QED BY <1>1, <1>2, <1>3 DEF DiscardOf

\* A generation starts well typed, with nothing sampled.
LEMMA TypeInit == Init => TypeInv
<1> SUFFICES ASSUME Init PROVE TypeInv
  OBVIOUS
<1>1. /\ n_past \in Nat /\ session_tokens \in Seq(Token)
      /\ request \in [n_keep : Int, n_predict : Nat \ {0}, allow_shift : BOOLEAN]
  <2>1. \A t \in TokensOptions : Budget(t) \in Nat \ {0}
    BY BudgetIsPositive
  <2>2. Options(TRUE) \cup Options(FALSE)
          \subseteq [n_keep : Int, n_predict : Nat \ {0}, allow_shift : BOOLEAN]
    BY <2>1, OptionAssumption DEF Options
  <2>3. request \in Options(TRUE) \cup Options(FALSE)
    BY DEF Init, FromText, FromMedia
  <2>4. ASSUME FromText PROVE n_past \in Nat /\ session_tokens \in Seq(Token)
    BY <2>4, PromptAssumption DEF FromText
  <2>5. ASSUME FromMedia PROVE n_past \in Nat /\ session_tokens \in Seq(Token)
    BY <2>5, PromptAssumption DEF FromMedia
  <2>6. n_past \in Nat /\ session_tokens \in Seq(Token)
    BY <2>4, <2>5 DEF Init
  <2> QED BY <2>2, <2>3, <2>6, Zenon
<1>2. /\ i = 0 /\ token = Eog /\ output = <<>> /\ appended_from = 0 /\ streamed = <<>>
      /\ context_shifted = FALSE /\ pc = "sample" /\ why = "running"
  BY DEF Init
<1>3. i \in 0..request.n_predict
  BY <1>1, <1>2
<1>4. output \in Seq(Char) /\ streamed \in Seq(Char)
  BY <1>2
<1> QED BY <1>1, <1>2, <1>3, <1>4, Zenon DEF TypeInv, TypeOK

\* No step of the loop breaks the types or spends more than the budget.
LEMMA TypeStep == TypeInv /\ [Next]_vars => TypeInv'
<1> SUFFICES ASSUME TypeInv, [Next]_vars PROVE TypeInv'
  OBVIOUS
<1> USE DEF TypeInv, TypeOK
<1>1. request.n_predict \in Nat \ {0}
  OBVIOUS
<1>2. ASSUME NEW reason \in {"budget", "eog", "declined", "stop", "full", "decode_error"},
             End(reason), output' \in Seq(Char), appended_from' \in Nat, streamed' \in Seq(Char)
      PROVE  TypeInv'
  BY <1>2 DEF End, gen
<1>3. \A t \in Token : Piece[t] \in Seq(Char)
  BY TokenAssumption
<1>4. CASE BudgetSpent
  BY <1>2, <1>4 DEF BudgetSpent, text
<1>5. CASE SampleEog
  BY <1>2, <1>5 DEF SampleEog, text
<1>6. CASE Sample
  <2>1. PICK t \in Token : token' = t /\ output' = output \o Piece[t]
    BY <1>6 DEF Sample
  <2>2. output' \in Seq(Char) /\ Len(output) \in Nat
    BY <1>3, <2>1
  <2> QED BY <1>1, <1>6, <2>1, <2>2 DEF Sample, gen
<1>7. CASE CallbackDeclines
  <2>1. streamed' \in Seq(Char)
    BY <1>3, <1>7 DEF CallbackDeclines
  <2> QED BY <1>2, <1>7, <2>1 DEF CallbackDeclines
<1>8. CASE CallbackAccepts
  <2>1. streamed' \in Seq(Char)
    BY <1>3, <1>8 DEF CallbackAccepts
  <2> QED BY <1>8, <2>1 DEF CallbackAccepts, gen
<1>9. CASE StopFound
  <2>1. Hits(output, appended_from, Stops) \subseteq 0..Len(output)
    BY DEF Hits
  <2>2. stop_pos \in 0..Len(output)
    BY <1>9, <2>1, EarliestIsLeast, HitsAreOffsets DEF StopFound, stop_pos, find_stop_position
  <2>3. SubSeq(output, 1, stop_pos) \in Seq(Char)
    BY <2>2
  <2> QED BY <1>2, <1>9, <2>3 DEF StopFound
<1>10. CASE RoomLeft
  BY <1>10 DEF RoomLeft, NoStop, gen, text
<1>11. CASE ContextShift
  <2>1. n_past' \in Nat
    <3>1. /\ n_past' = n_past - DiscardOf(request.n_keep, n_past)
          /\ DiscardOf(request.n_keep, n_past) > 0
      BY <1>11 DEF ContextShift, MayShift
    <3>2. request.n_keep \in Int /\ n_past \in Nat
      OBVIOUS
    <3>3. /\ KeepOf(request.n_keep, n_past) \in Nat /\ DiscardOf(request.n_keep, n_past) \in Int
          /\ KeepOf(request.n_keep, n_past) + DiscardOf(request.n_keep, n_past) < n_past
      BY <3>1, <3>2, ShiftAmounts
    <3> QED BY <3>1, <3>2, <3>3, SMTT(20)
  <2> QED BY <1>11, <2>1 DEF ContextShift, NoStop, text
<1>12. CASE ContextFull
  BY <1>12 DEF ContextFull, NoStop, gen, text
<1>13. CASE Decode
  <2>1. session_tokens' \in Seq(Token)
    BY <1>13 DEF Decode, SessionAfterDecode
  <2> QED BY <1>1, <1>13, <2>1 DEF Decode, text
<1>14. CASE DecodeFails
  BY <1>2, <1>14 DEF DecodeFails, text
<1>15. CASE Return
  BY <1>15 DEF Return, gen, text
<1>16. CASE UNCHANGED vars
  BY <1>16 DEF vars, gen, text
<1> QED BY <1>4, <1>5, <1>6, <1>7, <1>8, <1>9, <1>10, <1>11, <1>12, <1>13, <1>14, <1>15,
           <1>16 DEF Next

\* The types and the progress hold throughout a generation.
LEMMA TypeCorrect == Spec => []TypeInv
<1> QED BY TypeInit, TypeStep, PTL DEF Spec

\* A generation stays well typed; in particular i never passes the budget that
\* the option Tokens was turned into (llama.go:435-437, binding.cpp:500-501).
THEOREM Types == Spec => []TypeOK
<1>1. TypeInv => TypeOK
  BY DEF TypeInv
<1> QED BY <1>1, TypeCorrect, PTL

---------------------------------------------------------------------------
\* The prompt leaves a dense memory with room for one more token.
LEMMA MemInit == Init => MemInv
<1> SUFFICES ASSUME Init PROVE MemInv
  OBVIOUS
<1>1. pc = "sample" /\ why = "running"
  BY DEF Init
<1>2. CASE request.allow_shift
  <2>1. PICK p \in TextPrompts :
              /\ mem = Linear(p) /\ n_past = Len(p) /\ session_tokens = p
    BY <1>2 DEF Init, FromText, FromMedia, Options
  <2>2. p \in Seq(Token) /\ Len(p) \in 1..NCtx - 1
    BY PromptAssumption
  <2>3. Linear(p) \subseteq [pos : Nat, tok : Token] /\ Dense(Linear(p), Len(p))
    BY <2>2, LinearIsDense
  <2> QED BY <1>1, <2>1, <2>2, <2>3 DEF MemInv
<1>3. CASE ~request.allow_shift
  BY <1>1, <1>3 DEF MemInv
<1> QED BY <1>2, <1>3

\* Shifting and decoding keep the memory dense; nothing else touches it.
LEMMA MemStep == TypeInv /\ MemInv /\ [Next]_vars => MemInv'
<1> SUFFICES ASSUME TypeInv, MemInv, [Next]_vars PROVE MemInv'
  OBVIOUS
<1>1. /\ n_past \in Nat /\ session_tokens \in Seq(Token) /\ request.n_keep \in Int
      /\ pc \in {"callback", "scan", "decode"} => token \in Token /\ why = "running"
  BY DEF TypeInv, TypeOK
<1>2. ASSUME UNCHANGED <<gen, request>>, pc' # "decode", why' = "full" => why = "full"
      PROVE  MemInv'
  BY <1>2 DEF MemInv, gen, HasRoom, MayShift
<1>3. CASE \/ BudgetSpent \/ SampleEog \/ CallbackDeclines \/ StopFound \/ DecodeFails
  BY <1>2, <1>3
     DEF BudgetSpent, SampleEog, CallbackDeclines, StopFound, DecodeFails, End
<1>4. CASE Sample \/ CallbackAccepts \/ Return
  BY <1>2, <1>4 DEF Sample, CallbackAccepts, Return
<1>5. CASE RoomLeft
  <2>1. why' = "running"
    BY <1>1, <1>5 DEF RoomLeft, NoStop
  <2> QED BY <1>5, <2>1 DEF RoomLeft, NoStop, MemInv, gen, HasRoom
<1>6. CASE ContextShift
  <2> DEFINE k == KeepOf(request.n_keep, n_past)
             d == DiscardOf(request.n_keep, n_past)
  <2>1. /\ request.allow_shift /\ d > 0 /\ ~HasRoom
        /\ mem' = SeqAdd(SeqRm(mem, k, k + d), k + d, n_past, -d)
        /\ n_past' = n_past - d /\ context_shifted' /\ pc' = "decode"
        /\ why' = "running" /\ request' = request
    BY <1>1, <1>6 DEF ContextShift, MayShift, Slid, NoStop
  <2>2. mem \subseteq [pos : Nat, tok : Token] /\ Dense(mem, n_past) /\ n_past \in 1..NCtx - 1
    BY <2>1 DEF MemInv
  <2>3. k \in Nat /\ d \in Int /\ k + d < n_past
    BY <1>1, <2>1, ShiftAmounts
  <2> HIDE DEF k, d
  <2>4. mem' \subseteq [pos : Nat, tok : Token] /\ Dense(mem', n_past - d)
    <3>1. k \in Nat /\ d \in Nat \ {0} /\ k + d <= n_past /\ n_past \in Nat
      BY <1>1, <2>1, <2>3
    <3>2. /\ SeqAdd(SeqRm(mem, k, k + d), k + d, n_past, -d) \subseteq [pos : Nat, tok : Token]
          /\ Dense(SeqAdd(SeqRm(mem, k, k + d), k + d, n_past, -d), n_past - d)
      BY <2>2, <3>1, SlideDense
    <3> QED BY <2>1, <3>2
  <2>5. n_past' \in 1..NCtx - 1 /\ n_past' + 1 < NCtx
    BY <2>1, <2>2, <2>3, ContextAssumption
  <2> QED BY <2>1, <2>4, <2>5 DEF MemInv, HasRoom
<1>7. CASE ContextFull
  BY <1>7 DEF ContextFull, NoStop, MemInv, gen, HasRoom, MayShift
<1>8. CASE Decode
  <2>1. /\ pc' = "sample" /\ why' = "running" /\ request' = request
        /\ n_past' = n_past + 1 /\ context_shifted' = context_shifted /\ token \in Token
        /\ mem' = Extended(mem, <<token>>)
    BY <1>1, <1>8 DEF Decode
  <2>2. ASSUME request.allow_shift
        PROVE  /\ mem' \subseteq [pos : Nat, tok : Token] /\ Dense(mem', n_past')
               /\ n_past' \in 1..NCtx - 1
               /\ ~context_shifted =>
                    mem' = Linear(session_tokens') /\ Len(session_tokens') = n_past'
    <3>1. /\ mem \subseteq [pos : Nat, tok : Token] /\ Dense(mem, n_past)
          /\ n_past \in 1..NCtx - 1 /\ n_past + 1 < NCtx
      BY <1>8, <2>2 DEF MemInv, Decode, HasRoom
    <3>2. /\ mem' = mem \cup {[pos |-> n_past, tok |-> token]}
          /\ mem' \subseteq [pos : Nat, tok : Token] /\ Dense(mem', n_past + 1)
      BY <2>1, <3>1, ExtendDense
    <3>3. session_tokens' = Append(session_tokens, token)
      BY <1>8, <2>2 DEF Decode, SessionAfterDecode
    <3>4. ASSUME ~context_shifted
          PROVE  mem' = Linear(session_tokens') /\ Len(session_tokens') = n_past'
      <4>1. mem = Linear(session_tokens) /\ Len(session_tokens) = n_past
        BY <2>2, <3>4 DEF MemInv
      <4>2. Linear(session_tokens') = mem'
        <5>1. Linear(Append(session_tokens, token)) =
                Linear(session_tokens) \cup {[pos |-> Len(session_tokens), tok |-> token]}
          BY <1>1, <2>1, LinearAppend
        <5> QED BY <3>2, <3>3, <4>1, <5>1
      <4>3. Len(session_tokens') = n_past'
        BY <1>1, <2>1, <3>3, <4>1
      <4> QED BY <4>2, <4>3
    <3>5. n_past' \in 1..NCtx - 1
      BY <2>1, <3>1, ContextAssumption
    <3> QED BY <2>1, <3>2, <3>4, <3>5
  <2> QED BY <2>1, <2>2 DEF MemInv
<1>9. CASE UNCHANGED vars
  BY <1>9 DEF vars, gen, MemInv, HasRoom, MayShift
<1> QED BY <1>3, <1>4, <1>5, <1>6, <1>7, <1>8, <1>9 DEF Next

\* The memory invariant holds throughout a generation.
LEMMA MemCorrect == Spec => []MemInv
<1> QED BY TypeCorrect, MemInit, MemStep, PTL DEF Spec

\* After any number of decodes and shifts a text context has one cell at every
\* position below the counter (generate_tokens, binding.cpp:521-549).
THEOREM Memory == Spec => []MemoryMatchesCounter
<1>1. MemInv => MemoryMatchesCounter
  BY DEF MemInv, MemoryMatchesCounter
<1> QED BY <1>1, MemCorrect, PTL

\* Before the first shift the memory holds the session tokens and nothing else,
\* which is what llama_predict saves as a session (binding.cpp:995-1001).
THEOREM Unshifted == Spec => []UnshiftedIsLinear
<1>1. MemInv => UnshiftedIsLinear
  BY DEF MemInv, UnshiftedIsLinear
<1> QED BY <1>1, MemCorrect, PTL

\* A context of at least three cells ends a text generation only when it cannot
\* be shifted or n_keep leaves nothing to discard (binding.cpp:523-531).
THEOREM OnlyFullWhenStuck == NCtx > 2 => (Spec => []FullOnlyWithoutShift)
<1> SUFFICES ASSUME NCtx > 2 PROVE Spec => []FullOnlyWithoutShift
  OBVIOUS
<1>1. TypeInv /\ MemInv => FullOnlyWithoutShift
  <2> SUFFICES ASSUME TypeInv, MemInv, why = "full", request.allow_shift, CanShift
               PROVE  request.n_keep >= NCtx - 2
    BY OptionAssumption DEF FullOnlyWithoutShift
  <2>1. request.n_keep \in Int /\ n_past = NCtx - 1
    BY ContextAssumption DEF MemInv, TypeInv, TypeOK, HasRoom
  <2>2. ~(DiscardOf(request.n_keep, n_past) > 0)
    BY DEF MemInv, MayShift
  <2>3. KeepOf(request.n_keep, n_past) >= n_past - 1
    <3>1. KeepOf(request.n_keep, n_past) \in 0..n_past - 1
      BY <2>1, ContextAssumption, ShiftAmounts
    <3>2. \A m \in Nat : m >= 2 => m \div 2 > 0
      OBVIOUS
    <3> QED BY <2>1, <2>2, <3>1, <3>2, ContextAssumption DEF DiscardOf
  <2> QED BY <2>1, <2>3, ContextAssumption DEF KeepOf
<1> QED BY <1>1, TypeCorrect, MemCorrect, PTL

---------------------------------------------------------------------------
\* An image decoded with one position for several cells (M-RoPE) is excluded:
\* no image fills more cells than the positions it is counted with.
OnePositionPerCell == \A p \in MediaPrompts : Cardinality(p.mem) <= p.n_past

\* The prompt fills no more cells than the counter says.
LEMMA CellsInit == OnePositionPerCell /\ Init => CellsInv
<1> SUFFICES ASSUME OnePositionPerCell, Init PROVE CellsInv
  OBVIOUS
<1>1. CASE request.allow_shift
  <2>1. Dense(mem, n_past) /\ n_past \in Nat
    BY <1>1, MemInit, TypeInit DEF MemInv, TypeInv, TypeOK
  <2> QED BY <2>1, DenseCardinality DEF CellsInv
<1>2. CASE ~request.allow_shift
  <2>1. PICK p \in MediaPrompts : mem = p.mem /\ n_past = p.n_past
    BY <1>2 DEF Init, FromText, FromMedia, Options
  <2> QED BY <2>1, PromptAssumption DEF CellsInv, OnePositionPerCell
<1> QED BY <1>1, <1>2

\* A decode adds at most the one cell that it counts.
LEMMA CellsStep ==
    TypeInv /\ MemInv /\ TypeInv' /\ MemInv' /\ CellsInv /\ [Next]_vars => CellsInv'
<1> SUFFICES ASSUME TypeInv, TypeInv', MemInv, MemInv', CellsInv, [Next]_vars
             PROVE  CellsInv'
  OBVIOUS
<1>1. n_past \in Nat /\ n_past' \in Nat
  BY DEF TypeInv, TypeOK
<1>2. CASE UNCHANGED gen
  BY <1>2 DEF CellsInv, gen
<1>3. CASE ContextShift
  <2>1. Dense(mem', n_past')
    BY <1>3 DEF ContextShift, MayShift, NoStop, MemInv
  <2> QED BY <1>1, <2>1, DenseCardinality DEF CellsInv
<1>4. CASE Decode
  <2> DEFINE new == [pos |-> NextPos(mem) + 1 - 1, tok |-> token]
  <2>1. mem' = mem \cup {new} /\ n_past' = n_past + 1
    BY <1>4 DEF Decode, Extended
  <2> HIDE DEF new
  <2>2. IsFiniteSet(mem) /\ Cardinality(mem) \in Nat /\ Cardinality(mem) <= n_past
    BY FS_CardinalityType DEF CellsInv
  <2>3. /\ IsFiniteSet(mem \cup {new})
        /\ Cardinality(mem \cup {new}) =
             IF new \in mem THEN Cardinality(mem) ELSE Cardinality(mem) + 1
    BY <2>2, FS_AddElement
  <2> QED BY <1>1, <2>1, <2>2, <2>3 DEF CellsInv
<1>5. [Next]_vars => UNCHANGED gen \/ ContextShift \/ Decode
  BY DEF Next, vars, BudgetSpent, SampleEog, Sample, CallbackDeclines, CallbackAccepts,
         StopFound, RoomLeft, ContextFull, DecodeFails, Return, End
<1> QED BY <1>2, <1>3, <1>4, <1>5

\* Where every image has a position per cell, the room check in front of
\* llama_decode never lets it run out of cells (binding.cpp:489-531).
THEOREM Room == OnePositionPerCell => (Spec => []StopsGracefully)
<1> SUFFICES ASSUME OnePositionPerCell PROVE Spec => []StopsGracefully
  OBVIOUS
<1>1. TypeInv /\ MemInv /\ CellsInv => StopsGracefully
  <2> SUFFICES ASSUME TypeInv, MemInv, CellsInv, pc = "decode"
               PROVE  Cardinality(mem) < NCtx
    BY DEF StopsGracefully
  <2>1. n_past \in Nat /\ n_past + 1 < NCtx
    BY DEF TypeInv, TypeOK, MemInv, HasRoom
  <2>2. Cardinality(mem) \in Nat /\ Cardinality(mem) <= n_past
    BY FS_CardinalityType DEF CellsInv
  <2> QED BY <2>1, <2>2, ContextAssumption
<1>2. Init => CellsInv
  BY CellsInit
<1> QED BY <1>1, <1>2, TypeCorrect, MemCorrect, CellsStep, PTL DEF Spec

---------------------------------------------------------------------------
\* An empty output has no stop word.
LEMMA TextInit == Init => TextInv
<1> SUFFICES ASSUME Init PROVE TextInv
  OBVIOUS
<1>1. pc = "sample" /\ why = "running" /\ output = <<>> /\ streamed = <<>>
  BY DEF Init
<1>2. ASSUME NEW s \in 1..Len(Stops), Stops[s] # <<>>, NEW p \in 0..0
      PROVE  ~OccursAt(Stops[s], <<>>, p)
  <2>1. Len(Stops[s]) \in Nat \ {0}
    BY <1>2, StopsAssumption
  <2> QED BY <2>1 DEF OccursAt
<1>3. StopFree(output, Stops)
  BY <1>1, <1>2 DEF StopFree
<1> QED BY <1>1, <1>3 DEF TextInv

\* Each piece is searched before the next one is sampled, or the loop ends.
LEMMA TextStep == TypeInv /\ TextInv /\ [Next]_vars => TextInv'
<1> SUFFICES ASSUME TypeInv, TextInv, [Next]_vars PROVE TextInv'
  OBVIOUS
<1>1. /\ output \in Seq(Char) /\ streamed \in Seq(Char)
      /\ \A t \in Token : Piece[t] \in Seq(Char)
      /\ pc \in {"sample", "callback", "scan", "decode"} => why = "running"
      /\ pc \in {"callback", "scan", "decode"} => token \in Token
  BY TokenAssumption DEF TypeInv, TypeOK
<1>2. CASE BudgetSpent \/ SampleEog \/ DecodeFails
  BY <1>2 DEF BudgetSpent, SampleEog, DecodeFails, End, text, TextInv
<1>3. CASE Sample
  <2>1. PICK t \in Token : token' = t /\ output' = output \o Piece[t]
    BY <1>3 DEF Sample
  <2>2. /\ appended_from' = Len(output) /\ Len(output) \in 0..Len(output')
        /\ SubSeq(output', 1, Len(output)) = output
    BY <1>1, <1>3, <2>1 DEF Sample
  <2>3. StopFree(output, Stops) /\ streamed = output /\ streamed' = streamed
        /\ pc' = "callback" /\ why' = "running"
    BY <1>1, <1>3 DEF Sample, TextInv
  <2> QED BY <2>1, <2>2, <2>3 DEF TextInv
<1>4. CASE CallbackDeclines
  BY <1>4 DEF CallbackDeclines, End, TextInv
<1>5. CASE CallbackAccepts
  <2>1. streamed' = output /\ why' = "running" /\ pc' = "scan"
    BY <1>1, <1>5 DEF CallbackAccepts, TextInv
  <2> QED BY <1>5, <2>1 DEF CallbackAccepts, TextInv
<1>6. ASSUME pc = "scan"
      PROVE  /\ streamed = output /\ appended_from \in 0..Len(output)
             /\ StopFree(SubSeq(output, 1, appended_from), Stops)
  BY <1>6 DEF TextInv
<1>7. CASE StopFound
  <2>1. /\ pc = "scan" /\ stop_pos # NPos /\ why' = "stop" /\ pc' = "end"
        /\ output' = SubSeq(output, 1, stop_pos) /\ streamed' = streamed
    BY <1>7 DEF StopFound, End
  <2>2. stop_pos \in 0..Len(output) /\ StopFree(output', Stops)
    BY <1>1, <1>6, <2>1, StopsAssumption, CutIsStopFree DEF stop_pos
  <2>3. Len(output') = FirstStop(streamed', Stops)
    <3>1. Len(output') = stop_pos
      BY <1>1, <2>1, <2>2
    <3>2. stop_pos = FirstStop(output, Stops)
      BY <1>1, <1>6, <2>1, StopsAssumption, WindowIsEnough DEF stop_pos
    <3> QED BY <1>6, <2>1, <3>1, <3>2
  <2> QED BY <2>1, <2>2, <2>3 DEF TextInv
<1>8. CASE RoomLeft \/ ContextShift \/ ContextFull
  <2>1. /\ pc = "scan" /\ stop_pos = NPos /\ UNCHANGED text
        /\ \/ pc' = "decode" /\ why' = why
           \/ pc' = "end" /\ why' = "full"
    BY <1>8 DEF RoomLeft, ContextShift, ContextFull, NoStop
  <2>2. StopFree(output, Stops)
    BY <1>1, <1>6, <2>1, StopsAssumption, NothingFoundIsStopFree DEF stop_pos
  <2> QED BY <1>1, <1>6, <2>1, <2>2 DEF TextInv, text
<1>9. CASE Decode
  BY <1>1, <1>9 DEF Decode, text, TextInv
<1>10. CASE Return
  BY <1>10 DEF Return, text, TextInv
<1>11. CASE UNCHANGED vars
  BY <1>11 DEF vars, text, TextInv
<1> QED BY <1>2, <1>3, <1>4, <1>5, <1>7, <1>8, <1>9, <1>10, <1>11 DEF Next

\* The text invariant holds throughout a generation.
LEMMA TextCorrect == Spec => []TextInv
<1> QED BY TypeCorrect, TextInit, TextStep, PTL DEF Spec

\* Whatever passed the search, and whatever a generation returns that the
\* callback did not end, has no stop word anywhere (binding.cpp:515-519).
THEOREM NoStopLeft == Spec => []NoStopInOutput
<1>1. TypeInv /\ TextInv => NoStopInOutput
  <2> SUFFICES ASSUME TypeInv, TextInv, pc \in {"decode", "end", "returned"}, why # "declined"
               PROVE  StopFree(output, Stops)
    BY DEF NoStopInOutput
  <2> QED BY DEF TypeInv, TypeOK, TextInv
<1> QED BY <1>1, TypeCorrect, TextCorrect, PTL

\* A stopped generation is cut at the first stop word of the whole streamed
\* text, and no other generation has one in it (binding.cpp:293-309, 515-519).
THEOREM StopsAtTheFirst == Spec => []StopsAtFirst
<1>1. TypeInv /\ TextInv => StopsAtFirst
  <2> SUFFICES ASSUME TypeInv, TextInv PROVE StopsAtFirst
    OBVIOUS
  <2>1. ASSUME pc = "decode" \/ why \in {"full", "budget", "eog"}
        PROVE  FirstStop(streamed, Stops) = NPos
    <3>1. StopFree(streamed, Stops)
      BY <2>1 DEF TextInv
    <3> QED BY <3>1, StopFreeHasNoFirst
  <2> QED BY <2>1 DEF StopsAtFirst, TextInv
<1> QED BY <1>1, TypeCorrect, TextCorrect, PTL

---------------------------------------------------------------------------
\* The loop leaves what was streamed, up to the first stop word; a text that
\* passed the search is returned whole.
StreamInv ==
    /\ why = "declined" => streamed = output
    /\ pc \in {"end", "returned"} /\ why \notin {"declined", "decode_error"} =>
           output = BeforeFirstStop(streamed, Stops)
    /\ pc = "returned" =>
         /\ why = "decode_error" => result = <<>>
         /\ why = "declined" => result \in BeforeSomeStop(output, Stops)
         /\ why \notin {"declined", "decode_error"} => result = output

\* A text without stop words stays whole.
LEMMA StopFreeStaysWhole ==
    ASSUME NEW s \in Seq(Char), StopFree(s, Stops)
    PROVE  BeforeFirstStop(s, Stops) = s
<1>1. FirstStop(s, Stops) = NPos
  BY StopFreeHasNoFirst
<1>2. s = SubSeq(s, 1, Len(s))
  OBVIOUS
<1> QED BY <1>1, <1>2 DEF BeforeFirstStop

\* Whatever ends the loop, the output was streamed; Predict only cuts its end.
LEMMA StreamStep ==
    TypeInv /\ TextInv /\ TypeInv' /\ TextInv' /\ StreamInv /\ [Next]_vars => StreamInv'
<1> SUFFICES ASSUME TypeInv, TextInv, TypeInv', TextInv', StreamInv, [Next]_vars
             PROVE  StreamInv'
  OBVIOUS
<1>1. /\ output \in Seq(Char) /\ streamed \in Seq(Char)
      /\ output' \in Seq(Char) /\ streamed' \in Seq(Char)
      /\ pc \in {"sample", "callback", "scan", "decode"} => why = "running"
      /\ \A t \in Token : Piece[t] \in Seq(Char)
  BY TokenAssumption DEF TypeInv, TypeOK
<1>2. ASSUME pc' = "end", streamed' = output', why' = "declined" \/ StopFree(output', Stops)
      PROVE  StreamInv'
  <2>1. why' = "declined" \/ BeforeFirstStop(output', Stops) = output'
    BY <1>1, <1>2, StopFreeStaysWhole
  <2> QED BY <1>2, <2>1 DEF StreamInv
<1>3. ASSUME pc' \in {"sample", "callback", "scan", "decode"}, why' = "running"
      PROVE  StreamInv'
  BY <1>3 DEF StreamInv
<1>4. CASE BudgetSpent \/ SampleEog \/ DecodeFails \/ ContextFull
  <2>1. pc' = "end" /\ why' \in {"budget", "eog", "decode_error", "full"}
    BY <1>4 DEF BudgetSpent, SampleEog, DecodeFails, ContextFull, End, NoStop
  <2> QED BY <1>2, <2>1 DEF TextInv
<1>5. CASE Sample \/ CallbackAccepts \/ RoomLeft \/ ContextShift \/ Decode
  <2>1. pc' \in {"sample", "callback", "scan", "decode"} /\ why' = why /\ why = "running"
    BY <1>1, <1>5 DEF Sample, CallbackAccepts, RoomLeft, ContextShift, Decode, NoStop
  <2> QED BY <1>3, <2>1
<1>6. CASE CallbackDeclines
  <2>1. streamed' = output' /\ pc' = "end" /\ why' = "declined"
    BY <1>6 DEF CallbackDeclines, End, TextInv
  <2> QED BY <1>2, <2>1
<1>7. CASE StopFound
  <2>1. /\ pc' = "end" /\ why' = "stop" /\ streamed' = streamed
        /\ output' = SubSeq(output, 1, stop_pos) /\ streamed = output
    BY <1>7 DEF StopFound, End, TextInv
  <2>2. /\ appended_from \in 0..Len(output) /\ StopFree(SubSeq(output, 1, appended_from), Stops)
        /\ stop_pos # NPos
    BY <1>7 DEF StopFound, TextInv
  <2>3. stop_pos = FirstStop(output, Stops)
    BY <1>1, <2>2, StopsAssumption, WindowIsEnough DEF stop_pos
  <2>4. output' = BeforeFirstStop(streamed', Stops)
    BY <2>1, <2>2, <2>3 DEF BeforeFirstStop
  <2> QED BY <2>1, <2>4 DEF StreamInv
<1>8. CASE Return
  <2>1. /\ pc = "end" /\ pc' = "returned" /\ UNCHANGED text /\ why' = why
        /\ result' = IF why = "decode_error" THEN <<>> ELSE cleanPredictionResult(output, Stops)
    BY <1>8 DEF Return
  <2>2. UNCHANGED <<output, streamed>>
    BY <2>1 DEF text
  <2>3. why # "decode_error" => result' \in BeforeSomeStop(output, Stops)
    BY <1>1, <2>1, StopsAssumption, CleanCutsAtStop
  <2>4. ASSUME why \notin {"declined", "decode_error"}
        PROVE  result' = output
    <3>1. StopFree(output, Stops)
      BY <2>1, <2>4 DEF TextInv, TypeInv, TypeOK
    <3> QED BY <1>1, <2>1, <2>4, <3>1, StopsAssumption, CleanKeepsStopFree
  <2> QED BY <2>1, <2>2, <2>3, <2>4 DEF StreamInv
<1>9. CASE UNCHANGED vars
  BY <1>9 DEF vars, text, StreamInv
<1> QED BY <1>4, <1>5, <1>6, <1>7, <1>8, <1>9 DEF Next

\* The stream invariant holds throughout a generation.
LEMMA StreamCorrect == Spec => []StreamInv
<1>1. Init => StreamInv
  BY DEF Init, StreamInv
<1> QED BY <1>1, TypeCorrect, TextCorrect, StreamStep, PTL DEF Spec

\* Predict returns what the token callback was shown up to the first stop word,
\* for any stop words and pieces; all that a declining callback can cost is the text
\* from one of its stop words on (binding.cpp:505-519, llama.go:466-474).
THEOREM ResultStreamed == Spec => []ResultWasStreamed
<1>1. StreamInv => ResultWasStreamed
  <2> SUFFICES ASSUME StreamInv, pc = "returned"
               PROVE  CASE why = "decode_error" -> result = <<>>
                        [] why = "declined"     -> result \in BeforeSomeStop(streamed, Stops)
                        [] OTHER                -> result = BeforeFirstStop(streamed, Stops)
    BY DEF ResultWasStreamed
  <2> QED BY DEF StreamInv
<1> QED BY <1>1, StreamCorrect, PTL

\* The stop words Go cuts from the end of a result are only ever found there
\* when the callback declined: every other text is returned as the loop left it.
ReturnedWhole == pc = "returned" /\ why \notin {"declined", "decode_error"} => result = output

\* Go's trimming changes no result that the search of the loop has seen.
THEOREM NothingCutTwice == Spec => []ReturnedWhole
<1>1. StreamInv => ReturnedWhole
  BY DEF StreamInv, ReturnedWhole
<1> QED BY <1>1, StreamCorrect, PTL

---------------------------------------------------------------------------
\* The prompt is the window the abstract specification starts with.
LEMMA WindowInit == Init => Window!Init
<1> SUFFICES ASSUME Init PROVE Window!Init
  OBVIOUS
<1>1. request.n_keep \in Int /\ NCtx - 1 \in Nat
  BY TypeInit, ContextAssumption DEF TypeInv, TypeOK
<1>2. KeepOf(request.n_keep, NCtx - 1) \in 0..NCtx
  <2>1. /\ KeepOf(request.n_keep, NCtx - 1) \in Nat
        /\ NCtx - 1 > 0 => KeepOf(request.n_keep, NCtx - 1) \in 0..NCtx - 1 - 1
    BY <1>1, ShiftAmounts
  <2>2. NCtx - 1 = 0 => KeepOf(request.n_keep, NCtx - 1) = 0
    BY <1>1 DEF KeepOf
  <2> QED BY <1>1, <2>1, <2>2, ContextAssumption
<1>3. CASE request.allow_shift
  <2>1. PICK p \in TextPrompts : mem = Linear(p) /\ session_tokens = p
    BY <1>3 DEF Init, FromText, FromMedia, Options
  <2>2. p \in Seq(Token) /\ Len(p) \in 1..NCtx - 1
    BY PromptAssumption
  <2>3. Contents(mem) = p
    BY <2>1, <2>2, ContentsOfLinear
  <2> QED BY <1>2, <1>3, <2>1, <2>2, <2>3, ContextAssumption DEF Window!Init, Seen
<1>4. CASE ~request.allow_shift
  <2>1. session_tokens = <<>>
    BY <1>4 DEF Init, FromText, FromMedia, Options
  <2> QED BY <1>2, <1>4, <2>1, ContextAssumption DEF Window!Init, Seen
<1> QED BY <1>3, <1>4

\* A decode is a Push, a context shift a Forget, every other step a stutter.
LEMMA WindowStep == TypeInv /\ MemInv /\ [Next]_vars => [Window!Next]_(Window!vars)
<1> SUFFICES ASSUME TypeInv, MemInv, [Next]_vars PROVE [Window!Next]_(Window!vars)
  OBVIOUS
<1>1. n_past \in Nat /\ request.n_keep \in Int /\ session_tokens \in Seq(Token)
  BY DEF TypeInv, TypeOK
<1>2. ASSUME UNCHANGED <<mem, session_tokens, request>>
      PROVE  UNCHANGED Window!vars
  <2>1. Contents(mem)' = Contents(mem)
    BY <1>2 DEF Contents
  <2> QED BY <1>2, <2>1 DEF Window!vars, Seen
<1>3. ASSUME ~request.allow_shift, UNCHANGED <<session_tokens, request>>
      PROVE  UNCHANGED Window!vars
  BY <1>3 DEF Window!vars, Seen
<1>4. ASSUME request.allow_shift
      PROVE  /\ mem \subseteq [pos : Nat, tok : Token] /\ Dense(mem, n_past)
             /\ n_past \in Nat \ {0} /\ n_past <= NCtx - 1
             /\ Contents(mem) \in Seq(Token) /\ Len(Contents(mem)) = n_past
  <2>1. /\ mem \subseteq [pos : Nat, tok : Token] /\ Dense(mem, n_past)
        /\ n_past \in Nat \ {0} /\ n_past <= NCtx - 1
    BY <1>4, ContextAssumption DEF MemInv
  <2> QED BY <2>1, ContentsOfDense
<1>5. CASE Decode
  <2>1. /\ token \in Token /\ pc = "decode" /\ UNCHANGED request
        /\ mem' = Extended(mem, <<token>>)
    BY <1>5 DEF Decode, TypeInv
  <2>2. CASE request.allow_shift
    <3>1. session_tokens' = Append(session_tokens, token)
      BY <1>5, <2>2 DEF Decode, SessionAfterDecode
    <3>2. Contents(mem)' = Append(Contents(mem), token)
      <4>1. Contents(Extended(mem, <<token>>)) = Append(Contents(mem), token)
        BY <1>4, <2>1, <2>2, ContentsOfExtended
      <4> QED BY <2>1, <4>1 DEF Contents
    <3>3. Len(Contents(mem)) + 1 < NCtx
      BY <1>4, <2>1, <2>2 DEF MemInv, HasRoom
    <3>4. Window!Push
      BY <2>1, <2>2, <3>1, <3>2, <3>3 DEF Window!Push, Seen
    <3> QED BY <3>4 DEF Window!Next
  <2>3. CASE ~request.allow_shift
    <3>1. session_tokens' = session_tokens
      BY <1>5, <2>3 DEF Decode, SessionAfterDecode
    <3> QED BY <1>3, <2>1, <2>3, <3>1
  <2> QED BY <2>2, <2>3
<1>6. CASE ContextShift
  <2> DEFINE k == KeepOf(request.n_keep, n_past)
             d == DiscardOf(request.n_keep, n_past)
  <2>1. /\ request.allow_shift /\ d > 0 /\ ~HasRoom
        /\ mem' = SeqAdd(SeqRm(mem, k, k + d), k + d, n_past, -d)
        /\ UNCHANGED <<request, session_tokens>>
    BY <1>6 DEF ContextShift, MayShift, Slid, NoStop
  <2>2. n_past = NCtx - 1
    BY <1>4, <2>1, ContextAssumption DEF HasRoom
  <2>3. k \in Nat /\ d \in Nat \ {0} /\ k + d <= n_past
    <3>1. KeepOf(request.n_keep, n_past) \in Nat /\ DiscardOf(request.n_keep, n_past) \in Int
          /\ (DiscardOf(request.n_keep, n_past) > 0 =>
                KeepOf(request.n_keep, n_past) + DiscardOf(request.n_keep, n_past) < n_past)
      BY <1>1, ShiftAmounts
    <3> QED BY <1>1, <2>1, <3>1
  <2>4. d = (Len(Contents(mem)) - KeepOf(request.n_keep, NCtx - 1)) \div 2
    BY <1>4, <2>1, <2>2 DEF DiscardOf
  <2>5. k = KeepOf(request.n_keep, NCtx - 1)
    BY <2>2
  <2> HIDE DEF k, d
  <2>6. Contents(mem)' = SubSeq(Contents(mem), 1, k) \o SubSeq(Contents(mem), k + d + 1, n_past)
    <3>1. /\ Contents(SeqAdd(SeqRm(mem, k, k + d), k + d, n_past, -d)) \in Seq(Token)
          /\ Contents(SeqAdd(SeqRm(mem, k, k + d), k + d, n_past, -d)) =
               Without(Contents(mem), k, d)
      <4>1. mem \subseteq [pos : Nat, tok : Token] /\ Dense(mem, n_past) /\ n_past \in Nat
        BY <1>1, <1>4, <2>1
      <4>2. k \in Nat /\ d \in Nat \ {0} /\ k + d <= n_past
        BY <2>3
      <4> QED BY <4>1, <4>2, ContentsOfSlide
    <3>2. Contents(mem)' = Contents(mem')
      BY DEF Contents
    <3> QED BY <1>4, <2>1, <3>1, <3>2 DEF Without
  <2>7. Len(Contents(mem)) = n_past /\ n_past + 1 >= NCtx
    BY <1>4, <2>1, <2>2, ContextAssumption
  <2>8. Window!Forget
    BY <2>1, <2>3, <2>4, <2>5, <2>6, <2>7 DEF Window!Forget, Seen
  <2> QED BY <2>8 DEF Window!Next
<1>7. CASE ~Decode /\ ~ContextShift
  <2>1. UNCHANGED <<mem, session_tokens, request>>
    BY <1>7 DEF Next, vars, gen, BudgetSpent, SampleEog, Sample, CallbackDeclines, CallbackAccepts,
           StopFound, RoomLeft, ContextFull, DecodeFails, Return, End, NoStop
  <2> QED BY <1>2, <2>1
<1> QED BY <1>5, <1>6, <1>7

\* The generation loop implements the sliding window, for every context size,
\* n_keep, prompt and vocabulary (generate_tokens, binding.cpp:521-549).
THEOREM ImplementsWindow == Spec => WindowSpec
<1> QED BY TypeCorrect, MemCorrect, WindowInit, WindowStep, PTL DEF Spec, WindowSpec, Window!Spec
---------------------------------------------------------------------------
\* How far a token has come through the loop, and what the rest of the loop can
\* still do: six steps for every token that the budget has left.
Stage == CASE pc = "sample" -> 5 [] pc = "callback" -> 4 [] pc = "scan" -> 3
           [] pc = "decode" -> 2 [] pc = "end" -> 1 [] OTHER -> 0
StepsLeft == 6 * (request.n_predict - i) + Stage

\* Every step of the loop, a context shift too, brings it closer to its end.
CountsDown ==
    [][ /\ StepsLeft \in Nat /\ StepsLeft' \in Nat
        /\ StepsLeft' < StepsLeft ]_vars

\* The stages as numbers, at the places the loop can be.
LEMMA Stages ==
    /\ pc = "sample" => Stage = 5
    /\ pc = "callback" => Stage = 4
    /\ pc = "scan" => Stage = 3
    /\ pc = "decode" => Stage = 2
    /\ pc = "end" => Stage = 1
    /\ pc = "returned" => Stage = 0
    /\ TypeInv => Stage \in 0..5
<1> QED BY DEF Stage, TypeInv, TypeOK

\* A step that does not count a token goes on to a later stage.
LEMMA LaterStage ==
    ASSUME TypeInv, TypeInv', vars' # vars, [Next]_vars, ~Decode
    PROVE  i' = i /\ request' = request /\ Stage' < Stage
<1> USE DEF End, NoStop, gen, text
<1>0. /\ pc' = "callback" => Stage' = 4
      /\ pc' = "scan" => Stage' = 3
      /\ pc' = "decode" => Stage' = 2
      /\ pc' = "end" => Stage' = 1
      /\ pc' = "returned" => Stage' = 0
  BY Stages DEF Stage
<1>1. CASE BudgetSpent
  BY <1>0, <1>1, Stages DEF BudgetSpent
<1>2. CASE SampleEog
  BY <1>0, <1>2, Stages DEF SampleEog
<1>3. CASE Sample
  BY <1>0, <1>3, Stages DEF Sample
<1>4. CASE CallbackDeclines
  BY <1>0, <1>4, Stages DEF CallbackDeclines
<1>5. CASE CallbackAccepts
  BY <1>0, <1>5, Stages DEF CallbackAccepts
<1>6. CASE StopFound
  BY <1>0, <1>6, Stages DEF StopFound
<1>7. CASE RoomLeft
  BY <1>0, <1>7, Stages DEF RoomLeft
<1>8. CASE ContextShift
  BY <1>0, <1>8, Stages DEF ContextShift
<1>9. CASE ContextFull
  BY <1>0, <1>9, Stages DEF ContextFull
<1>10. CASE DecodeFails
  BY <1>0, <1>10, Stages DEF DecodeFails
<1>11. CASE Return
  BY <1>0, <1>11, Stages DEF Return
<1> QED BY <1>1, <1>2, <1>3, <1>4, <1>5, <1>6, <1>7, <1>8, <1>9, <1>10, <1>11 DEF Next

\* A generation takes at most 6 * n_predict + 5 steps, for every context, prompt
\* and stop word: a context that is shifted again and again, or tokens without
\* text, cannot keep the loop of generate_tokens (binding.cpp:501) going.
THEOREM LoopCountsDown == Spec => CountsDown
<1>1. ASSUME TypeInv, TypeInv', [Next]_vars, vars' # vars
      PROVE  StepsLeft \in Nat /\ StepsLeft' \in Nat /\ StepsLeft' < StepsLeft
  <2>1. /\ request.n_predict - i \in Nat /\ Stage \in 0..5
        /\ (request.n_predict - i)' \in Nat /\ Stage' \in 0..5
    <3>1. request.n_predict - i \in Nat /\ (request.n_predict - i)' \in Nat
      BY <1>1 DEF TypeInv, TypeOK
    <3>2. Stage \in 0..5
      BY <1>1, Stages
    <3>3. Stage' \in 0..5
      BY <1>1 DEF Stage, TypeInv, TypeOK
    <3> QED BY <3>1, <3>2, <3>3
  <2>2. CASE Decode
    <3>1. (request.n_predict - i)' = (request.n_predict - i) - 1
      BY <1>1, <2>2 DEF Decode, TypeInv, TypeOK
    <3>2. Stage = 2
      BY <2>2, Stages DEF Decode
    <3> QED BY <2>1, <3>1, <3>2 DEF StepsLeft
  <2>3. CASE ~Decode
    <3>1. i' = i /\ request' = request /\ Stage' < Stage
      BY <1>1, <2>3, LaterStage
    <3> QED BY <2>1, <3>1 DEF StepsLeft
  <2> QED BY <2>2, <2>3
<1>2. TypeInv /\ TypeInv' /\ [Next]_vars =>
        [(StepsLeft \in Nat) /\ StepsLeft' \in Nat /\ StepsLeft' < StepsLeft]_vars
  BY <1>1
<1> QED BY <1>2, TypeInit, TypeStep, PTL DEF Spec, CountsDown
=============================================================================
