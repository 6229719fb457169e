------------------------------ MODULE Options ------------------------------
(***************************************************************************)
(* Options (options.go) and what reaches the C side of them (llama.go,     *)
(* llama_allocate_params).  An option is [field, value]; only the fields   *)
(* that change the course of a call are kept.  A logit bias is [id, bias]; *)
(* id -1 stands for text that is no number, "unreadable" for a bias that   *)
(* strtof refuses or finds out of range.                                   *)
(***************************************************************************)
EXTENDS Integers, Sequences, SequencesExt

CONSTANTS
    IntMax,      \* the largest llama_token and C int, 2^31 - 1
    LongMax      \* the largest C long

ASSUME WidthAssumption == IntMax \in Nat /\ LongMax \in Nat /\ IntMax <= LongMax

DefaultModelOptions ==
    [TensorSplit |-> "", MainGPU |-> "", LoraAdapter |-> "", MMProj |-> "", Embeddings |-> FALSE]

DefaultOptions ==
    [Tokens |-> 128, Grammar |-> "", StopPrompts |-> <<>>, LogitBias |-> <<>>,
     LogitBiases |-> <<>>, MediaPaths |-> <<>>]

\* The types of the fields that options set.
BiasEntries == [id : Int, bias : STRING]
ValuesOf == [Tokens |-> Int, Grammar |-> STRING, StopPrompts |-> Seq(STRING), LogitBias |-> Seq(BiasEntries),
             LogitBiases |-> Seq(BiasEntries), MediaPaths |-> Seq(STRING)]
IsPredictOption(option) ==
    \E f \in DOMAIN ValuesOf : option \in [field : {f}, value : ValuesOf[f]]
AreOptions(opts) ==
    /\ Len(opts) \in Nat /\ DOMAIN opts = 1..Len(opts)
    /\ \A i \in DOMAIN opts : IsPredictOption(opts[i])

\* The setters: most overwrite a field, three append to a list.
Set(p, option) == [p EXCEPT ![option.field] = option.value]
Add(p, option) == [p EXCEPT ![option.field] = @ \o option.value]
Applied(p, option) ==
    IF option.field \in {"LogitBiases", "MediaPaths"} THEN Add(p, option) ELSE Set(p, option)

NewModelOptions(opts) == FoldLeft(Set, DefaultModelOptions, opts)
NewPredictOptions(opts) ==
    LET po[i \in 0..Len(opts)] == IF i = 0 THEN DefaultOptions ELSE Applied(po[i - 1], opts[i])
    IN  po[Len(opts)]

\* The text entries first, then the list.
formatLogitBias(po) == po.LogitBias \o po.LogitBiases

\* strtol, then the cast of its result to llama_token.
Narrowed(id) == ((id + IntMax + 1) % (2 * (IntMax + 1))) - (IntMax + 1)

Readable(entry) == entry.id \in 0..LongMax /\ entry.bias # "unreadable"

\* Mutant: parsing ends at the first entry that cannot be read.
ParseUpToUnreadable(entries) ==
    LET bad == {i \in DOMAIN entries : ~Readable(entries[i])}
    IN  SubSeq(entries, 1, IF bad = {} THEN Len(entries) ELSE (CHOOSE i \in bad : \A j \in bad : i <= j) - 1)
\* An entry that cannot be read is skipped.
parse_logit_biases(entries) ==
    LET biases[i \in 0..Len(entries)] ==
          IF i = 0 THEN <<>>
          ELSE IF ~Readable(entries[i]) THEN biases[i - 1]
          ELSE Append(biases[i - 1], [id |-> Narrowed(entries[i].id), bias |-> entries[i].bias])
    IN  biases[Len(entries)]

\* newCPredictParams: C strings for the prompt, the stop words, the biases, the
\* sequence breakers and five more options.
StringsOf(po) == 8 + Len(po.StopPrompts)
=============================================================================
