----------------------------- MODULE StopWords -----------------------------
(***************************************************************************)
(* Stop words: the windowed search the generation loop runs on every token *)
(* (find_stop_position, binding.cpp) and the trimming Go applies to a      *)
(* finished text (cleanPredictionResult, llama.go).                        *)
(*                                                                         *)
(* A text is a sequence of characters, a position a 0-based offset as in   *)
(* std::string, and the stop words a sequence of texts in the order the    *)
(* caller gave them.                                                       *)
(***************************************************************************)
EXTENDS Integers, Sequences, Folds

NPos == -1                                      \* std::string::npos

\* The stop word occupies offsets p .. p + Len(stop) - 1 of the text.
OccursAt(stop, text, p) ==
    /\ p + Len(stop) <= Len(text)
    /\ \A k \in 1..Len(stop) : text[p + k] = stop[k]

\* Mutant: only the new piece is searched.
SearchFromPiece(stop, appended_from) == appended_from

\* Where the search for one stop word starts: a match that touches the text
\* appended at or after appended_from starts no earlier than this.
SearchFrom(stop, appended_from) ==
    IF appended_from >= Len(stop) - 1 THEN appended_from - (Len(stop) - 1) ELSE 0

Hits(text, appended_from, stops) ==
    {p \in 0..Len(text) :
        \E s \in 1..Len(stops) : /\ stops[s] # <<>>
                                 /\ p >= SearchFrom(stops[s], appended_from)
                                 /\ OccursAt(stops[s], text, p)}

Earliest(S) == IF S = {} THEN NPos ELSE CHOOSE p \in S : \A q \in S : p <= q

\* Mutant: only the first stop word of the list is looked for.
find_first_listed(text, appended_from, stops) ==
    Earliest(Hits(text, appended_from, SubSeq(stops, 1, 1)))

find_stop_position(text, appended_from, stops) ==
    Earliest(Hits(text, appended_from, stops))

\* Reference: no stop word occurs anywhere in the text.
StopFree(text, stops) ==
    \A s \in 1..Len(stops) :
        stops[s] # <<>> => \A p \in 0..Len(text) : ~OccursAt(stops[s], text, p)

\* Reference: the first occurrence of any stop word in the whole text.
FirstStop(text, stops) == Earliest(Hits(text, 0, stops))

\* Reference: the text in front of the first stop word, all of it without one.
BeforeFirstStop(text, stops) ==
    SubSeq(text, 1, IF FirstStop(text, stops) = NPos THEN Len(text) ELSE FirstStop(text, stops))

\* Reference: the text in front of any of its stop words, or all of it.
BeforeSomeStop(text, stops) == {SubSeq(text, 1, p) : p \in Hits(text, 0, stops) \cup {Len(text)}}

---------------------------------------------------------------------------
\* strings.TrimSuffix
TrimSuffix(text, suffix) ==
    IF suffix # <<>> /\ Len(text) >= Len(suffix)
          /\ OccursAt(suffix, text, Len(text) - Len(suffix))
    THEN SubSeq(text, 1, Len(text) - Len(suffix))
    ELSE text

\* Mutant: the leading character is trimmed as an echo of the prompt.
cleanLeading(res, stopPrompts) == IF res = <<>> THEN res ELSE Tail(res)

\* Each stop word in turn is cut once from the end of what is left.
cleanPredictionResult(res, stopPrompts) ==
    LET trimmed[k \in 0..Len(stopPrompts)] ==
          IF k = 0 THEN res ELSE TrimSuffix(trimmed[k - 1], stopPrompts[k])
    IN  trimmed[Len(stopPrompts)]
=============================================================================
