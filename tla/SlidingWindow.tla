--------------------------- MODULE SlidingWindow ---------------------------
(***************************************************************************)
(* What the context shift of generate_tokens promises, without positions,  *)
(* counters or an attention memory: the model attends to a window of the   *)
(* tokens seen so far, never wider than Size.  A new token goes to the end *)
(* of the window; when no room is left, half of the tokens after the first *)
(* `keep` are forgotten, oldest first, before the new one goes in.         *)
(***************************************************************************)
EXTENDS Integers, Sequences, SequencesExt

CONSTANTS Tok,      \* the vocabulary
          Size      \* capacity of the window (n_ctx)

VARIABLES window,   \* what the model attends to, oldest first
          history,  \* every token of the prompt and of the answer so far
          keep      \* how many tokens at the start are never forgotten

vars == <<window, history, keep>>

Init ==
    /\ history \in Seq(Tok) /\ Len(history) < Size
    /\ window = history
    /\ keep \in 0..Size

\* Room for one more token and one to spare.
Push ==
    /\ Len(window) + 1 < Size
    /\ \E t \in Tok : window' = Append(window, t) /\ history' = Append(history, t)
    /\ UNCHANGED keep

\* Half of what is not kept, rounded down, and at least one token.
Forget ==
    LET dropped == (Len(window) - keep) \div 2
    IN  /\ Len(window) + 1 >= Size
        /\ dropped > 0
        /\ window' = SubSeq(window, 1, keep) \o SubSeq(window, keep + dropped + 1, Len(window))
        /\ UNCHANGED <<history, keep>>

Next == Push \/ Forget
Spec == Init /\ [][Next]_vars
=============================================================================
