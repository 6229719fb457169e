------------------------------ MODULE KVMemory ------------------------------
(***************************************************************************)
(* The attention memory of a llama.cpp context, as the binding uses it     *)
(* (external: llama.cpp is a submodule).  Only sequence 0 is ever used.    *)
(* A memory is a set of cells [pos, tok].  Text puts one cell at each      *)
(* position; the patches of an image may share a position (M-RoPE).        *)
(***************************************************************************)
EXTENDS Integers, Sequences, FiniteSets, FiniteSetsExt

Positions(mem) == {c.pos : c \in mem}

\* Where llama_batch_get_one places the next token.
NextPos(mem) == IF mem = {} THEN 0 ELSE Max(Positions(mem)) + 1

\* llama_decode appends toks after the last position.
Extended(mem, toks) ==
    mem \cup {[pos |-> NextPos(mem) + k - 1, tok |-> toks[k]] : k \in 1..Len(toks)}

\* llama_memory_seq_rm: drops p0 <= pos < p1; a negative p1 means the end.
SeqRm(mem, p0, p1) == {c \in mem : c.pos < p0 \/ (p1 >= 0 /\ c.pos >= p1)}

\* llama_memory_seq_add: shifts the positions p0 <= pos < p1 by delta.
SeqAdd(mem, p0, p1, delta) ==
    {IF c.pos >= p0 /\ c.pos < p1 THEN [c EXCEPT !.pos = @ + delta] ELSE c : c \in mem}

\* One cell at every position 0 .. n - 1 and no other cell.
Dense(mem, n) ==
    /\ Positions(mem) = 0..n - 1
    /\ \A c, d \in mem : c.pos = d.pos => c = d

\* The memory that holds exactly toks at positions 0, 1, ...
Linear(toks) == {[pos |-> k - 1, tok |-> toks[k]] : k \in 1..Len(toks)}

\* The tokens of a memory with one cell per position, in position order.
Contents(mem) ==
    [k \in 1..Cardinality(mem) |-> (CHOOSE c \in mem : c.pos = k - 1).tok]
=============================================================================
