--------------------------- MODULE KVMemoryProofs ---------------------------
(***************************************************************************)
(* Facts about memories with one cell per position, the only ones text     *)
(* generation makes: what extending, cutting and sliding them leaves.      *)
(***************************************************************************)
EXTENDS KVMemory, FiniteSetTheorems, FunctionTheorems, TLAPS

\* The length of two sequences one behind the other.
LEMMA ConcatTyped ==
    ASSUME NEW T, NEW a \in Seq(T), NEW b \in Seq(T)
    PROVE  a \o b \in Seq(T) /\ Len(a \o b) = Len(a) + Len(b)
OBVIOUS

\* The last of n positions.
LEMMA MaxOfRange ==
    ASSUME NEW n \in Nat \ {0}
    PROVE  Max(0..n - 1) = n - 1
<1>1. \A x \in 0..n - 1 : (\A y \in 0..n - 1 : x >= y) <=> x = n - 1
  OBVIOUS
<1>2. n - 1 \in 0..n - 1
  OBVIOUS
<1> QED BY <1>1, <1>2 DEF Max

\* A dense memory has as many cells as positions.
LEMMA DenseCardinality ==
    ASSUME NEW mem, NEW n \in Nat, Dense(mem, n)
    PROVE  IsFiniteSet(mem) /\ Cardinality(mem) = n
<1> DEFINE f == [c \in mem |-> c.pos]
<1>1. f \in Bijection(mem, 0..n - 1)
  <2>1. f \in [mem -> 0..n - 1]
    BY DEF Dense, Positions
  <2>2. \A c, d \in mem : f[c] = f[d] => c = d
    BY DEF Dense
  <2>3. \A p \in 0..n - 1 : \E c \in mem : f[c] = p
    BY DEF Dense, Positions
  <2> QED BY <2>1, <2>2, <2>3 DEF Bijection, Injection, IsInjective, Surjection
<1>2. ExistsBijection(mem, 0..n - 1) /\ ExistsBijection(0..n - 1, mem)
  BY <1>1, Fun_ExistsBijSymmetric DEF ExistsBijection
<1>3. IsFiniteSet(0..n - 1) /\ Cardinality(0..n - 1) = n
  BY FS_Interval
<1> QED BY <1>2, <1>3, FS_Bijection

\* A prompt is decoded into a dense memory.
LEMMA LinearIsDense ==
    ASSUME NEW T, NEW toks \in Seq(T)
    PROVE  Linear(toks) \subseteq [pos : Nat, tok : T] /\ Dense(Linear(toks), Len(toks))
<1>1. Linear(toks) \subseteq [pos : Nat, tok : T]
  BY DEF Linear
<1>2. Positions(Linear(toks)) \subseteq 0..Len(toks) - 1
  BY DEF Positions, Linear
<1>3. ASSUME NEW p \in 0..Len(toks) - 1
      PROVE  p \in Positions(Linear(toks))
  <2>1. p + 1 \in 1..Len(toks) /\ p = (p + 1) - 1
    OBVIOUS
  <2>2. [pos |-> (p + 1) - 1, tok |-> toks[p + 1]] \in Linear(toks)
    BY <2>1 DEF Linear
  <2> QED BY <2>1, <2>2 DEF Positions
<1>4. \A c, d \in Linear(toks) : c.pos = d.pos => c = d
  BY DEF Linear
<1> QED BY <1>1, <1>2, <1>3, <1>4 DEF Dense

\* A longer prompt has one more cell.
LEMMA LinearAppend ==
    ASSUME NEW T, NEW toks \in Seq(T), NEW t \in T
    PROVE  Linear(Append(toks, t)) = Linear(toks) \cup {[pos |-> Len(toks), tok |-> t]}
<1> DEFINE new == [pos |-> Len(toks), tok |-> t]
           longer == Append(toks, t)
           Cell(q, k) == [pos |-> k - 1, tok |-> q[k]]
<1>1. /\ longer \in Seq(T) /\ Len(longer) = Len(toks) + 1
      /\ \A k \in 1..Len(toks) : longer[k] = toks[k]
      /\ longer[Len(toks) + 1] = t
  OBVIOUS
<1>2. \A k \in 1..Len(toks) : Cell(longer, k) = Cell(toks, k)
  BY <1>1
<1>3. Cell(longer, Len(toks) + 1) = new
  BY <1>1
<1>4. Linear(longer) = {Cell(longer, k) : k \in 1..Len(longer)}
      /\ Linear(toks) = {Cell(toks, k) : k \in 1..Len(toks)}
  BY DEF Linear
<1>5. 1..Len(longer) = (1..Len(toks)) \cup {Len(toks) + 1}
  BY <1>1
<1> HIDE DEF new, longer, Cell
<1>6. Linear(longer) = {Cell(toks, k) : k \in 1..Len(toks)} \cup {new}
  BY <1>2, <1>3, <1>4, <1>5
<1> QED BY <1>4, <1>6 DEF new, longer

\* Decoding one token adds one cell behind the others.
LEMMA ExtendDense ==
    ASSUME NEW T, NEW t \in T, NEW n \in Nat \ {0},
           NEW mem, mem \subseteq [pos : Nat, tok : T], Dense(mem, n)
    PROVE  /\ Extended(mem, <<t>>) = mem \cup {[pos |-> n, tok |-> t]}
           /\ Extended(mem, <<t>>) \subseteq [pos : Nat, tok : T]
           /\ Dense(Extended(mem, <<t>>), n + 1)
<1> DEFINE new == [pos |-> n, tok |-> t]
<1>1. NextPos(mem) = n
  <2>1. mem # {}
    BY DEF Dense, Positions
  <2> QED BY <2>1, MaxOfRange DEF NextPos, Dense
<1>2. Extended(mem, <<t>>) = mem \cup {new}
  BY <1>1 DEF Extended
<1>3. Positions(mem \cup {new}) = 0..n
  <2>1. Positions(mem \cup {new}) = Positions(mem) \cup {n}
    <3>1. new.pos = n
      OBVIOUS
    <3> HIDE DEF new
    <3> QED BY <3>1, Zenon DEF Positions
  <2>2. Positions(mem) = 0..n - 1 /\ (0..n - 1) \cup {n} = 0..n
    BY DEF Dense
  <2> HIDE DEF new
  <2> QED BY <2>1, <2>2
<1>4. \A c, d \in mem \cup {new} : c.pos = d.pos => c = d
  BY DEF Dense, Positions
<1>5. (n + 1) - 1 = n
  OBVIOUS
<1>6. mem \cup {new} \subseteq [pos : Nat, tok : T]
  OBVIOUS
<1> HIDE DEF new
<1> QED BY <1>2, <1>3, <1>4, <1>5, <1>6 DEF Dense, new

\* A context shift closes the gap it makes: positions stay dense, the counter
\* goes down by what was discarded.
LEMMA SlideDense ==
    ASSUME NEW T, NEW n \in Nat, NEW k \in Nat, NEW d \in Nat \ {0}, k + d <= n,
           NEW mem, mem \subseteq [pos : Nat, tok : T], Dense(mem, n)
    PROVE  /\ SeqAdd(SeqRm(mem, k, k + d), k + d, n, -d) \subseteq [pos : Nat, tok : T]
           /\ Dense(SeqAdd(SeqRm(mem, k, k + d), k + d, n, -d), n - d)
<1> DEFINE left == SeqRm(mem, k, k + d)
           Moved(c) == IF c.pos >= k + d /\ c.pos < n THEN [c EXCEPT !.pos = @ + (-d)] ELSE c
           slid == SeqAdd(left, k + d, n, -d)
<1>1. slid = {Moved(c) : c \in left}
  BY DEF SeqAdd
<1>2. \A c \in left : /\ c \in mem /\ c.pos \in 0..n - 1
                      /\ c.pos < k \/ c.pos >= k + d
  BY DEF SeqRm, Dense, Positions
<1>3. \A c \in left : /\ Moved(c) \in [pos : Nat, tok : T]
                      /\ Moved(c).pos = IF c.pos < k THEN c.pos ELSE c.pos - d
                      /\ Moved(c).pos \in 0..(n - d) - 1
  BY <1>2
<1>4. ASSUME NEW p \in 0..(n - d) - 1
      PROVE  \E c \in left : Moved(c).pos = p
  <2> DEFINE q == IF p < k THEN p ELSE p + d
  <2>1. q \in 0..n - 1 /\ (q < k \/ q >= k + d)
    OBVIOUS
  <2>2. PICK c \in mem : c.pos = q
    BY <2>1 DEF Dense, Positions
  <2>3. c \in left
    BY <2>1, <2>2 DEF SeqRm
  <2> QED BY <1>3, <2>2, <2>3
<1>5. ASSUME NEW b \in left, NEW c \in left, Moved(b).pos = Moved(c).pos
      PROVE  Moved(b) = Moved(c)
  <2>1. b.pos = c.pos
    BY <1>2, <1>3, <1>5
  <2> QED BY <1>2, <2>1 DEF Dense
<1> HIDE DEF left, Moved, slid
<1>6. Positions(slid) = 0..(n - d) - 1
  BY <1>1, <1>3, <1>4 DEF Positions
<1>7. \A x, y \in slid : x.pos = y.pos => x = y
  BY <1>1, <1>5
<1>8. slid \subseteq [pos : Nat, tok : T]
  BY <1>1, <1>3
<1> QED BY <1>6, <1>7, <1>8 DEF Dense, slid, left

---------------------------------------------------------------------------
\* The contents of a memory with one cell per position list the token of each.
LEMMA ContentsOfDense ==
    ASSUME NEW T, NEW n \in Nat, NEW mem, mem \subseteq [pos : Nat, tok : T], Dense(mem, n)
    PROVE  /\ Contents(mem) \in Seq(T) /\ Len(Contents(mem)) = n
           /\ \A k \in 1..n : [pos |-> k - 1, tok |-> Contents(mem)[k]] \in mem
<1>1. Cardinality(mem) = n
  BY DenseCardinality
<1> DEFINE Cell(k) == CHOOSE c \in mem : c.pos = k - 1
<1>2. ASSUME NEW k \in 1..n
      PROVE  Cell(k) \in mem /\ Cell(k).pos = k - 1
  <2>1. k - 1 \in Positions(mem)
    BY DEF Dense
  <2>2. \E c \in mem : c.pos = k - 1
    BY <2>1 DEF Positions
  <2> QED BY <2>2
<1>3. Contents(mem) = [k \in 1..n |-> Cell(k).tok]
  BY <1>1 DEF Contents
<1> HIDE DEF Cell
<1>4. \A k \in 1..n : Cell(k).tok \in T
  BY <1>2
<1>5. ASSUME NEW k \in 1..n
      PROVE  [pos |-> k - 1, tok |-> Contents(mem)[k]] \in mem
  <2>1. Cell(k) = [pos |-> Cell(k).pos, tok |-> Cell(k).tok]
    BY <1>2
  <2> QED BY <1>2, <1>3, <2>1
<1>6. Contents(mem) \in Seq(T) /\ Len(Contents(mem)) = n
  <2>1. Contents(mem) \in [1..n -> T]
    BY <1>3, <1>4
  <2> QED BY <1>3, <2>1
<1> QED BY <1>5, <1>6

\* A sequence whose tokens are the cells of a dense memory is its contents.
LEMMA ContentsAre ==
    ASSUME NEW T, NEW toks \in Seq(T), NEW mem, mem \subseteq [pos : Nat, tok : T],
           Dense(mem, Len(toks)),
           \A k \in 1..Len(toks) : [pos |-> k - 1, tok |-> toks[k]] \in mem
    PROVE  Contents(mem) = toks
<1>1. /\ Contents(mem) \in Seq(T) /\ Len(Contents(mem)) = Len(toks)
      /\ \A k \in 1..Len(toks) : [pos |-> k - 1, tok |-> Contents(mem)[k]] \in mem
  BY ContentsOfDense
<1>2. ASSUME NEW k \in 1..Len(toks)
      PROVE  Contents(mem)[k] = toks[k]
  <2>1. [pos |-> k - 1, tok |-> Contents(mem)[k]] = [pos |-> k - 1, tok |-> toks[k]]
    BY <1>1 DEF Dense
  <2> QED BY <2>1
<1> QED BY <1>1, <1>2

\* What a prompt is decoded into has the prompt as its contents.
LEMMA ContentsOfLinear ==
    ASSUME NEW T, NEW toks \in Seq(T)
    PROVE  Contents(Linear(toks)) = toks
<1>1. \A k \in 1..Len(toks) : [pos |-> k - 1, tok |-> toks[k]] \in Linear(toks)
  BY DEF Linear
<1> QED BY <1>1, LinearIsDense, ContentsAre

\* A decoded token goes to the end of the contents.
LEMMA ContentsOfExtended ==
    ASSUME NEW T, NEW t \in T, NEW n \in Nat \ {0},
           NEW mem, mem \subseteq [pos : Nat, tok : T], Dense(mem, n)
    PROVE  Contents(Extended(mem, <<t>>)) = Append(Contents(mem), t)
<1> DEFINE C == Contents(mem)
           longer == Append(C, t)
<1>1. /\ C \in Seq(T) /\ Len(C) = n
      /\ \A k \in 1..n : [pos |-> k - 1, tok |-> C[k]] \in mem
  BY ContentsOfDense
<1>2. /\ Extended(mem, <<t>>) = mem \cup {[pos |-> n, tok |-> t]}
      /\ Extended(mem, <<t>>) \subseteq [pos : Nat, tok : T]
      /\ Dense(Extended(mem, <<t>>), n + 1)
  BY ExtendDense
<1> HIDE DEF C
<1>3. longer \in Seq(T) /\ Len(longer) = n + 1
  BY <1>1
<1>4. ASSUME NEW k \in 1..n + 1
      PROVE  [pos |-> k - 1, tok |-> longer[k]] \in Extended(mem, <<t>>)
  <2>1. CASE k = n + 1
    BY <1>1, <1>2, <2>1
  <2>2. CASE k # n + 1
    <3>1. k \in 1..n /\ longer[k] = C[k]
      BY <1>1, <2>2
    <3> QED BY <1>1, <1>2, <3>1
  <2> QED BY <2>1, <2>2
<1> HIDE DEF longer
<1>5. Contents(Extended(mem, <<t>>)) = longer
  <2>1. /\ longer \in Seq(T) /\ Dense(Extended(mem, <<t>>), Len(longer))
        /\ \A k \in 1..Len(longer) : [pos |-> k - 1, tok |-> longer[k]] \in Extended(mem, <<t>>)
    BY <1>2, <1>3, <1>4
  <2> QED BY <1>2, <2>1, ContentsAre
<1> QED BY <1>5 DEF longer, C

\* A sequence without the d tokens that follow the first k.
Without(toks, k, d) == SubSeq(toks, 1, k) \o SubSeq(toks, k + d + 1, Len(toks))

\* It has the first k tokens, and then those that follow the d.
LEMMA TokensWithout ==
    ASSUME NEW T, NEW toks \in Seq(T), NEW k \in Nat, NEW d \in Nat, k + d <= Len(toks)
    PROVE  /\ Without(toks, k, d) \in Seq(T) /\ Len(Without(toks, k, d)) = Len(toks) - d
           /\ \A j \in 1..k : Without(toks, k, d)[j] = toks[j]
           /\ \A j \in k + 1..Len(toks) - d : Without(toks, k, d)[j] = toks[j + d]
<1> DEFINE n == Len(toks)
           head == SubSeq(toks, 1, k)
           last == SubSeq(toks, k + d + 1, n)
<1>1. head \in Seq(T) /\ Len(head) = k /\ \A j \in 1..k : head[j] = toks[j]
  OBVIOUS
<1>2. /\ last \in Seq(T) /\ Len(last) = n - k - d
      /\ \A j \in 1..n - k - d : last[j] = toks[k + d + j]
  BY SMTT(40)
<1>3. Without(toks, k, d) = head \o last /\ n \in Nat
  BY DEF Without
<1> HIDE DEF head, last, n
<1>4. /\ head \o last \in Seq(T) /\ Len(head \o last) = k + (n - k - d)
      /\ \A j \in 1..k : (head \o last)[j] = head[j]
      /\ \A j \in 1..n - k - d : (head \o last)[k + j] = last[j]
  <2>1. /\ head \in Seq(T) /\ last \in Seq(T)
        /\ Len(head) = k /\ Len(last) = n - k - d
    BY <1>1, <1>2
  <2>2. head \o last \in Seq(T) /\ Len(head \o last) = Len(head) + Len(last)
    BY <2>1, ConcatTyped
  <2>3. ASSUME NEW j \in 1..k PROVE (head \o last)[j] = head[j]
    BY <2>1
  <2>4. ASSUME NEW j \in 1..n - k - d PROVE (head \o last)[k + j] = last[j]
    BY <2>1
  <2> QED BY <2>1, <2>2, <2>3, <2>4
<1>5. ASSUME NEW j \in k + 1..n - d
      PROVE  (head \o last)[j] = toks[j + d]
  <2>1. j - k \in 1..n - k - d /\ k + d + (j - k) = j + d /\ k + (j - k) = j
    BY <1>3
  <2>2. (head \o last)[k + (j - k)] = last[j - k] /\ last[j - k] = toks[k + d + (j - k)]
    BY <1>2, <1>4, <2>1
  <2> QED BY <2>1, <2>2, Zenon
<1>6. k + (n - k - d) = n - d
  BY <1>3
<1> QED BY <1>1, <1>3, <1>4, <1>5, <1>6 DEF n

\* A slide forgets the tokens k + 1 .. k + d of the contents and nothing else.
LEMMA ContentsOfSlide ==
    ASSUME NEW T, NEW n \in Nat, NEW k \in Nat, NEW d \in Nat \ {0}, k + d <= n,
           NEW mem, mem \subseteq [pos : Nat, tok : T], Dense(mem, n)
    PROVE  /\ Contents(SeqAdd(SeqRm(mem, k, k + d), k + d, n, -d)) \in Seq(T)
           /\ Contents(SeqAdd(SeqRm(mem, k, k + d), k + d, n, -d)) = Without(Contents(mem), k, d)
<1> DEFINE C == Contents(mem)
           slid == SeqAdd(SeqRm(mem, k, k + d), k + d, n, -d)
           rest == Without(C, k, d)
<1>1. /\ C \in Seq(T) /\ Len(C) = n
      /\ \A j \in 1..n : [pos |-> j - 1, tok |-> C[j]] \in mem
  BY ContentsOfDense
<1>2. slid \subseteq [pos : Nat, tok : T] /\ Dense(slid, n - d)
  BY SlideDense
<1> HIDE DEF C
<1>3. /\ rest \in Seq(T) /\ Len(rest) = n - d
      /\ \A j \in 1..k : rest[j] = C[j]
      /\ \A j \in k + 1..n - d : rest[j] = C[j + d]
  <2>1. C \in Seq(T) /\ d \in Nat /\ k + d <= Len(C)
    BY <1>1
  <2>2. /\ Without(C, k, d) \in Seq(T) /\ Len(Without(C, k, d)) = Len(C) - d
        /\ \A j \in 1..k : Without(C, k, d)[j] = C[j]
        /\ \A j \in k + 1..Len(C) - d : Without(C, k, d)[j] = C[j + d]
    BY <2>1, TokensWithout
  <2> QED BY <1>1, <2>2
<1>4. ASSUME NEW j \in 1..n - d
      PROVE  [pos |-> j - 1, tok |-> rest[j]] \in slid
  <2>1. CASE j <= k
    <3> DEFINE c == [pos |-> j - 1, tok |-> C[j]]
    <3>1. c \in mem /\ c.pos = j - 1 /\ c.pos < k /\ rest[j] = C[j]
      BY <1>1, <1>3, <2>1
    <3>2. c \in SeqRm(mem, k, k + d)
      BY <3>1 DEF SeqRm
    <3>3. ~(c.pos >= k + d /\ c.pos < n)
      BY <3>1
    <3> HIDE DEF c
    <3>4. c \in slid
      BY <3>2, <3>3 DEF SeqAdd
    <3> QED BY <3>1, <3>4 DEF c
  <2>2. CASE j > k
    <3> DEFINE c == [pos |-> j + d - 1, tok |-> C[j + d]]
               moved == [c EXCEPT !.pos = @ + (-d)]
    <3>1. /\ j + d \in 1..n /\ c \in mem /\ c.pos = j + d - 1
          /\ c.pos >= k + d /\ c.pos < n /\ rest[j] = C[j + d]
      <4>1. j + d \in 1..n /\ j \in k + 1..n - d
        BY <2>2
      <4>2. c.pos = j + d - 1 /\ c.pos >= k + d /\ c.pos < n
        BY <2>2, <4>1
      <4>3. c \in mem
        BY <1>1, <4>1
      <4>4. rest[j] = C[j + d]
        BY <1>3, <4>1
      <4> QED BY <4>1, <4>2, <4>3, <4>4
    <3>2. moved = [pos |-> j - 1, tok |-> C[j + d]]
      OBVIOUS
    <3>3. c \in SeqRm(mem, k, k + d)
      BY <3>1 DEF SeqRm
    <3> HIDE DEF c
    <3>4. moved \in slid
      BY <3>1, <3>3 DEF SeqAdd
    <3> QED BY <3>1, <3>2, <3>4
  <2> QED BY <2>1, <2>2
<1> HIDE DEF rest, slid
<1>5. Contents(slid) = rest
  <2>1. /\ rest \in Seq(T) /\ Dense(slid, Len(rest))
        /\ \A j \in 1..Len(rest) : [pos |-> j - 1, tok |-> rest[j]] \in slid
    BY <1>2, <1>3, <1>4
  <2> QED BY <1>2, <2>1, ContentsAre
<1> QED BY <1>3, <1>5 DEF rest, slid, C

\* The cells of the first k tokens.
LEMMA LinearOfFirst ==
    ASSUME NEW T, NEW toks \in Seq(T), NEW k \in 0..Len(toks)
    PROVE  /\ SubSeq(toks, 1, k) \in Seq(T) /\ Len(SubSeq(toks, 1, k)) = k
           /\ Linear(SubSeq(toks, 1, k)) = {[pos |-> j - 1, tok |-> toks[j]] : j \in 1..k}
<1> DEFINE first == SubSeq(toks, 1, k)
<1>1. first \in Seq(T) /\ Len(first) = k /\ \A j \in 1..k : first[j] = toks[j]
  OBVIOUS
<1>2. Linear(first) = {[pos |-> j - 1, tok |-> first[j]] : j \in 1..k}
  BY <1>1 DEF Linear
<1> HIDE DEF first
<1>3. Linear(first) = {[pos |-> j - 1, tok |-> toks[j]] : j \in 1..k}
  BY <1>1, <1>2
<1> QED BY <1>1, <1>3 DEF first

\* A cut leaves the tokens before it.
LEMMA CutLinear ==
    ASSUME NEW T, NEW toks \in Seq(T), NEW k \in 0..Len(toks)
    PROVE  SeqRm(Linear(toks), k, -1) = Linear(SubSeq(toks, 1, k))
<1>1. SeqRm(Linear(toks), k, -1) = {c \in Linear(toks) : c.pos < k}
  BY DEF SeqRm
<1>2. ASSUME NEW c PROVE c \in Linear(toks) /\ c.pos < k <=>
                         \E j \in 1..k : c = [pos |-> j - 1, tok |-> toks[j]]
  <2>1. c \in Linear(toks) <=> \E j \in 1..Len(toks) : c = [pos |-> j - 1, tok |-> toks[j]]
    BY DEF Linear
  <2>2. ASSUME NEW j \in 1..Len(toks), c = [pos |-> j - 1, tok |-> toks[j]]
        PROVE  c.pos < k <=> j \in 1..k
    <3>1. c.pos = j - 1
      BY <2>2
    <3> QED BY <3>1
  <2>3. 1..k \subseteq 1..Len(toks)
    OBVIOUS
  <2> QED BY <2>1, <2>2, <2>3
<1>3. {c \in Linear(toks) : c.pos < k} = {[pos |-> j - 1, tok |-> toks[j]] : j \in 1..k}
  BY <1>2
<1>4. Linear(SubSeq(toks, 1, k)) = {[pos |-> j - 1, tok |-> toks[j]] : j \in 1..k}
  BY LinearOfFirst
<1> QED BY <1>1, <1>3, <1>4, Zenon

\* Decoding the next tokens of a sequence behind the first ones.
LEMMA ExtendedLinear ==
    ASSUME NEW T, NEW toks \in Seq(T), NEW a \in 0..Len(toks), NEW b \in a..Len(toks)
    PROVE  Extended(Linear(SubSeq(toks, 1, a)), SubSeq(toks, a + 1, b)) = Linear(SubSeq(toks, 1, b))
<1> DEFINE first == Linear(SubSeq(toks, 1, a))
           next == SubSeq(toks, a + 1, b)
           Cell(j) == [pos |-> j - 1, tok |-> toks[j]]
<1>1. first = {Cell(j) : j \in 1..a}
  BY LinearOfFirst
<1>2. Linear(SubSeq(toks, 1, b)) = {Cell(j) : j \in 1..b}
  <2>1. b \in 0..Len(toks)
    OBVIOUS
  <2> QED BY <2>1, LinearOfFirst
<1>3. Len(next) = b - a /\ \A k \in 1..b - a : next[k] = toks[a + k]
  BY SMTT(20)
<1>4. NextPos(first) = a
  <2>1. SubSeq(toks, 1, a) \in Seq(T) /\ Len(SubSeq(toks, 1, a)) = a
    BY LinearOfFirst
  <2>2. Positions(first) = 0..a - 1
    BY <2>1, LinearIsDense DEF Dense
  <2>3. CASE a = 0
    <3>1. first = {}
      BY <1>1, <2>3
    <3> QED BY <2>3, <3>1 DEF NextPos
  <2>4. CASE a # 0
    <3>0. 0 \in Positions(first)
      BY <2>2, <2>4
    <3>1. first # {}
      <4> HIDE DEF first
      <4> QED BY <3>0 DEF Positions
    <3>2. Max(0..a - 1) = a - 1
      BY <2>4, MaxOfRange
    <3> HIDE DEF first
    <3> QED BY <2>2, <2>4, <3>1, <3>2 DEF NextPos
  <2> QED BY <2>3, <2>4
<1>5. Extended(first, next) = first \cup {[pos |-> a + k - 1, tok |-> next[k]] : k \in 1..b - a}
  <2> HIDE DEF first, next
  <2> QED BY <1>3, <1>4 DEF Extended
<1>6. \A k \in 1..b - a : [pos |-> a + k - 1, tok |-> next[k]] = Cell(a + k)
  <2>1. ASSUME NEW i \in 1..b - a PROVE a + i - 1 = (a + i) - 1 /\ next[i] = toks[a + i]
    BY <1>3, SMTT(20)
  <2> HIDE DEF next
  <2> QED BY <2>1
<1> HIDE DEF first, next, Cell
<1>7. {[pos |-> a + k - 1, tok |-> next[k]] : k \in 1..b - a} = {Cell(j) : j \in a + 1..b}
  <2>1. {[pos |-> a + k - 1, tok |-> next[k]] : k \in 1..b - a} = {Cell(a + k) : k \in 1..b - a}
    BY <1>6
  <2>2. \A k \in 1..b - a : a + k \in a + 1..b
    OBVIOUS
  <2>3. \A j \in a + 1..b : j - a \in 1..b - a /\ j = a + (j - a)
    OBVIOUS
  <2>4. {Cell(a + k) : k \in 1..b - a} = {Cell(j) : j \in a + 1..b}
    BY <2>2, <2>3
  <2> QED BY <2>1, <2>4
<1>8. 1..b = (1..a) \cup (a + 1..b)
  OBVIOUS
<1>9. {Cell(j) : j \in 1..b} = {Cell(j) : j \in 1..a} \cup {Cell(j) : j \in a + 1..b}
  BY <1>8
<1> QED BY <1>1, <1>2, <1>5, <1>7, <1>9 DEF first, next
=============================================================================
