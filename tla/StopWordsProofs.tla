-------------------------- MODULE StopWordsProofs --------------------------
(***************************************************************************)
(* What the windowed search of StopWords guarantees, for all texts, pieces *)
(* and stop words: searching each new piece, and as far back as a stop     *)
(* word can reach, is as good as searching the whole text every time.      *)
(***************************************************************************)
EXTENDS StopWords, WellFoundedInduction, TLAPS

LessThan == {d \in Nat \X Nat : d[1] < d[2]}

\* A set of offsets that is not empty has a smallest one.
LEMMA LeastOffset ==
    ASSUME NEW S, S \subseteq Nat, S # {}
    PROVE  \E p \in S : \A q \in S : p <= q
<1>1. IsWellFoundedOn(LessThan, Nat)
  BY NatLessThanWellFounded DEF OpToRel, LessThan
<1>2. PICK p \in S : \A q \in S : <<q, p>> \notin LessThan
  BY <1>1, WFMin, Zenon
<1>3. ASSUME NEW q \in S PROVE p <= q
  <2>1. q \in Nat /\ p \in Nat
    OBVIOUS
  <2>2. q < p => <<q, p>> \in LessThan
    BY <2>1 DEF LessThan
  <2> QED BY <1>2, <2>1, <2>2
<1> QED BY <1>3

\* The smallest of a set of offsets, or NPos exactly when there is none.
LEMMA EarliestIsLeast ==
    ASSUME NEW S, S \subseteq Nat
    PROVE  /\ S = {} => Earliest(S) = NPos
           /\ S # {} => Earliest(S) \in S /\ \A q \in S : Earliest(S) <= q
<1>1. S # {} => \E p \in S : \A q \in S : p <= q
  BY LeastOffset
<1> QED BY <1>1 DEF Earliest

\* What the search finds are offsets into the text.
LEMMA HitsAreOffsets ==
    ASSUME NEW text, NEW n, NEW stops
    PROVE  Hits(text, n, stops) \subseteq Nat
<1> QED BY DEF Hits

\* A stop word inside the first n characters is inside the whole text, at the
\* same place.
LEMMA OccursInLonger ==
    ASSUME NEW Char, NEW text \in Seq(Char), NEW stop \in Seq(Char),
           NEW n \in 0..Len(text), NEW p \in Nat,
           OccursAt(stop, SubSeq(text, 1, n), p)
    PROVE  OccursAt(stop, text, p) /\ p + Len(stop) <= n
<1>1. Len(SubSeq(text, 1, n)) = n
  OBVIOUS
<1>2. p + Len(stop) <= n
  BY <1>1 DEF OccursAt
<1>3. ASSUME NEW k \in 1..Len(stop)
      PROVE  text[p + k] = stop[k]
  <2>1. p + k \in 1..n
    BY <1>2
  <2>2. SubSeq(text, 1, n)[p + k] = text[p + k]
    BY <2>1
  <2> QED BY <2>2 DEF OccursAt
<1> QED BY <1>2, <1>3 DEF OccursAt

\* Cutting a text short does not bring a stop word into it.
LEMMA PrefixStopFree ==
    ASSUME NEW Char, NEW text \in Seq(Char), NEW stops \in Seq(Seq(Char)),
           NEW n \in 0..Len(text), StopFree(text, stops)
    PROVE  StopFree(SubSeq(text, 1, n), stops)
<1> SUFFICES ASSUME NEW s \in 1..Len(stops), stops[s] # <<>>,
                    NEW p \in 0..Len(SubSeq(text, 1, n)),
                    OccursAt(stops[s], SubSeq(text, 1, n), p)
             PROVE  FALSE
  BY DEF StopFree
<1>1. OccursAt(stops[s], text, p)
  BY OccursInLonger
<1> QED BY <1>1 DEF StopFree

\* Where a stop word can still hide in text \o piece when text has none: not
\* before the window that the search looks at.
LEMMA OccursInWindow ==
    ASSUME NEW Char, NEW text \in Seq(Char), NEW n \in 0..Len(text),
           NEW stop \in Seq(Char), stop # <<>>, NEW p \in Nat,
           OccursAt(stop, text, p), ~OccursAt(stop, SubSeq(text, 1, n), p)
    PROVE  p >= SearchFrom(stop, n)
<1>1. SUFFICES ASSUME p < SearchFrom(stop, n) PROVE FALSE
  BY DEF SearchFrom
<1>2. p + Len(stop) <= n
  BY <1>1 DEF SearchFrom
<1>3. ASSUME NEW k \in 1..Len(stop)
      PROVE  SubSeq(text, 1, n)[p + k] = stop[k]
  <2>1. p + k \in 1..n
    BY <1>2
  <2> QED BY <2>1 DEF OccursAt
<1>4. Len(SubSeq(text, 1, n)) = n
  OBVIOUS
<1> QED BY <1>2, <1>3, <1>4 DEF OccursAt

\* When the search around the appended piece finds nothing, the text has no
\* stop word anywhere.
THEOREM NothingFoundIsStopFree ==
    ASSUME NEW Char, NEW text \in Seq(Char), NEW stops \in Seq(Seq(Char)),
           NEW n \in 0..Len(text), StopFree(SubSeq(text, 1, n), stops),
           find_stop_position(text, n, stops) = NPos
    PROVE  StopFree(text, stops)
<1>1. Hits(text, n, stops) = {}
  BY EarliestIsLeast, HitsAreOffsets DEF find_stop_position, NPos
<1> SUFFICES ASSUME NEW s \in 1..Len(stops), stops[s] # <<>>,
                    NEW p \in 0..Len(text), OccursAt(stops[s], text, p)
             PROVE  FALSE
  BY DEF StopFree
<1>2. stops[s] \in Seq(Char) /\ Len(stops[s]) > 0
  OBVIOUS
<1>3. ~OccursAt(stops[s], SubSeq(text, 1, n), p)
  <2>1. SUFFICES ASSUME OccursAt(stops[s], SubSeq(text, 1, n), p) PROVE FALSE
    OBVIOUS
  <2>2. p + Len(stops[s]) <= n
    BY <1>2, <2>1, OccursInLonger
  <2>3. p \in 0..Len(SubSeq(text, 1, n))
    BY <2>2, <1>2
  <2> QED BY <2>1, <2>3 DEF StopFree
<1>4. p >= SearchFrom(stops[s], n)
  BY <1>2, <1>3, OccursInWindow
<1> QED BY <1>1, <1>4 DEF Hits

\* When it finds a stop word, the text cut at that place has none.
THEOREM CutIsStopFree ==
    ASSUME NEW Char, NEW text \in Seq(Char), NEW stops \in Seq(Seq(Char)),
           NEW n \in 0..Len(text), StopFree(SubSeq(text, 1, n), stops),
           find_stop_position(text, n, stops) # NPos
    PROVE  /\ find_stop_position(text, n, stops) \in 0..Len(text)
           /\ StopFree(SubSeq(text, 1, find_stop_position(text, n, stops)), stops)
<1> DEFINE cut == find_stop_position(text, n, stops)
<1>1. /\ cut \in Hits(text, n, stops)
      /\ \A q \in Hits(text, n, stops) : cut <= q
  BY EarliestIsLeast, HitsAreOffsets DEF find_stop_position
<1>2. cut \in 0..Len(text)
  BY <1>1 DEF Hits
<1> HIDE DEF cut
<1>3. StopFree(SubSeq(text, 1, cut), stops)
  <2> SUFFICES ASSUME NEW s \in 1..Len(stops), stops[s] # <<>>,
                      NEW p \in 0..Len(SubSeq(text, 1, cut)),
                      OccursAt(stops[s], SubSeq(text, 1, cut), p)
               PROVE  FALSE
    BY DEF StopFree
  <2>1. stops[s] \in Seq(Char) /\ Len(stops[s]) > 0
    OBVIOUS
  <2>2. OccursAt(stops[s], text, p) /\ p + Len(stops[s]) <= cut
    BY <1>2, <2>1, OccursInLonger
  <2>3. p \in 0..Len(text) /\ p < cut
    BY <1>2, <2>1, <2>2, SMTT(20)
  <2>4. CASE OccursAt(stops[s], SubSeq(text, 1, n), p)
    <3>1. p + Len(stops[s]) <= n
      BY <2>1, <2>4, OccursInLonger
    <3>2. p \in 0..Len(SubSeq(text, 1, n))
      BY <3>1, <2>1
    <3> QED BY <2>4, <3>2 DEF StopFree
  <2>5. CASE ~OccursAt(stops[s], SubSeq(text, 1, n), p)
    <3>1. p >= SearchFrom(stops[s], n)
      BY <2>1, <2>2, <2>5, OccursInWindow
    <3>2. p \in Hits(text, n, stops)
      BY <2>2, <2>3, <3>1 DEF Hits
    <3> QED BY <1>1, <1>2, <2>3, <3>2
  <2> QED BY <2>4, <2>5
<1> QED BY <1>2, <1>3 DEF cut

\* A text without stop words has no first one.
LEMMA StopFreeHasNoFirst ==
    ASSUME NEW text, NEW stops, StopFree(text, stops)
    PROVE  FirstStop(text, stops) = NPos
<1>1. Hits(text, 0, stops) = {}
  BY DEF Hits, StopFree
<1> QED BY <1>1 DEF FirstStop, Earliest

\* The windowed search answers what a search of the whole text would.
THEOREM WindowIsEnough ==
    ASSUME NEW Char, NEW text \in Seq(Char), NEW stops \in Seq(Seq(Char)),
           NEW n \in 0..Len(text), StopFree(SubSeq(text, 1, n), stops)
    PROVE  find_stop_position(text, n, stops) = FirstStop(text, stops)
<1>1. ASSUME NEW p \in 0..Len(text), NEW s \in 1..Len(stops), stops[s] # <<>>,
             OccursAt(stops[s], text, p)
      PROVE  p >= SearchFrom(stops[s], n) /\ p >= SearchFrom(stops[s], 0)
  <2>1. stops[s] \in Seq(Char) /\ Len(stops[s]) \in Nat \ {0}
    BY <1>1
  <2>2. p >= SearchFrom(stops[s], 0)
    BY <2>1 DEF SearchFrom
  <2>3. ~OccursAt(stops[s], SubSeq(text, 1, n), p)
    <3>1. SUFFICES ASSUME OccursAt(stops[s], SubSeq(text, 1, n), p) PROVE FALSE
      OBVIOUS
    <3>2. p + Len(stops[s]) <= n
      BY <2>1, <3>1, OccursInLonger
    <3>3. p \in 0..Len(SubSeq(text, 1, n))
      BY <2>1, <3>2
    <3> QED BY <1>1, <3>1, <3>3 DEF StopFree
  <2> QED BY <1>1, <2>1, <2>2, <2>3, OccursInWindow
<1>2. Hits(text, n, stops) = Hits(text, 0, stops)
  BY <1>1 DEF Hits
<1> QED BY <1>2 DEF find_stop_position, FirstStop

---------------------------------------------------------------------------
\* The texts that are left after 0, 1, ... n stop words were cut.
Trims(f, res, stops, n) ==
    f = [k \in 0..n |-> IF k = 0 THEN res ELSE TrimSuffix(f[k - 1], stops[k])]

\* The recursion of cleanPredictionResult is well founded: there is such a list
\* for every number of stop words, or there would be a first number without one.
LEMMA TrimsExist ==
    ASSUME NEW res, NEW stops, NEW n \in Nat
    PROVE  \E f : Trims(f, res, stops, n)
<1> DEFINE S == {m \in Nat : ~\E f : Trims(f, res, stops, m)}
<1>1. SUFFICES ASSUME S # {} PROVE FALSE
  OBVIOUS
<1>2. PICK m \in S : \A q \in S : m <= q
  BY <1>1, LeastOffset
<1>3. CASE m = 0
  <2> DEFINE f == [k \in 0..0 |-> res]
  <2>1. f = [k \in 0..0 |-> IF k = 0 THEN res ELSE TrimSuffix(f[k - 1], stops[k])]
    OBVIOUS
  <2>2. Trims(f, res, stops, 0)
    BY <2>1 DEF Trims
  <2> QED BY <1>2, <1>3, <2>2
<1>4. CASE m # 0
  <2>1. m - 1 \in Nat /\ m - 1 \notin S
    BY <1>2, <1>4
  <2>2. PICK f : Trims(f, res, stops, m - 1)
    BY <2>1
  <2> DEFINE g == [k \in 0..m |-> IF k = m THEN TrimSuffix(f[m - 1], stops[m]) ELSE f[k]]
  <2>3. ASSUME NEW k \in 0..m
        PROVE  g[k] = IF k = 0 THEN res ELSE TrimSuffix(g[k - 1], stops[k])
    <3>0. f = [j \in 0..m - 1 |-> IF j = 0 THEN res ELSE TrimSuffix(f[j - 1], stops[j])]
      BY <2>2 DEF Trims
    <3>00. m \in Nat \ {0} /\ k \in 0..m
      BY <1>4
    <3> HIDE DEF S
    <3>1. CASE k = m
      <4>1. g[k - 1] = f[m - 1] /\ k # 0
        BY <3>00, <3>1
      <4> QED BY <3>1, <4>1
    <3>2. CASE k # m
      <4>1. k \in 0..m - 1
        BY <3>00, <3>2
      <4>2. g[k] = f[k] /\ (k # 0 => g[k - 1] = f[k - 1])
        BY <3>00, <3>2, <4>1
      <4>3. f[k] = IF k = 0 THEN res ELSE TrimSuffix(f[k - 1], stops[k])
        BY <3>0, <4>1
      <4> QED BY <4>2, <4>3
    <3> QED BY <3>1, <3>2
  <2> HIDE DEF S
  <2>4. g = [k \in 0..m |-> IF k = 0 THEN res ELSE TrimSuffix(g[k - 1], stops[k])]
    BY <2>3
  <2>5. Trims(g, res, stops, m)
    BY <2>4 DEF Trims
  <2> QED BY <1>2, <2>5 DEF S
<1> QED BY <1>3, <1>4

\* What cleanPredictionResult returns is the end of such a list.
LEMMA CleanIsLastTrim ==
    ASSUME NEW res, NEW stops, Len(stops) \in Nat
    PROVE  \E f : Trims(f, res, stops, Len(stops)) /\ cleanPredictionResult(res, stops) = f[Len(stops)]
<1> DEFINE n == Len(stops)
           t == CHOOSE f : f = [k \in 0..n |-> IF k = 0 THEN res ELSE TrimSuffix(f[k - 1], stops[k])]
<1>1. Trims(t, res, stops, n)
  <2>1. \E f : f = [k \in 0..n |-> IF k = 0 THEN res ELSE TrimSuffix(f[k - 1], stops[k])]
    <3>1. \E f : Trims(f, res, stops, n)
      BY TrimsExist
    <3> HIDE DEF n
    <3> QED BY <3>1 DEF Trims
  <2> HIDE DEF n
  <2> QED BY Zenon, <2>1 DEF Trims
<1>2. cleanPredictionResult(res, stops) = t[n]
  BY DEF cleanPredictionResult
<1> QED BY <1>1, <1>2

\* Cutting stop words off the end, several of them one after the other, leaves the
\* text in front of one of them, or all of it (cleanPredictionResult, llama.go).
THEOREM CleanCutsAtStop ==
    ASSUME NEW Char, NEW res \in Seq(Char), NEW stops \in Seq(Seq(Char))
    PROVE  cleanPredictionResult(res, stops) \in BeforeSomeStop(res, stops)
<1>0. Len(stops) \in Nat
  OBVIOUS
<1>1. PICK f : Trims(f, res, stops, Len(stops)) /\ cleanPredictionResult(res, stops) = f[Len(stops)]
  BY <1>0, CleanIsLastTrim
<1> DEFINE n == Len(stops)
           places == Hits(res, 0, stops) \cup {Len(res)}
           Cut(k) == \E m \in places : f[k] = SubSeq(res, 1, m)
           S == {k \in 0..n : ~Cut(k)}
<1>2. f = [k \in 0..n |-> IF k = 0 THEN res ELSE TrimSuffix(f[k - 1], stops[k])]
  BY <1>1 DEF Trims
<1>3. ASSUME S # {} PROVE FALSE
  <2>0. S \subseteq Nat
    BY <1>0
  <2>1. PICK k \in S : \A q \in S : k <= q
    <3> HIDE DEF S
    <3> QED BY <1>3, <2>0, LeastOffset
  <2>2. k # 0
    <3>1. f[0] = res
      BY <1>2
    <3>2. res = SubSeq(res, 1, Len(res)) /\ Len(res) \in places
      OBVIOUS
    <3> QED BY <2>1, <3>1, <3>2
  <2>3. k - 1 \in 0..n /\ k - 1 \notin S /\ k \in 1..n
    <3>1. k \in 0..n /\ n \in Nat
      BY <1>0, <2>1
    <3>2. k - 1 \in 0..n /\ k \in 1..n
      BY <2>2, <3>1
    <3>3. ~(k <= k - 1)
      BY <3>1
    <3> HIDE DEF S
    <3> QED BY <2>1, <3>2, <3>3
  <2>4. PICK m \in places : f[k - 1] = SubSeq(res, 1, m)
    BY <2>3
  <2>40. m \in 0..Len(res)
    BY <2>4 DEF Hits
  <2>5. f[k] = TrimSuffix(f[k - 1], stops[k])
    <3>1. k \in 0..n /\ k # 0
      BY <2>2, <2>3
    <3> HIDE DEF n, S
    <3> QED BY <1>2, <3>1
  <2>6. stops[k] \in Seq(Char)
    BY <2>3
  <2>7. Cut(k)
    <3> HIDE DEF S
    <3>1. CASE f[k] = f[k - 1]
      BY <2>4, <3>1
    <3>2. CASE f[k] # f[k - 1]
      <4> DEFINE j == m - Len(stops[k])
      <4>1. Len(f[k - 1]) = m
        BY <2>4, <2>40
      <4>2. /\ m >= Len(stops[k]) /\ f[k] = SubSeq(f[k - 1], 1, j)
            /\ stops[k] # <<>> /\ OccursAt(stops[k], f[k - 1], j)
        BY <2>5, <3>2, <4>1 DEF TrimSuffix
      <4>3. j \in 0..m /\ j \in 0..Len(res) /\ j \in Nat
        BY <2>6, <2>40, <4>2
      <4> HIDE DEF j, places
      <4>4. SubSeq(SubSeq(res, 1, m), 1, j) = SubSeq(res, 1, j)
        BY <2>40, <4>3
      <4>5. f[k] = SubSeq(res, 1, j)
        BY <2>4, <4>2, <4>4
      <4>6. OccursAt(stops[k], res, j)
        BY <2>4, <2>40, <2>6, <4>2, <4>3, OccursInLonger
      <4>7. j >= SearchFrom(stops[k], 0)
        BY <2>6, <4>2, <4>3 DEF SearchFrom
      <4>8. j \in places
        BY <2>3, <4>2, <4>3, <4>6, <4>7 DEF Hits, places
      <4> QED BY <4>5, <4>8
    <3> QED BY <3>1, <3>2
  <2> QED BY <2>1, <2>7
<1>4. n \in 0..n
  OBVIOUS
<1> QED BY <1>1, <1>3, <1>4 DEF BeforeSomeStop

\* A text without stop words is returned as it is: what the search let pass is
\* not cut again (cleanPredictionResult, llama.go).
THEOREM CleanKeepsStopFree ==
    ASSUME NEW Char, NEW res \in Seq(Char), NEW stops \in Seq(Seq(Char)), StopFree(res, stops)
    PROVE  cleanPredictionResult(res, stops) = res
<1>0. Len(stops) \in Nat
  OBVIOUS
<1>1. PICK f : Trims(f, res, stops, Len(stops)) /\ cleanPredictionResult(res, stops) = f[Len(stops)]
  BY <1>0, CleanIsLastTrim
<1> DEFINE n == Len(stops)
           S == {k \in 0..n : f[k] # res}
<1>2. f = [k \in 0..n |-> IF k = 0 THEN res ELSE TrimSuffix(f[k - 1], stops[k])]
  BY <1>1 DEF Trims
<1>3. ASSUME NEW k \in 1..n
      PROVE  TrimSuffix(res, stops[k]) = res
  <2>1. stops[k] \in Seq(Char) /\ Len(res) \in Nat
    OBVIOUS
  <2>2. CASE stops[k] = <<>> \/ Len(res) < Len(stops[k])
    BY <2>1, <2>2 DEF TrimSuffix
  <2>3. CASE stops[k] # <<>> /\ Len(res) >= Len(stops[k])
    <3>1. Len(res) - Len(stops[k]) \in 0..Len(res)
      BY <2>1, <2>3
    <3>2. ~OccursAt(stops[k], res, Len(res) - Len(stops[k]))
      BY <2>3, <3>1 DEF StopFree
    <3> QED BY <3>2 DEF TrimSuffix
  <2> QED BY <2>1, <2>2, <2>3
<1>4. ASSUME S # {} PROVE FALSE
  <2>1. S \subseteq Nat
    BY <1>0
  <2>2. PICK k \in S : \A q \in S : k <= q
    <3> HIDE DEF S
    <3> QED BY <1>4, <2>1, LeastOffset
  <2>3. k \in 0..n /\ n \in Nat /\ f[k] # res
    BY <1>0, <2>2
  <2>4. k # 0
    BY <1>2, <2>3
  <2>5. k - 1 \in 0..n /\ k \in 1..n /\ ~(k <= k - 1)
    BY <2>3, <2>4
  <2>6. f[k - 1] = res
    BY <2>2, <2>5
  <2>7. f[k] = TrimSuffix(f[k - 1], stops[k])
    <3> HIDE DEF n, S
    <3> QED BY <1>2, <2>3, <2>4
  <2> QED BY <1>3, <2>3, <2>5, <2>6, <2>7
<1> QED BY <1>0, <1>1, <1>4
=============================================================================
