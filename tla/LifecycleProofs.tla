-------------------------- MODULE LifecycleProofs --------------------------
(***************************************************************************)
(* For every list of options and any width of numbers: no call leaks or    *)
(* releases twice, nothing outlives what it points into, and the biases    *)
(* that the options give reach the tokens they name.                       *)
(***************************************************************************)
EXTENDS Lifecycle, WellFoundedInduction, TLAPS

---------------------------------------------------------------------------
\* Lists of options and of biases.

LessThan == {d \in Nat \X Nat : d[1] < d[2]}

\* What holds of 0, and of each number up to n if of the one before, holds up to n.
LEMMA StepByStep ==
    ASSUME NEW n \in Nat, NEW Good, 0 \in Good, \A k \in 1..n : k - 1 \in Good => k \in Good
    PROVE  \A k \in 0..n : k \in Good
<1> DEFINE S == (0..n) \ Good
<1>1. ASSUME S # {} PROVE FALSE
  <2>1. IsWellFoundedOn(LessThan, Nat)
    BY NatLessThanWellFounded DEF OpToRel, LessThan
  <2>2. PICK k \in S : \A q \in S : <<q, k>> \notin LessThan
    <3>1. S \subseteq Nat
      OBVIOUS
    <3> HIDE DEF S
    <3> QED BY <1>1, <2>1, <3>1, WFMin, Zenon
  <2>3. k \in 1..n /\ k - 1 \in 0..n /\ <<k - 1, k>> \in LessThan
    BY <2>2 DEF LessThan
  <2>4. k - 1 \in Good
    BY <2>2, <2>3
  <2> QED BY <2>2, <2>3, <2>4
<1> QED BY <1>1

\* A value that changes step by step has a history.
StepsOn(D, n) == [1..n -> [D -> D]]
Histories(D, base, n, step) ==
    {f \in [0..n -> D] : f[0] = base /\ \A k \in 1..n : f[k] = step[k][f[k - 1]]}
LEMMA Iteration ==
    ASSUME NEW D, NEW base \in D, NEW n \in Nat, NEW step \in StepsOn(D, n)
    PROVE  \E f : f \in Histories(D, base, n, step)
<1> USE DEF StepsOn, Histories
<1> DEFINE History(m, f) == f \in [0..m -> D] /\ f[0] = base /\ \A k \in 1..m : f[k] = step[k][f[k - 1]]
           Good == {m \in 0..n : \E f : History(m, f)}
<1>1. 0 \in Good
  <2>1. PICK f : f = [k \in 0..0 |-> base]
    OBVIOUS
  <2>2. History(0, f)
    BY <2>1
  <2>3. \E h : History(0, h)
    <3> HIDE DEF History
    <3> QED BY <2>2
  <2> QED BY <2>3
<1>2. ASSUME NEW m \in 1..n, m - 1 \in Good PROVE m \in Good
  <2>1. PICK f : History(m - 1, f)
    BY <1>2
  <2> DEFINE g == [k \in 0..m |-> IF k = m THEN step[m][f[m - 1]] ELSE f[k]]
  <2>2. f[m - 1] \in D /\ step[m][f[m - 1]] \in D
    BY <2>1
  <2>3. g \in [0..m -> D]
    BY <2>1, <2>2
  <2>4. g[0] = base
    BY <2>1
  <2>5. ASSUME NEW k \in 1..m PROVE g[k] = step[k][g[k - 1]]
    <3>1. CASE k = m
      BY <3>1
    <3>2. CASE k # m
      <4>1. k \in 1..m - 1 /\ k - 1 \in 0..m /\ k - 1 # m /\ k \in 0..m
        BY <3>2
      <4> QED BY <2>1, <4>1
    <3> QED BY <3>1, <3>2
  <2> HIDE DEF g
  <2>6. History(m, g)
    BY <2>3, <2>4, <2>5
  <2> QED BY <2>6
<1>3. \A m \in 0..n : m \in Good
  <2> HIDE DEF Good
  <2> QED BY <1>1, <1>2, StepByStep
<1> QED BY <1>3

\* The records that options are applied to.
OptionRecords == [Tokens : Int, Grammar : STRING \cup {""}, StopPrompts : Seq(STRING), LogitBias : Seq(BiasEntries),
                  LogitBiases : Seq(BiasEntries), MediaPaths : Seq(STRING)]

\* An option changes its own field.
Changes(p, option, q) ==
    /\ q \in OptionRecords
    /\ option.field = "LogitBias" => q.LogitBias = option.value /\ option.value \in Seq(BiasEntries)
    /\ option.field # "LogitBias" => q.LogitBias = p.LogitBias
    /\ option.field = "LogitBiases" => /\ q.LogitBiases = p.LogitBiases \o option.value
                                       /\ option.value \in Seq(BiasEntries)
    /\ option.field # "LogitBiases" => q.LogitBiases = p.LogitBiases

LEMMA OneField ==
    ASSUME NEW p \in OptionRecords, NEW option, IsPredictOption(option)
    PROVE  Changes(p, option, Applied(p, option))
<1> USE DEF Changes
<1>1. PICK f \in DOMAIN ValuesOf : option \in [field : {f}, value : ValuesOf[f]]
  BY DEF IsPredictOption
<1>2. f \in {"Tokens", "Grammar", "StopPrompts", "LogitBias", "LogitBiases", "MediaPaths"}
  BY DEF ValuesOf
<1>3. CASE f = "Tokens"
  BY <1>1, <1>3 DEF ValuesOf, OptionRecords, Applied, Set
<1>4. CASE f = "Grammar"
  BY <1>1, <1>4 DEF ValuesOf, OptionRecords, Applied, Set
<1>5. CASE f = "StopPrompts"
  BY <1>1, <1>5 DEF ValuesOf, OptionRecords, Applied, Set
<1>6. CASE f = "LogitBias"
  BY <1>1, <1>6 DEF ValuesOf, OptionRecords, Applied, Set
<1>7. CASE f = "LogitBiases"
  <2>1. option.field = "LogitBiases" /\ option.value \in Seq(BiasEntries) /\ p.LogitBiases \in Seq(BiasEntries)
    BY <1>1, <1>7 DEF ValuesOf, OptionRecords
  <2>2. p.LogitBiases \o option.value \in Seq(BiasEntries)
    BY <2>1
  <2>3. Applied(p, option) = [p EXCEPT !.LogitBiases = p.LogitBiases \o option.value]
    BY <2>1 DEF Applied, Add
  <2> QED BY <2>1, <2>2, <2>3 DEF OptionRecords
<1>8. CASE f = "MediaPaths"
  <2>1. option.field = "MediaPaths" /\ option.value \in Seq(STRING) /\ p.MediaPaths \in Seq(STRING)
    BY <1>1, <1>8 DEF ValuesOf, OptionRecords
  <2>2. p.MediaPaths \o option.value \in Seq(STRING)
    BY <2>1
  <2>3. Applied(p, option) = [p EXCEPT !.MediaPaths = p.MediaPaths \o option.value]
    BY <2>1 DEF Applied, Add
  <2> QED BY <2>1, <2>2, <2>3 DEF OptionRecords
<1> QED BY <1>2, <1>3, <1>4, <1>5, <1>6, <1>7, <1>8

LEMMA DefaultTyped == DefaultOptions \in OptionRecords
<1>1. <<>> \in Seq(STRING) /\ <<>> \in Seq(BiasEntries) /\ 128 \in Int
  OBVIOUS
<1> QED BY <1>1 DEF DefaultOptions, OptionRecords

\* What a call gets from its list of options, after each of them.
LEMMA OptionsApplied ==
    ASSUME NEW opts, AreOptions(opts)
    PROVE  \E po \in [0..Len(opts) -> OptionRecords] :
             /\ NewPredictOptions(opts) = po[Len(opts)]
             /\ po[0] = DefaultOptions
             /\ \A k \in 1..Len(opts) : po[k] = Applied(po[k - 1], opts[k])
<1> DEFINE n == Len(opts)
           step == [k \in 1..n |-> [p \in OptionRecords |-> Applied(p, opts[k])]]
           po == CHOOSE f : f = [i \in 0..n |-> IF i = 0 THEN DefaultOptions ELSE Applied(f[i - 1], opts[i])]
<1>1. n \in Nat /\ \A k \in 1..n : IsPredictOption(opts[k])
  BY DEF AreOptions
<1>2. DefaultOptions \in OptionRecords
  BY DefaultTyped
<1>3. step \in [1..n -> [OptionRecords -> OptionRecords]]
  BY <1>1, OneField DEF Changes
<1>4. PICK f \in [0..n -> OptionRecords] :
        f[0] = DefaultOptions /\ \A k \in 1..n : f[k] = step[k][f[k - 1]]
  <2>2. step \in StepsOn(OptionRecords, n)
    BY <1>3 DEF StepsOn
  <2>1. n \in Nat
    BY <1>1
  <2> HIDE DEF n, step
  <2>3. \E f : f \in Histories(OptionRecords, DefaultOptions, n, step)
    BY <1>2, <2>1, <2>2, Iteration
  <2> QED BY <2>3 DEF Histories
<1>5. \A k \in 1..n : f[k] = Applied(f[k - 1], opts[k])
  <2>1. \A k \in 1..n : k - 1 \in 0..n
    BY <1>1
  <2> QED BY <1>4, <2>1
<1>6. f = [i \in 0..n |-> IF i = 0 THEN DefaultOptions ELSE Applied(f[i - 1], opts[i])]
  <2>1. \A i \in 0..n : f[i] = IF i = 0 THEN DefaultOptions ELSE Applied(f[i - 1], opts[i])
    BY <1>1, <1>4, <1>5
  <2> HIDE DEF n, step
  <2> QED BY <1>4, <2>1
<1>7. po = [i \in 0..n |-> IF i = 0 THEN DefaultOptions ELSE Applied(po[i - 1], opts[i])]
  <2> HIDE DEF n
  <2> QED BY <1>6
<1>8. NewPredictOptions(opts) = po[n]
  BY DEF NewPredictOptions
<1>9. \A k \in 0..n : po[k] = f[k]
  <2> DEFINE Good == {k \in 0..n : po[k] = f[k]}
  <2>1. po[0] = DefaultOptions /\ \A k \in 1..n : po[k] = Applied(po[k - 1], opts[k])
    <3> HIDE DEF po, n
    <3> QED BY <1>1, <1>7
  <2>2. 0 \in Good
    BY <1>1, <1>4, <2>1
  <2>3. ASSUME NEW k \in 1..n, k - 1 \in Good PROVE k \in Good
    BY <1>1, <1>5, <2>1, <2>3
  <2>4. \A k \in 0..n : k \in Good
    <3> HIDE DEF Good, n
    <3> QED BY <1>1, <2>2, <2>3, StepByStep
  <2> QED BY <2>4
<1>10. NewPredictOptions(opts) = f[n]
  BY <1>1, <1>8, <1>9
<1> QED BY <1>4, <1>5, <1>10

\* What a sequence has, and two behind each other.
LEMMA ElementsOfConcat ==
    ASSUME NEW T, NEW s \in Seq(T), NEW t \in Seq(T), NEW x
    PROVE  x \in ToSet(s \o t) <=> x \in ToSet(s) \/ x \in ToSet(t)
<1>1. s \o t \in Seq(T) /\ Len(s \o t) = Len(s) + Len(t) /\ Len(s) \in Nat /\ Len(t) \in Nat
  OBVIOUS
<1>2. ASSUME x \in ToSet(s) PROVE x \in ToSet(s \o t)
  <2>1. PICK i \in 1..Len(s) : s[i] = x
    BY <1>2 DEF ToSet
  <2>2. i \in 1..Len(s \o t) /\ (s \o t)[i] = x
    BY <1>1, <2>1
  <2> QED BY <1>1, <2>2 DEF ToSet
<1>3. ASSUME x \in ToSet(t) PROVE x \in ToSet(s \o t)
  <2>1. PICK i \in 1..Len(t) : t[i] = x
    BY <1>3 DEF ToSet
  <2>2. Len(s) + i \in 1..Len(s \o t) /\ (s \o t)[Len(s) + i] = x
    BY <1>1, <2>1
  <2> QED BY <1>1, <2>2 DEF ToSet
<1>4. ASSUME x \in ToSet(s \o t) PROVE x \in ToSet(s) \/ x \in ToSet(t)
  <2>1. PICK i \in 1..Len(s \o t) : (s \o t)[i] = x
    BY <1>1, <1>4 DEF ToSet
  <2>2. CASE i <= Len(s)
    BY <1>1, <2>1, <2>2 DEF ToSet
  <2>3. CASE i > Len(s)
    <3>1. i - Len(s) \in 1..Len(t) /\ t[i - Len(s)] = x
      BY <1>1, <2>1, <2>3
    <3> QED BY <3>1 DEF ToSet
  <2> QED BY <1>1, <2>1, <2>2, <2>3
<1> QED BY <1>2, <1>3, <1>4

LEMMA ElementsOfAppend ==
    ASSUME NEW T, NEW s \in Seq(T), NEW y \in T, NEW x
    PROVE  x \in ToSet(Append(s, y)) <=> x \in ToSet(s) \/ x = y
<1>1. Append(s, y) = s \o <<y>> /\ <<y>> \in Seq(T)
  OBVIOUS
<1>2. x \in ToSet(<<y>>) <=> x = y
  BY DEF ToSet
<1> QED BY <1>1, <1>2, ElementsOfConcat

\* The last of the first k options that set the text of the biases, and those of
\* the first k that add to their list.
LastText(opts, k, i) ==
    i \in 1..k /\ opts[i].field = "LogitBias" /\ \A j \in 1..k : opts[j].field = "LogitBias" => j <= i
Adds(opts, k, i) == i \in 1..k /\ opts[i].field = "LogitBiases"
GivenBy(opts, k, g) == \E i \in 1..k : (LastText(opts, k, i) \/ Adds(opts, k, i)) /\ g \in ToSet(opts[i].value)

LEMMA GivenIsGivenBy ==
    ASSUME NEW opts, AreOptions(opts), NEW g
    PROVE  g \in Given(opts) <=> GivenBy(opts, Len(opts), g)
<1>1. DOMAIN opts = 1..Len(opts)
  BY DEF AreOptions
<1> QED BY <1>1 DEF Given, GivenBy, LastText, Adds

\* formatLogitBias has the biases of the last text and all that were added.
LEMMA FormattedAreGiven ==
    ASSUME NEW opts, AreOptions(opts)
    PROVE  /\ formatLogitBias(NewPredictOptions(opts)) \in Seq(BiasEntries)
           /\ \A g : g \in ToSet(formatLogitBias(NewPredictOptions(opts))) <=> g \in Given(opts)
<1> DEFINE n == Len(opts)
<1>1. n \in Nat /\ \A k \in 1..n : IsPredictOption(opts[k])
  BY DEF AreOptions
<1>2. PICK po \in [0..n -> OptionRecords] :
        /\ NewPredictOptions(opts) = po[n]
        /\ po[0] = DefaultOptions
        /\ \A k \in 1..n : po[k] = Applied(po[k - 1], opts[k])
  BY OptionsApplied
<1> DEFINE Text(k) == \A g : g \in ToSet(po[k].LogitBias) <=> \E i \in 1..k : LastText(opts, k, i) /\ g \in ToSet(opts[i].value)
           List(k) == \A g : g \in ToSet(po[k].LogitBiases) <=> \E i \in 1..k : Adds(opts, k, i) /\ g \in ToSet(opts[i].value)
           Good == {k \in 0..n : Text(k) /\ List(k)}
<1> HIDE DEF n
<1>3. 0 \in Good
  <2>1. po[0].LogitBias = <<>> /\ po[0].LogitBiases = <<>>
    <3>1. po[0] = DefaultOptions
      BY <1>2, Zenon
    <3>2. DefaultOptions.LogitBias = <<>> /\ DefaultOptions.LogitBiases = <<>>
      BY DEF DefaultOptions
    <3> QED BY <3>1, <3>2, Zenon
  <2>2. \A g : g \notin ToSet(<<>>)
    BY DEF ToSet
  <2> QED BY <1>1, <2>1, <2>2
<1>4. ASSUME NEW k \in 1..n, k - 1 \in Good PROVE k \in Good
  <2>1. /\ k - 1 \in 0..n /\ k \in 0..n /\ po[k - 1] \in OptionRecords /\ IsPredictOption(opts[k])
        /\ po[k] = Applied(po[k - 1], opts[k])
    BY <1>1, <1>2
  <2>c. Changes(po[k - 1], opts[k], po[k])
    BY <2>1, OneField
  <2>2. Text(k - 1) /\ List(k - 1)
    BY <1>4
  <2>3. Text(k)
    <3>1. CASE opts[k].field = "LogitBias"
      <4>1. po[k].LogitBias = opts[k].value
        BY <2>c, <3>1 DEF Changes
      <4>2. \A i \in 1..k : LastText(opts, k, i) <=> i = k
        BY <1>1, <3>1 DEF LastText
      <4> QED BY <1>1, <4>1, <4>2
    <3>2. CASE opts[k].field # "LogitBias"
      <4>1. po[k].LogitBias = po[k - 1].LogitBias
        BY <2>c, <3>2 DEF Changes
      <4>2. \A i \in 1..k : LastText(opts, k, i) <=> i \in 1..k - 1 /\ LastText(opts, k - 1, i)
        BY <1>1, <3>2 DEF LastText
      <4>3. \A i \in 1..k - 1 : i \in 1..k
        BY <1>1
      <4> QED BY <2>2, <4>1, <4>2, <4>3
    <3> QED BY <3>1, <3>2
  <2>4. List(k)
    <3>1. CASE opts[k].field = "LogitBiases"
      <4>1. /\ po[k].LogitBiases = po[k - 1].LogitBiases \o opts[k].value
            /\ opts[k].value \in Seq(BiasEntries) /\ po[k - 1].LogitBiases \in Seq(BiasEntries)
        BY <2>1, <2>c, <3>1 DEF Changes, OptionRecords
      <4>2. \A i \in 1..k : Adds(opts, k, i) <=> i = k \/ (i \in 1..k - 1 /\ Adds(opts, k - 1, i))
        BY <1>1, <3>1 DEF Adds
      <4>3. k \in 1..k /\ \A i \in 1..k - 1 : i \in 1..k
        BY <1>1
      <4>4. \A g : g \in ToSet(po[k].LogitBiases) <=> g \in ToSet(po[k - 1].LogitBiases) \/ g \in ToSet(opts[k].value)
        BY <4>1, ElementsOfConcat
      <4> QED BY <2>2, <4>2, <4>3, <4>4
    <3>2. CASE opts[k].field # "LogitBiases"
      <4>1. po[k].LogitBiases = po[k - 1].LogitBiases
        BY <2>c, <3>2 DEF Changes
      <4>2. \A i \in 1..k : Adds(opts, k, i) <=> i \in 1..k - 1 /\ Adds(opts, k - 1, i)
        BY <1>1, <3>2 DEF Adds
      <4>3. \A i \in 1..k - 1 : i \in 1..k
        BY <1>1
      <4> QED BY <2>2, <4>1, <4>2, <4>3
    <3> QED BY <3>1, <3>2
  <2> QED BY <2>1, <2>3, <2>4
<1>5. Text(n) /\ List(n)
  <2>1. \A k \in 0..n : k \in Good
    <3> HIDE DEF Good
    <3> QED BY <1>1, <1>3, <1>4, StepByStep
  <2>2. n \in 0..n
    BY <1>1
  <2>3. n \in Good
    <3> HIDE DEF Good
    <3> QED BY <2>1, <2>2
  <2> QED BY <2>3
<1>6. po[n].LogitBias \in Seq(BiasEntries) /\ po[n].LogitBiases \in Seq(BiasEntries)
  <2>1. po[n] \in OptionRecords
    BY <1>1, <1>2
  <2> QED BY <2>1 DEF OptionRecords
<1>7. formatLogitBias(po[n]) = po[n].LogitBias \o po[n].LogitBiases
  BY DEF formatLogitBias
<1>8. formatLogitBias(po[n]) \in Seq(BiasEntries)
  BY <1>6, <1>7
<1>9. ASSUME NEW g PROVE g \in ToSet(formatLogitBias(po[n])) <=> g \in Given(opts)
  <2>1. g \in Given(opts) <=> GivenBy(opts, n, g)
    BY GivenIsGivenBy DEF n
  <2>2. g \in ToSet(formatLogitBias(po[n])) <=> g \in ToSet(po[n].LogitBias) \/ g \in ToSet(po[n].LogitBiases)
    BY <1>6, <1>7, ElementsOfConcat
  <2> QED BY <1>5, <2>1, <2>2 DEF GivenBy
<1> QED BY <1>2, <1>8, <1>9

\* One round of the loop of parse_logit_biases.
Parsed(entry) == [id |-> Narrowed(entry.id), bias |-> entry.bias]
Read(biases, entry) == IF ~Readable(entry) THEN biases ELSE Append(biases, Parsed(entry))

LEMMA ParsedIsEntry ==
    ASSUME NEW entry \in BiasEntries
    PROVE  Parsed(entry) \in BiasEntries
<1>1. entry.id \in Int /\ entry.bias \in STRING
  BY DEF BiasEntries
<1>2. \A a \in Int : (a % (2 * (IntMax + 1))) \in Int
  BY WidthAssumption
<1>3. Narrowed(entry.id) \in Int
  BY <1>1, <1>2, WidthAssumption DEF Narrowed
<1> QED BY <1>1, <1>3 DEF Parsed, BiasEntries

\* An id that an int holds is not changed.
LEMMA NarrowedFits ==
    ASSUME NEW id \in 0..IntMax
    PROVE  Narrowed(id) = id
<1>1. \A m \in Nat \ {0} : \A a \in 0..m - 1 : a % m = a
  OBVIOUS
<1> DEFINE m == 2 * (IntMax + 1)
<1>2. m \in Nat \ {0} /\ id + IntMax + 1 \in 0..m - 1
  BY WidthAssumption
<1>3. (id + IntMax + 1) % m = id + IntMax + 1
  <2> HIDE DEF m
  <2> QED BY <1>1, <1>2
<1> QED BY <1>3, WidthAssumption DEF Narrowed

\* The list of biases grows entry by entry.
LEMMA BiasesParsed ==
    ASSUME NEW entries \in Seq(BiasEntries)
    PROVE  \E biases \in [0..Len(entries) -> Seq(BiasEntries)] :
             /\ parse_logit_biases(entries) = biases[Len(entries)]
             /\ biases[0] = <<>>
             /\ \A k \in 1..Len(entries) : biases[k] = Read(biases[k - 1], entries[k])
<1> DEFINE n == Len(entries)
           step == [k \in 1..n |-> [b \in Seq(BiasEntries) |-> Read(b, entries[k])]]
           loop == CHOOSE f : f = [i \in 0..n |-> IF i = 0 THEN <<>> ELSE
                                     IF ~Readable(entries[i]) THEN f[i - 1]
                                     ELSE Append(f[i - 1], [id |-> Narrowed(entries[i].id), bias |-> entries[i].bias])]
<1>1. n \in Nat /\ \A k \in 1..n : entries[k] \in BiasEntries
  OBVIOUS
<1>2. <<>> \in Seq(BiasEntries)
  OBVIOUS
<1>3. step \in [1..n -> [Seq(BiasEntries) -> Seq(BiasEntries)]]
  <2>1. ASSUME NEW k \in 1..n, NEW b \in Seq(BiasEntries) PROVE Read(b, entries[k]) \in Seq(BiasEntries)
    <3>1. Parsed(entries[k]) \in BiasEntries
      BY <1>1, ParsedIsEntry
    <3>2. Append(b, Parsed(entries[k])) \in Seq(BiasEntries)
      BY <3>1
    <3> QED BY <3>2 DEF Read
  <2> HIDE DEF n
  <2> QED BY <2>1
<1>4. PICK f \in [0..n -> Seq(BiasEntries)] :
        f[0] = <<>> /\ \A k \in 1..n : f[k] = step[k][f[k - 1]]
  <2>1. n \in Nat
    BY <1>1
  <2>2. step \in StepsOn(Seq(BiasEntries), n)
    BY <1>3 DEF StepsOn
  <2> HIDE DEF n, step
  <2>3. \E f : f \in Histories(Seq(BiasEntries), <<>>, n, step)
    BY <1>2, <2>1, <2>2, Iteration
  <2> QED BY <2>3 DEF Histories
<1>5. \A k \in 1..n : f[k] = Read(f[k - 1], entries[k])
  <2>1. \A k \in 1..n : k - 1 \in 0..n
    BY <1>1
  <2> QED BY <1>4, <2>1
<1>6. f = [i \in 0..n |-> IF i = 0 THEN <<>> ELSE
                          IF ~Readable(entries[i]) THEN f[i - 1]
                          ELSE Append(f[i - 1], [id |-> Narrowed(entries[i].id), bias |-> entries[i].bias])]
  <2>1. \A i \in 0..n : f[i] = IF i = 0 THEN <<>> ELSE
                          IF ~Readable(entries[i]) THEN f[i - 1]
                          ELSE Append(f[i - 1], [id |-> Narrowed(entries[i].id), bias |-> entries[i].bias])
    <3>1. ASSUME NEW i \in 0..n, i # 0 PROVE i \in 1..n
      BY <1>1, <3>1
    <3> HIDE DEF n, step
    <3> QED BY <1>4, <1>5, <3>1 DEF Read, Parsed
  <2> HIDE DEF n, step
  <2> QED BY <1>4, <2>1
<1>7. loop = [i \in 0..n |-> IF i = 0 THEN <<>> ELSE
                          IF ~Readable(entries[i]) THEN loop[i - 1]
                          ELSE Append(loop[i - 1], [id |-> Narrowed(entries[i].id), bias |-> entries[i].bias])]
  <2> HIDE DEF n
  <2> QED BY <1>6, Zenon
<1>8. parse_logit_biases(entries) = loop[n]
  BY DEF parse_logit_biases
<1>9. \A k \in 0..n : loop[k] = f[k]
  <2> DEFINE Good == {k \in 0..n : loop[k] = f[k]}
  <2>1. loop[0] = <<>> /\ \A k \in 1..n : loop[k] = Read(loop[k - 1], entries[k])
    <3>1. 0 \in 0..n /\ \A k \in 1..n : k \in 0..n /\ k # 0
      BY <1>1
    <3> HIDE DEF loop, n
    <3> QED BY <1>7, <3>1 DEF Read, Parsed
  <2>2. 0 \in Good
    BY <1>1, <1>4, <2>1
  <2>3. ASSUME NEW k \in 1..n, k - 1 \in Good PROVE k \in Good
    <3>1. k \in 0..n
      BY <1>1
    <3> HIDE DEF n, step, loop
    <3> QED BY <1>5, <2>1, <2>3, <3>1
  <2>4. \A k \in 0..n : k \in Good
    <3> HIDE DEF Good, n
    <3> QED BY <1>1, <2>2, <2>3, StepByStep
  <2> QED BY <2>4
<1>10. parse_logit_biases(entries) = f[n]
  <2>1. n \in 0..n
    BY <1>1
  <2> HIDE DEF n, step, loop
  <2> QED BY <1>8, <1>9, <2>1
<1> QED BY <1>4, <1>5, <1>10

\* What can be read is in the list, and nothing else is.
LEMMA ParsedAreReadable ==
    ASSUME NEW entries \in Seq(BiasEntries)
    PROVE  \A b : b \in ToSet(parse_logit_biases(entries)) <=>
                    \E g \in ToSet(entries) : Readable(g) /\ b = Parsed(g)
<1> DEFINE n == Len(entries)
<1>1. n \in Nat /\ (\A k \in 1..n : entries[k] \in BiasEntries) /\ DOMAIN entries = 1..n
  OBVIOUS
<1>2. PICK f \in [0..n -> Seq(BiasEntries)] :
        /\ parse_logit_biases(entries) = f[n]
        /\ f[0] = <<>>
        /\ \A k \in 1..n : f[k] = Read(f[k - 1], entries[k])
  BY BiasesParsed
<1> HIDE DEF n
<1> DEFINE Has(k) == \A b : b \in ToSet(f[k]) <=> \E i \in 1..k : Readable(entries[i]) /\ b = Parsed(entries[i])
           Good == {k \in 0..n : Has(k)}
<1>3. 0 \in Good
  <2>1. \A g : g \notin ToSet(<<>>)
    BY DEF ToSet
  <2>2. f[0] = <<>>
    BY <1>2, Zenon
  <2> QED BY <1>1, <2>1, <2>2
<1>4. ASSUME NEW k \in 1..n, k - 1 \in Good PROVE k \in Good
  <2>1. k \in 0..n /\ k - 1 \in 0..n /\ (k \in 1..k) /\ (\A i \in 1..k - 1 : i \in 1..k)
        /\ \A i \in 1..k : i = k \/ i \in 1..k - 1
    BY <1>1
  <2>2. Has(k - 1) /\ f[k - 1] \in Seq(BiasEntries) /\ f[k] = Read(f[k - 1], entries[k])
    BY <1>2, <1>4, <2>1
  <2>3. CASE ~Readable(entries[k])
    <3>1. f[k] = f[k - 1]
      BY <2>2, <2>3 DEF Read
    <3> QED BY <2>1, <2>2, <2>3, <3>1
  <2>4. CASE Readable(entries[k])
    <3>1. Parsed(entries[k]) \in BiasEntries
      BY <1>1, ParsedIsEntry
    <3>2. f[k] = Append(f[k - 1], Parsed(entries[k]))
      BY <2>2, <2>4 DEF Read
    <3>3. \A b : b \in ToSet(f[k]) <=> b \in ToSet(f[k - 1]) \/ b = Parsed(entries[k])
      BY <2>2, <3>1, <3>2, ElementsOfAppend
    <3> QED BY <2>1, <2>2, <2>4, <3>3
  <2> QED BY <2>3, <2>4
<1>5. Has(n)
  <2>1. \A k \in 0..n : k \in Good
    <3> HIDE DEF Good
    <3> QED BY <1>1, <1>3, <1>4, StepByStep
  <2>2. n \in 0..n
    BY <1>1
  <2>3. n \in Good
    <3> HIDE DEF Good
    <3> QED BY <2>1, <2>2
  <2> QED BY <2>3
<1>6. \A b : (\E i \in 1..n : Readable(entries[i]) /\ b = Parsed(entries[i])) <=>
            \E g \in ToSet(entries) : Readable(g) /\ b = Parsed(g)
  BY <1>1 DEF ToSet
<1> QED BY <1>2, <1>5, <1>6

\* The biases that the options of a call come to.
BiasesOf(opts) == parse_logit_biases(formatLogitBias(NewPredictOptions(opts)))

\* Biases within the range of a token arrive as they were given, and nothing else
\* does if all of them are.
LEMMA BiasesKept ==
    ASSUME NEW opts, AreOptions(opts)
    PROVE  LET fits == {g \in Given(opts) : Readable(g) /\ g.id <= IntMax}
               wide == {g \in Given(opts) : Readable(g) /\ g.id > IntMax}
           IN  /\ fits \subseteq ToSet(BiasesOf(opts))
               /\ wide = {} => ToSet(BiasesOf(opts)) \subseteq fits
<1> DEFINE entries == formatLogitBias(NewPredictOptions(opts))
<1>1. entries \in Seq(BiasEntries) /\ \A g : g \in ToSet(entries) <=> g \in Given(opts)
  BY FormattedAreGiven
<1>2. \A b : b \in ToSet(BiasesOf(opts)) <=> \E g \in Given(opts) : Readable(g) /\ b = Parsed(g)
  <2>1. BiasesOf(opts) = parse_logit_biases(entries)
    BY DEF BiasesOf
  <2> HIDE DEF entries
  <2> QED BY <1>1, <2>1, ParsedAreReadable
<1>3. ASSUME NEW g \in Given(opts), Readable(g), g.id <= IntMax PROVE Parsed(g) = g
  <2>1. g \in BiasEntries
    <3> HIDE DEF entries
    <3>1. g \in ToSet(entries)
      BY <1>1
    <3> QED BY <1>1, <3>1 DEF ToSet
  <2>2. g = [id |-> g.id, bias |-> g.bias] /\ g.id \in 0..IntMax
    BY <1>3, <2>1, WidthAssumption DEF BiasEntries, Readable
  <2>3. Narrowed(g.id) = g.id
    BY <2>2, NarrowedFits
  <2> QED BY <2>2, <2>3 DEF Parsed
<1>4. ASSUME NEW g \in Given(opts), Readable(g) PROVE g.id <= IntMax \/ g.id > IntMax
  <2>1. g.id \in Int
    BY <1>4, WidthAssumption DEF Readable
  <2> QED BY <2>1, WidthAssumption
<1> HIDE DEF entries
<1> QED BY <1>2, <1>3, <1>4

\* newCPredictParams allocates a number of strings, Predict one for each media file.
LEMMA StringsAreNat ==
  \A opts \in PredictChoices :
    /\ StringsOf(NewPredictOptions(opts)) \in Nat
    /\ \A op : MediaStrings(op, opts) \in Nat
<1> SUFFICES ASSUME NEW opts \in PredictChoices
             PROVE  /\ StringsOf(NewPredictOptions(opts)) \in Nat
                    /\ \A op : MediaStrings(op, opts) \in Nat
  OBVIOUS
<1>1. AreOptions(opts) /\ Len(opts) \in Nat
  BY ChoicesAssumption DEF AreOptions
<1>2. NewPredictOptions(opts) \in OptionRecords
  BY <1>1, OptionsApplied
<1> DEFINE po == NewPredictOptions(opts)
<1>3. Len(po.StopPrompts) \in Nat /\ Len(po.MediaPaths) \in Nat
  <2> HIDE DEF po
  <2>1. po \in OptionRecords
    BY <1>2 DEF po
  <2>2. po.StopPrompts \in Seq(STRING) /\ po.MediaPaths \in Seq(STRING)
    BY <2>1 DEF OptionRecords
  <2> QED BY <2>2
<1>4. StringsOf(po) = 8 + Len(po.StopPrompts)
  BY DEF StringsOf
<1>5. \A op : MediaStrings(op, opts) \in {0, Len(po.MediaPaths)}
  BY Zenon DEF MediaStrings
<1> HIDE DEF po
<1>6. StringsOf(po) \in Nat
  <2>1. \A a \in Nat : 8 + a \in Nat
    OBVIOUS
  <2> QED BY <1>3, <1>4, <2>1, Zenon
<1>7. \A op : MediaStrings(op, opts) \in Nat
  BY <1>3, <1>5
<1> QED BY <1>6, <1>7 DEF po

---------------------------------------------------------------------------
\* The invariant: what is allocated is a function of where the call is.

NewSteps == {"devices", "model", "context", "lora", "apply", "mmproj", "projector"}
FreeSteps == {"free_mtmd", "free_context", "free_adapters", "free_model", "free_binding"}
MediaSteps == {"media", "tokenize_media", "eval_chunks"}
\* Steps inside the C side, with a context.
InnerSteps == MediaSteps \cup {"prompt", "eval", "batch", "decode_batch", "sampler", "grammar", "generate", "result"}

Operations == {"none", "New", "Free", "Predict", "Eval", "TokenizeString", "Embeddings", "TokenEmbeddings",
               "Info", "State"}
Calls == [op : Operations, opts : ModelChoices \cup PredictChoices \cup {<<>>},
          biases : {<<>>} \cup {BiasesOf(opts) : opts \in PredictChoices},
          arguments : Nat, params : 0..1, failed : BOOLEAN, cerr : 0..1, out : 0..1,
          bitmaps : Nat, videos : Nat]

Types ==
    /\ live \in [Kind -> Int]
    /\ handle \in {"none", "open", "freed"}
    /\ binding \in [adapters : 0..1, mtmd : 0..1]
    /\ call \in Calls
    /\ pc \in Steps

\* Where a call can be, given the handle; what has failed returns or releases.
Control ==
    /\ pc \in NewSteps => call.op = "New" /\ handle = "none"
    /\ pc \in FreeSteps => (call.op = "New" /\ handle = "none") \/ (call.op = "Free" /\ handle = "open")
    /\ pc \in InnerSteps => handle = "open"
    /\ pc = "idle" => call = NoCall
    /\ pc \notin FreeSteps \cup {"return"} => ~call.failed /\ call.cerr = 0
    /\ pc # "return" => call.out = 0
    /\ call.failed => call.out = 0
    /\ ~call.failed => call.cerr = 0

\* What the members of llama_binding_state say.
Members ==
    /\ handle # "open" /\ pc \notin FreeSteps \cup {"apply", "mmproj", "projector"} =>
          binding.adapters = 0 /\ binding.mtmd = 0
    /\ pc \in NewSteps => binding.mtmd = 0
    /\ pc \in MediaSteps => binding.mtmd = 1
    /\ pc = "enter" => call.bitmaps = 0 /\ call.videos = 0

HasModel == \/ pc \in {"context", "lora", "apply", "mmproj", "projector"}
            \/ pc \in FreeSteps \ {"free_binding"}
            \/ handle = "open" /\ pc \notin FreeSteps
HasContext == \/ pc \in {"lora", "apply", "mmproj", "projector", "free_mtmd", "free_context"}
              \/ handle = "open" /\ pc \notin FreeSteps
HasBinding == \/ pc \in {"lora", "apply", "mmproj", "projector"} \cup FreeSteps
              \/ handle = "open"
If(condition) == IF condition THEN 1 ELSE 0

\* How much is allocated: the handle's own objects by the step, the others by
\* the variables of the call.
HandleCounts ==
    /\ live["model"] = If(HasModel)
    /\ live["ctx"] = If(HasContext)
    /\ live["binding"] = If(HasBinding)
    /\ live["adapter"] = IF pc \in {"free_model", "free_binding"} THEN 0 ELSE binding.adapters
    /\ live["mtmd"] = IF pc \in FreeSteps \ {"free_mtmd"} THEN 0 ELSE binding.mtmd

CallCounts ==
    /\ live["argument"] = call.arguments
    /\ live["params"] = call.params
    /\ live["message"] = call.cerr
    /\ live["result"] = call.out

InnerCounts ==
    /\ live["bitmap"] = IF pc \in MediaSteps THEN call.bitmaps ELSE 0
    /\ live["video"] = IF pc \in MediaSteps THEN call.videos ELSE 0
    /\ live["chunks"] = If(pc \in {"tokenize_media", "eval_chunks"})
    /\ live["sampler"] = If(pc \in {"grammar", "generate"})
    /\ live["batch"] = If(pc = "decode_batch")

Inv == Types /\ Control /\ Members /\ HandleCounts /\ CallCounts /\ InnerCounts

\* What a counter can become, and the kinds by name.
LEMMA Counted ==
    ASSUME live \in [Kind -> Int], NEW k \in Kind, NEW n \in Int
    PROVE  /\ live[k] + n \in Int /\ live[k] - n \in Int
           /\ [live EXCEPT ![k] = live[k] + n] \in [Kind -> Int]
           /\ [live EXCEPT ![k] = live[k] - n] \in [Kind -> Int]
<1>1. live[k] \in Int
  OBVIOUS
<1>2. live[k] + n \in Int /\ live[k] - n \in Int
  BY <1>1
<1> QED BY <1>2

LEMMA Kinds == /\ "model" \in Kind /\ "ctx" \in Kind /\ "binding" \in Kind /\ "adapter" \in Kind
               /\ "mtmd" \in Kind /\ "argument" \in Kind /\ "params" \in Kind /\ "message" \in Kind
               /\ "result" \in Kind /\ "bitmap" \in Kind /\ "video" \in Kind /\ "chunks" \in Kind
               /\ "sampler" \in Kind /\ "batch" \in Kind
BY DEF Kind

\* Before New nothing is allocated.
LEMMA InitHolds == Init => Inv
<1> USE DEF Init, None, NoCall
<1>1. Init => Types
  BY DEF Types, Calls, Operations, Kind, Steps
<1>2. Init => Control /\ Members
  BY DEF Control, Members, NewSteps, FreeSteps, InnerSteps, MediaSteps
<1>3. Init => HandleCounts /\ CallCounts /\ InnerCounts
  BY DEF HandleCounts, CallCounts, InnerCounts, HasModel, HasContext, HasBinding, If, NewSteps, FreeSteps,
     MediaSteps, Kind
<1> QED BY <1>1, <1>2, <1>3 DEF Inv

\* A failing step: everything the call had beyond its handle and arguments is
\* in "released".
LEMMA FailKeeps ==
  ASSUME Inv, NEW released \in [Kind -> Int], Fail(released),
         pc \in InnerSteps \cup {"devices", "model", "context", "enter"},
         \A k \in Kind : released[k] =
             IF k = "model" THEN If(pc = "context")
             ELSE IF k \in {"bitmap", "video", "chunks", "sampler", "batch"} THEN live[k] ELSE 0
  PROVE  Inv'
<1>1. PICK n \in 0..1 :
        /\ live' = [k \in Kind |-> live[k] + (IF k = "message" THEN n ELSE 0) - released[k]]
        /\ call' = [call EXCEPT !.failed = TRUE, !.cerr = n]
        /\ pc' = "return"
        /\ UNCHANGED <<handle, binding>>
  BY DEF Fail, FailTo
<1>2. /\ live \in [Kind -> Int] /\ call \in Calls
      /\ binding \in [adapters : 0..1, mtmd : 0..1]
  BY Zenon DEF Inv, Types
<1>3. call.cerr = 0 /\ call.out = 0 /\ ~call.failed
  BY DEF Inv, Control, InnerSteps, FreeSteps, MediaSteps
<1>4. /\ call'.op = call.op /\ call'.failed = TRUE /\ call'.cerr = n /\ call'.out = call.out
      /\ call'.arguments = call.arguments /\ call'.params = call.params
      /\ call'.bitmaps = call.bitmaps /\ call'.videos = call.videos
      /\ call' \in Calls
  BY <1>1, <1>2 DEF Calls
<1>5. Types'
  BY <1>1, <1>2, <1>4 DEF Inv, Types, Steps
<1>6. Control'
  BY <1>1, <1>3, <1>4 DEF Control, NewSteps, FreeSteps, InnerSteps, MediaSteps
<1>7. Members'
  <2>1. handle # "open" => pc \notin {"apply", "mmproj", "projector"} \cup FreeSteps
    BY DEF InnerSteps, FreeSteps, MediaSteps
  <2>2. Members
    BY DEF Inv
  <2> QED BY <1>1, <2>1, <2>2 DEF Members, NewSteps, FreeSteps, MediaSteps
<1>8. \A k \in Kind : live'[k] = live[k] + (IF k = "message" THEN n ELSE 0) - released[k]
  BY <1>1
<1>9. HandleCounts'
  <2>1. /\ live'["model"] = live["model"] - If(pc = "context")
        /\ live'["ctx"] = live["ctx"] /\ live'["binding"] = live["binding"]
        /\ live'["adapter"] = live["adapter"] /\ live'["mtmd"] = live["mtmd"]
    BY <1>2, <1>8 DEF Kind
  <2>2. /\ If(HasModel)' = If(HasModel) - If(pc = "context")
        /\ If(HasContext)' = If(HasContext) /\ If(HasBinding)' = If(HasBinding)
    BY <1>1 DEF Inv, Control, HasModel, HasContext, HasBinding, If, NewSteps, FreeSteps, InnerSteps, MediaSteps
  <2>3. HandleCounts
    BY DEF Inv
  <2>4. /\ pc \notin FreeSteps /\ pc' \notin FreeSteps
        /\ pc \notin {"free_model", "free_binding"} /\ pc' \notin {"free_model", "free_binding"}
    BY <1>1 DEF FreeSteps, InnerSteps, MediaSteps
  <2>5. binding' = binding
    BY <1>1
  <2> QED BY <2>1, <2>2, <2>3, <2>4, <2>5 DEF HandleCounts
<1>10. CallCounts'
  <2>1. /\ live'["argument"] = live["argument"] /\ live'["params"] = live["params"]
        /\ live'["message"] = live["message"] + n /\ live'["result"] = live["result"]
    BY <1>2, <1>8 DEF Kind
  <2> QED BY <1>3, <1>4, <2>1 DEF Inv, CallCounts
<1>11. InnerCounts'
  <2>1. \A k \in {"bitmap", "video", "chunks", "sampler", "batch"} : live'[k] = 0
    BY <1>2, <1>8 DEF Kind
  <2> QED BY <1>1, <2>1 DEF InnerCounts, If, MediaSteps
<1> QED BY <1>5, <1>6, <1>7, <1>9, <1>10, <1>11 DEF Inv

\* A failing adapter or projector sends New to llama_binding_free_model.
LEMMA UnloadKeeps ==
  ASSUME Inv, FailTo("free_mtmd", None), pc \in {"lora", "apply", "projector"}
  PROVE  Inv'
<1> USE DEF FailTo, None
<1>1. /\ live \in [Kind -> Int] /\ call \in Calls /\ binding \in [adapters : 0..1, mtmd : 0..1]
      /\ handle \in {"none", "open", "freed"}
  BY Zenon DEF Inv, Types
<1>a. PICK n \in 0..1 :
        /\ live' = [k \in Kind |-> live[k] + (IF k = "message" THEN n ELSE 0) - 0]
        /\ call' = [call EXCEPT !.failed = TRUE, !.cerr = n]
        /\ pc' = "free_mtmd"
        /\ UNCHANGED <<handle, binding>>
  BY Zenon DEF Kind
<1>2. Types'
  <2>1. live' \in [Kind -> Int]
    <3>1. \A k \in Kind : live[k] + (IF k = "message" THEN n ELSE 0) - 0 \in Int
      BY <1>1
    <3> QED BY <1>a, <3>1, Zenon
  <2>2. call' \in Calls
    BY <1>1, <1>a DEF Calls, Operations
  <2>3. pc' \in Steps
    BY <1>a DEF Steps
  <2>4. handle' \in {"none", "open", "freed"} /\ binding' \in [adapters : 0..1, mtmd : 0..1]
    BY <1>1, <1>a DEF Inv, Members, NewSteps, FreeSteps
  <2> QED BY <2>1, <2>2, <2>3, <2>4 DEF Types
<1>3. Control'
  BY <1>1, <1>a DEF Inv, Control, Calls, NewSteps, FreeSteps, InnerSteps, MediaSteps
<1>4. Members'
  BY <1>1, <1>a DEF Inv, Control, Members, Calls, NewSteps, FreeSteps, InnerSteps, MediaSteps
<1>5. \A k \in Kind : live'[k] = IF k = "message" THEN live[k] + n ELSE live[k]
  BY <1>1, <1>a
<1>6. /\ live'["model"] = live["model"] /\ live'["ctx"] = live["ctx"] /\ live'["binding"] = live["binding"]
      /\ live'["adapter"] = live["adapter"] /\ live'["mtmd"] = live["mtmd"]
      /\ live'["argument"] = live["argument"] /\ live'["params"] = live["params"]
      /\ live'["message"] = live["message"] + n /\ live'["result"] = live["result"]
      /\ live'["bitmap"] = live["bitmap"] /\ live'["video"] = live["video"] /\ live'["chunks"] = live["chunks"]
      /\ live'["sampler"] = live["sampler"] /\ live'["batch"] = live["batch"]
  BY <1>5, Kinds
<1>7. /\ pc' = "free_mtmd" /\ binding' = binding /\ handle' = handle
      /\ call'.arguments = call.arguments /\ call'.params = call.params /\ call'.cerr = n
      /\ call'.out = call.out
  BY <1>1, <1>a DEF Calls
<1>8. HandleCounts'
  BY <1>6, <1>7 DEF Inv, Control, HandleCounts, HasModel, HasContext, HasBinding, If, NewSteps, FreeSteps
<1>9. CallCounts'
  <2>1. call.cerr = 0
    BY DEF Inv, Control, FreeSteps
  <2> QED BY <1>6, <1>7, <2>1 DEF Inv, CallCounts
<1>10. InnerCounts'
  BY <1>6, <1>7 DEF Inv, InnerCounts, If, MediaSteps
<1> QED BY <1>2, <1>3, <1>4, <1>8, <1>9, <1>10 DEF Inv

\* An adapter is recorded before it is applied.
LEMMA LoadAdapterKeeps ==
  ASSUME Inv, pc = "lora", Allocate("adapter"), binding' = [binding EXCEPT !.adapters = @ + 1],
         pc' = "apply", UNCHANGED <<handle, call>>
  PROVE  Inv'
<1> USE DEF Allocate
<1>1. /\ live \in [Kind -> Int] /\ call \in Calls /\ binding \in [adapters : 0..1, mtmd : 0..1]
      /\ handle \in {"none", "open", "freed"}
  BY Zenon DEF Inv, Types
<1>a. binding.adapters = 0 /\ handle = "none"
  BY DEF Inv, Control, Members, NewSteps, FreeSteps
<1>2. Types'
  <2>1. live' \in [Kind -> Int]
    <3>1. live["adapter"] + 1 \in Int
      BY <1>1, Kinds
    <3> QED BY <1>1, <3>1
  <2>2. call' \in Calls
    BY <1>1 DEF Calls, Operations
  <2>3. pc' \in Steps
    BY DEF Steps
  <2>4. handle' \in {"none", "open", "freed"} /\ binding' \in [adapters : 0..1, mtmd : 0..1]
    BY <1>1, <1>a
  <2> QED BY <2>1, <2>2, <2>3, <2>4 DEF Types
<1>3. Control'
  BY <1>1 DEF Inv, Control, Calls, NewSteps, FreeSteps, InnerSteps, MediaSteps
<1>4. Members'
  BY <1>1 DEF Inv, Control, Members, Calls, NewSteps, FreeSteps, InnerSteps, MediaSteps
<1>5. HandleCounts'
  BY <1>1 DEF Inv, Control, Members, HandleCounts, HasModel, HasContext, HasBinding, If, Kind, NewSteps, FreeSteps, InnerSteps, MediaSteps
<1>6. CallCounts'
  BY <1>1 DEF Inv, Control, CallCounts, Calls, Kind, NewSteps, FreeSteps, InnerSteps, MediaSteps
<1>7. InnerCounts'
  BY <1>1 DEF Inv, Control, InnerCounts, If, Calls, Kind, NewSteps, FreeSteps, InnerSteps, MediaSteps
<1> QED BY <1>2, <1>3, <1>4, <1>5, <1>6, <1>7 DEF Inv

\* No adapter is wanted, or it has been applied.
LEMMA SkipKeeps ==
  ASSUME Inv, pc \in {"lora", "apply"}, Goto("mmproj"), UNCHANGED live
  PROVE  Inv'
<1> USE DEF Goto
<1>1. /\ live \in [Kind -> Int] /\ call \in Calls /\ binding \in [adapters : 0..1, mtmd : 0..1]
      /\ handle \in {"none", "open", "freed"}
  BY Zenon DEF Inv, Types
<1>2. Types'
  <2>1. live' \in [Kind -> Int]
    BY <1>1, Counted, Kinds
  <2>2. call' \in Calls
    BY <1>1 DEF Calls, Operations
  <2>3. pc' \in Steps
    BY DEF Steps
  <2>4. handle' \in {"none", "open", "freed"} /\ binding' \in [adapters : 0..1, mtmd : 0..1]
    BY <1>1 DEF Inv, Members, NewSteps, FreeSteps
  <2> QED BY <2>1, <2>2, <2>3, <2>4 DEF Types
<1>3. Control'
  BY <1>1 DEF Inv, Control, Calls, NewSteps, FreeSteps, InnerSteps, MediaSteps
<1>4. Members'
  BY <1>1 DEF Inv, Control, Members, Calls, NewSteps, FreeSteps, InnerSteps, MediaSteps
<1>5. HandleCounts'
  BY <1>1 DEF Inv, Control, Members, HandleCounts, HasModel, HasContext, HasBinding, If, Kind, NewSteps, FreeSteps, InnerSteps, MediaSteps
<1>6. CallCounts'
  BY <1>1 DEF Inv, Control, CallCounts, Calls, Kind, NewSteps, FreeSteps, InnerSteps, MediaSteps
<1>7. InnerCounts'
  BY <1>1 DEF Inv, Control, InnerCounts, If, Calls, Kind, NewSteps, FreeSteps, InnerSteps, MediaSteps
<1> QED BY <1>2, <1>3, <1>4, <1>5, <1>6, <1>7 DEF Inv

\* Adapters, with their failures.
LEMMA AdapterKeeps == ASSUME Inv, InitAdapter \/ ApplyAdapter PROVE Inv'
  BY UnloadKeeps, LoadAdapterKeeps, SkipKeeps DEF InitAdapter, ApplyAdapter

\* New succeeds without a projector.
LEMMA NoProjectorKeeps ==
  ASSUME Inv, pc = "mmproj", handle' = "open", pc' = "return", UNCHANGED <<live, binding, call>>
  PROVE  Inv'
<1> USE DEF Goto
<1>1. /\ live \in [Kind -> Int] /\ call \in Calls /\ binding \in [adapters : 0..1, mtmd : 0..1]
      /\ handle \in {"none", "open", "freed"}
  BY Zenon DEF Inv, Types
<1>2. Types'
  <2>1. live' \in [Kind -> Int]
    BY <1>1, Counted, Kinds
  <2>2. call' \in Calls
    BY <1>1 DEF Calls, Operations
  <2>3. pc' \in Steps
    BY DEF Steps
  <2>4. handle' \in {"none", "open", "freed"} /\ binding' \in [adapters : 0..1, mtmd : 0..1]
    BY <1>1 DEF Inv, Members, NewSteps, FreeSteps
  <2> QED BY <2>1, <2>2, <2>3, <2>4 DEF Types
<1>3. Control'
  BY <1>1 DEF Inv, Control, Calls, NewSteps, FreeSteps, InnerSteps, MediaSteps
<1>4. Members'
  BY <1>1 DEF Inv, Control, Members, Calls, NewSteps, FreeSteps, InnerSteps, MediaSteps
<1>5. HandleCounts'
  BY <1>1 DEF Inv, Control, Members, HandleCounts, HasModel, HasContext, HasBinding, If, Kind, NewSteps, FreeSteps, InnerSteps, MediaSteps
<1>6. CallCounts'
  BY <1>1 DEF Inv, Control, CallCounts, Calls, Kind, NewSteps, FreeSteps, InnerSteps, MediaSteps
<1>7. InnerCounts'
  BY <1>1 DEF Inv, Control, InnerCounts, If, Calls, Kind, NewSteps, FreeSteps, InnerSteps, MediaSteps
<1> QED BY <1>2, <1>3, <1>4, <1>5, <1>6, <1>7 DEF Inv

\* The path of the projector is one C string more.
LEMMA ProjectorPathKeeps ==
  ASSUME Inv, pc = "mmproj", Allocate("argument"), call' = [call EXCEPT !.arguments = @ + 1],
         pc' = "projector", UNCHANGED <<handle, binding>>
  PROVE  Inv'
<1> USE DEF Allocate
<1>1. /\ live \in [Kind -> Int] /\ call \in Calls /\ binding \in [adapters : 0..1, mtmd : 0..1]
      /\ handle \in {"none", "open", "freed"}
  BY Zenon DEF Inv, Types
<1>2. Types'
  <2>1. live' \in [Kind -> Int]
    <3>1. live["argument"] + 1 \in Int
      BY <1>1, Kinds
    <3> QED BY <1>1, <3>1
  <2>2. call' \in Calls
    <3>1. call.arguments + 1 \in Nat
      BY <1>1 DEF Calls
    <3> QED BY <1>1, <3>1 DEF Calls
  <2>3. pc' \in Steps
    BY DEF Steps
  <2>4. handle' \in {"none", "open", "freed"} /\ binding' \in [adapters : 0..1, mtmd : 0..1]
    BY <1>1 DEF Inv, Members, NewSteps, FreeSteps
  <2> QED BY <2>1, <2>2, <2>3, <2>4 DEF Types
<1>3. Control'
  BY <1>1 DEF Inv, Control, Calls, NewSteps, FreeSteps, InnerSteps, MediaSteps
<1>4. Members'
  BY <1>1 DEF Inv, Control, Members, Calls, NewSteps, FreeSteps, InnerSteps, MediaSteps
<1>5. HandleCounts'
  BY <1>1 DEF Inv, Control, Members, HandleCounts, HasModel, HasContext, HasBinding, If, Kind, NewSteps, FreeSteps, InnerSteps, MediaSteps
<1>6. CallCounts'
  <2>1. /\ call'.arguments = call.arguments + 1 /\ call'.params = call.params
        /\ call'.cerr = call.cerr /\ call'.out = call.out
    BY <1>1 DEF Calls
  <2>2. /\ live'["argument"] = live["argument"] + 1 /\ live'["params"] = live["params"]
        /\ live'["message"] = live["message"] /\ live'["result"] = live["result"]
    BY <1>1 DEF Kind
  <2> QED BY <2>1, <2>2 DEF Inv, CallCounts
<1>7. InnerCounts'
  BY <1>1 DEF Inv, Control, InnerCounts, If, Calls, Kind, NewSteps, FreeSteps, InnerSteps, MediaSteps
<1> QED BY <1>2, <1>3, <1>4, <1>5, <1>6, <1>7 DEF Inv

\* New succeeds with a projector.
LEMMA ProjectorKeeps ==
  ASSUME Inv, pc = "projector", Allocate("mtmd"), binding' = [binding EXCEPT !.mtmd = 1],
         handle' = "open", pc' = "return", UNCHANGED call
  PROVE  Inv'
<1> USE DEF Allocate
<1>1. /\ live \in [Kind -> Int] /\ call \in Calls /\ binding \in [adapters : 0..1, mtmd : 0..1]
      /\ handle \in {"none", "open", "freed"}
  BY Zenon DEF Inv, Types
<1>2. Types'
  <2>1. live' \in [Kind -> Int]
    <3>1. live["mtmd"] + 1 \in Int
      BY <1>1, Kinds
    <3> QED BY <1>1, <3>1
  <2>2. call' \in Calls
    BY <1>1 DEF Calls, Operations
  <2>3. pc' \in Steps
    BY DEF Steps
  <2>4. handle' \in {"none", "open", "freed"} /\ binding' \in [adapters : 0..1, mtmd : 0..1]
    BY <1>1 DEF Inv, Members, NewSteps, FreeSteps
  <2> QED BY <2>1, <2>2, <2>3, <2>4 DEF Types
<1>3. Control'
  BY <1>1 DEF Inv, Control, Calls, NewSteps, FreeSteps, InnerSteps, MediaSteps
<1>4. Members'
  BY <1>1 DEF Inv, Control, Members, Calls, NewSteps, FreeSteps, InnerSteps, MediaSteps
<1>5. HandleCounts'
  BY <1>1 DEF Inv, Control, Members, HandleCounts, HasModel, HasContext, HasBinding, If, Kind, NewSteps, FreeSteps, InnerSteps, MediaSteps
<1>6. CallCounts'
  BY <1>1 DEF Inv, Control, CallCounts, Calls, Kind, NewSteps, FreeSteps, InnerSteps, MediaSteps
<1>7. InnerCounts'
  BY <1>1 DEF Inv, Control, InnerCounts, If, Calls, Kind, NewSteps, FreeSteps, InnerSteps, MediaSteps
<1> QED BY <1>2, <1>3, <1>4, <1>5, <1>6, <1>7 DEF Inv

\* The projector, with its failures.
LEMMA MMProjKeeps == ASSUME Inv, MMProjPath \/ LoadMMProj PROVE Inv'
  BY NoProjectorKeeps, ProjectorPathKeeps, ProjectorKeeps, UnloadKeeps DEF MMProjPath, LoadMMProj

\* The last step of a release: the members are forgotten with the struct.
LEMMA DeleteBindingKeeps ==
  ASSUME Inv, DeleteBinding
  PROVE  Inv'
<1> USE DEF DeleteBinding
<1>1. /\ live \in [Kind -> Int] /\ call \in Calls /\ binding \in [adapters : 0..1, mtmd : 0..1]
      /\ handle \in {"none", "open", "freed"}
  BY Zenon DEF Inv, Types
<1>2. Types'
  <2>1. live' \in [Kind -> Int]
    <3>1. live["binding"] - 1 \in Int
      BY <1>1, Kinds
    <3> QED BY <1>1, <3>1
  <2>2. call' \in Calls
    BY <1>1 DEF Calls, Operations
  <2>3. pc' \in Steps
    BY DEF Steps
  <2>4. handle' \in {"none", "open", "freed"} /\ binding' \in [adapters : 0..1, mtmd : 0..1]
    BY <1>1 DEF Inv, Members, NewSteps, FreeSteps
  <2> QED BY <2>1, <2>2, <2>3, <2>4 DEF Types
<1>3. Control'
  BY <1>1 DEF Inv, Control, Calls, NewSteps, FreeSteps, InnerSteps, MediaSteps
<1>4. Members'
  BY <1>1 DEF Inv, Control, Members, Calls, NewSteps, FreeSteps, InnerSteps, MediaSteps
<1>5. HandleCounts'
  BY <1>1 DEF Inv, Control, Members, HandleCounts, HasModel, HasContext, HasBinding, If, Kind, NewSteps, FreeSteps, InnerSteps, MediaSteps
<1>6. CallCounts'
  BY <1>1 DEF Inv, Control, CallCounts, Calls, Kind, NewSteps, FreeSteps, InnerSteps, MediaSteps
<1>7. InnerCounts'
  BY <1>1 DEF Inv, Control, InnerCounts, If, Calls, Kind, NewSteps, FreeSteps, InnerSteps, MediaSteps
<1> QED BY <1>2, <1>3, <1>4, <1>5, <1>6, <1>7 DEF Inv

\* What a method starts with.
LEMMA Begun ==
  ASSUME NEW op \in Operations
  PROVE  /\ [NoCall EXCEPT !.op = op] \in Calls
         /\ \A n \in Nat : [NoCall EXCEPT !.op = op, !.arguments = n] \in Calls
         /\ \A n \in Nat, opts \in ModelChoices \cup PredictChoices :
               [NoCall EXCEPT !.op = op, !.opts = opts, !.arguments = n] \in Calls
<1>1. NoCall \in Calls
  BY DEF NoCall, Calls, Operations
<1> QED BY <1>1 DEF Calls

\* Free does nothing on a handle without a C side.
LEMMA FreeKeeps ==
  ASSUME Inv, Free
  PROVE  Inv'
<1>0. call' \in Calls
  <2>1. "Free" \in Operations
    BY DEF Operations
  <2>2. call' = [NoCall EXCEPT !.op = "Free"]
    BY DEF Free
  <2> QED BY <2>1, <2>2, Begun
<1> USE DEF Free, NoCall
<1>1. /\ live \in [Kind -> Int] /\ call \in Calls /\ binding \in [adapters : 0..1, mtmd : 0..1]
      /\ handle \in {"none", "open", "freed"}
  BY Zenon DEF Inv, Types
<1>2. Types'
  <2>1. live' \in [Kind -> Int]
    BY <1>1, Counted, Kinds
  <2>2. call' \in Calls
    BY <1>0
  <2>3. pc' \in Steps
    BY DEF Steps
  <2>4. handle' \in {"none", "open", "freed"} /\ binding' \in [adapters : 0..1, mtmd : 0..1]
    BY <1>1 DEF Inv, Members, NewSteps, FreeSteps
  <2> QED BY <2>1, <2>2, <2>3, <2>4 DEF Types
<1>3. Control'
  BY <1>1 DEF Inv, Control, Calls, NewSteps, FreeSteps, InnerSteps, MediaSteps
<1>4. Members'
  BY <1>1 DEF Inv, Control, Members, Calls, NewSteps, FreeSteps, InnerSteps, MediaSteps
<1>5. HandleCounts'
  BY <1>1 DEF Inv, Control, Members, HandleCounts, HasModel, HasContext, HasBinding, If, Kind, NewSteps, FreeSteps, InnerSteps, MediaSteps
<1>6. CallCounts'
  BY <1>1 DEF Inv, Control, CallCounts, Calls, Kind, NewSteps, FreeSteps, InnerSteps, MediaSteps
<1>7. InnerCounts'
  BY <1>1 DEF Inv, Control, InnerCounts, If, Calls, Kind, NewSteps, FreeSteps, InnerSteps, MediaSteps
<1> QED BY <1>2, <1>3, <1>4, <1>5, <1>6, <1>7 DEF Inv

\* New allocates the C strings of its options.
LEMMA NewKeeps ==
  ASSUME Inv, New
  PROVE  Inv'
<1> USE DEF New, NoCall
<1>1. /\ live \in [Kind -> Int] /\ call \in Calls /\ binding \in [adapters : 0..1, mtmd : 0..1]
      /\ handle \in {"none", "open", "freed"}
  BY Zenon DEF Inv, Types
<1>a. PICK opts \in ModelChoices : call' = [NoCall EXCEPT !.op = "New", !.opts = opts, !.arguments = 5]
  OBVIOUS
<1>2. Types'
  <2>1. live' \in [Kind -> Int]
    <3>1. live["argument"] + 5 \in Int
      BY <1>1, Kinds
    <3> QED BY <1>1, <1>a, <3>1
  <2>2. call' \in Calls
    <3>1. "New" \in Operations /\ 5 \in Nat
      BY DEF Operations
    <3> QED BY Zenon, <1>a, <3>1, Begun
  <2>3. pc' \in Steps
    BY <1>a DEF Steps
  <2>4. handle' \in {"none", "open", "freed"} /\ binding' \in [adapters : 0..1, mtmd : 0..1]
    BY <1>1, <1>a DEF Inv, Members, NewSteps, FreeSteps
  <2> QED BY <2>1, <2>2, <2>3, <2>4 DEF Types
<1>3. Control'
  BY <1>1, <1>a DEF Inv, Control, Calls, NewSteps, FreeSteps, InnerSteps, MediaSteps
<1>4. Members'
  BY <1>1, <1>a DEF Inv, Control, Members, Calls, NewSteps, FreeSteps, InnerSteps, MediaSteps
<1>5. HandleCounts'
  BY <1>1, <1>a DEF Inv, Control, Members, HandleCounts, HasModel, HasContext, HasBinding, If, Kind, NewSteps, FreeSteps, InnerSteps, MediaSteps
<1>6. CallCounts'
  BY <1>1, <1>a DEF Inv, Control, CallCounts, Calls, Kind, NewSteps, FreeSteps, InnerSteps, MediaSteps
<1>7. InnerCounts'
  BY <1>1, <1>a DEF Inv, Control, InnerCounts, If, Calls, Kind, NewSteps, FreeSteps, InnerSteps, MediaSteps
<1> QED BY <1>2, <1>3, <1>4, <1>5, <1>6, <1>7 DEF Inv

\* Counts of messages.
LEMMA MessagesAreNat == \A n \in 0..MaxMessages : n \in Nat /\ 2 * n \in Nat
  BY ChoicesAssumption

\* A chat template takes two strings for each message.
LEMMA CallInfoKeeps ==
  ASSUME Inv, CallInfo
  PROVE  Inv'
<1>0. call' \in Calls
  <2>1. "Info" \in Operations
    BY DEF Operations
  <2>2. PICK n \in 0..MaxMessages : call' = [NoCall EXCEPT !.op = "Info", !.arguments = 2 * n]
    BY DEF CallInfo
  <2>3. 2 * n \in Nat
    BY MessagesAreNat
  <2> QED BY <2>1, <2>2, <2>3, Begun
<1> USE DEF CallInfo, NoCall
<1>1. /\ live \in [Kind -> Int] /\ call \in Calls /\ binding \in [adapters : 0..1, mtmd : 0..1]
      /\ handle \in {"none", "open", "freed"}
  BY Zenon DEF Inv, Types
<1>a. PICK n \in 0..MaxMessages :
        /\ live' = [live EXCEPT !["argument"] = @ + 2 * n]
        /\ call' = [NoCall EXCEPT !.op = "Info", !.arguments = 2 * n]
  OBVIOUS
<1>2. Types'
  <2>1. live' \in [Kind -> Int]
    <3>1. live["argument"] + 2 * n \in Int
      BY <1>1, MessagesAreNat DEF Kind
    <3> QED BY <1>1, <1>a, <3>1
  <2>2. call' \in Calls
    BY <1>0
  <2>3. pc' \in Steps
    BY <1>a DEF Steps
  <2>4. handle' \in {"none", "open", "freed"} /\ binding' \in [adapters : 0..1, mtmd : 0..1]
    BY <1>1, <1>a DEF Inv, Members, NewSteps, FreeSteps
  <2> QED BY <2>1, <2>2, <2>3, <2>4 DEF Types
<1>3. Control'
  BY <1>1, <1>a DEF Inv, Control, Calls, NewSteps, FreeSteps, InnerSteps, MediaSteps
<1>4. Members'
  BY <1>1, <1>a DEF Inv, Control, Members, Calls, NewSteps, FreeSteps, InnerSteps, MediaSteps
<1>5. HandleCounts'
  BY <1>1, <1>a DEF Inv, Control, Members, HandleCounts, HasModel, HasContext, HasBinding, If, Kind, NewSteps, FreeSteps, InnerSteps, MediaSteps
<1>6. CallCounts'
  BY <1>1, <1>a, SMTT(40) DEF Inv, Control, CallCounts, Calls, Kind, NewSteps, FreeSteps, InnerSteps, MediaSteps
<1>7. InnerCounts'
  BY <1>1, <1>a DEF Inv, Control, InnerCounts, If, Calls, Kind, NewSteps, FreeSteps, InnerSteps, MediaSteps
<1> QED BY <1>2, <1>3, <1>4, <1>5, <1>6, <1>7 DEF Inv

\* Saving and loading take two strings.
LEMMA CallStateKeeps ==
  ASSUME Inv, CallState
  PROVE  Inv'
<1>0. call' \in Calls
  <2>1. "State" \in Operations
    BY DEF Operations
  <2>2. call' = [NoCall EXCEPT !.op = "State", !.arguments = 2]
    BY DEF CallState
  <2> QED BY <2>1, <2>2, Begun
<1> USE DEF CallState, NoCall
<1>1. /\ live \in [Kind -> Int] /\ call \in Calls /\ binding \in [adapters : 0..1, mtmd : 0..1]
      /\ handle \in {"none", "open", "freed"}
  BY Zenon DEF Inv, Types
<1>2. Types'
  <2>1. live' \in [Kind -> Int]
    <3>1. live["argument"] + 2 \in Int
      BY <1>1, Kinds
    <3> QED BY <1>1, <3>1
  <2>2. call' \in Calls
    BY <1>0
  <2>3. pc' \in Steps
    BY DEF Steps
  <2>4. handle' \in {"none", "open", "freed"} /\ binding' \in [adapters : 0..1, mtmd : 0..1]
    BY <1>1 DEF Inv, Members, NewSteps, FreeSteps
  <2> QED BY <2>1, <2>2, <2>3, <2>4 DEF Types
<1>3. Control'
  BY <1>1 DEF Inv, Control, Calls, NewSteps, FreeSteps, InnerSteps, MediaSteps
<1>4. Members'
  BY <1>1 DEF Inv, Control, Members, Calls, NewSteps, FreeSteps, InnerSteps, MediaSteps
<1>5. HandleCounts'
  BY <1>1 DEF Inv, Control, Members, HandleCounts, HasModel, HasContext, HasBinding, If, Kind, NewSteps, FreeSteps, InnerSteps, MediaSteps
<1>6. CallCounts'
  BY <1>1 DEF Inv, Control, CallCounts, Calls, Kind, NewSteps, FreeSteps, InnerSteps, MediaSteps
<1>7. InnerCounts'
  BY <1>1 DEF Inv, Control, InnerCounts, If, Calls, Kind, NewSteps, FreeSteps, InnerSteps, MediaSteps
<1> QED BY <1>2, <1>3, <1>4, <1>5, <1>6, <1>7 DEF Inv

\* The four releases of llama_binding_free_model.
LEMMA FreeMtmdKeeps ==
  ASSUME Inv, FreeMtmd
  PROVE  Inv'
<1> USE DEF FreeMtmd, Release, Goto
<1>1. /\ live \in [Kind -> Int] /\ call \in Calls /\ binding \in [adapters : 0..1, mtmd : 0..1]
      /\ handle \in {"none", "open", "freed"}
  BY Zenon DEF Inv, Types
<1>2. Types'
  <2>1. live' \in [Kind -> Int]
    <3>1. binding.mtmd \in Int
      BY <1>1
    <3>2. live' = [live EXCEPT !["mtmd"] = live["mtmd"] - binding.mtmd]
      OBVIOUS
    <3>3. [live EXCEPT !["mtmd"] = live["mtmd"] - binding.mtmd] \in [Kind -> Int]
      BY <1>1, <3>1, Counted, Kinds
    <3> QED BY <3>2, <3>3, Zenon
  <2>2. call' \in Calls
    BY <1>1 DEF Calls, Operations
  <2>3. pc' \in Steps
    BY DEF Steps
  <2>4. handle' \in {"none", "open", "freed"} /\ binding' \in [adapters : 0..1, mtmd : 0..1]
    BY <1>1 DEF Inv, Members, NewSteps, FreeSteps
  <2> QED BY <2>1, <2>2, <2>3, <2>4 DEF Types
<1>3. Control'
  BY <1>1 DEF Inv, Control, Calls, NewSteps, FreeSteps, InnerSteps, MediaSteps
<1>4. Members'
  BY <1>1 DEF Inv, Control, Members, Calls, NewSteps, FreeSteps, InnerSteps, MediaSteps
<1>5. HandleCounts'
  BY <1>1 DEF Inv, Control, Members, HandleCounts, HasModel, HasContext, HasBinding, If, Kind, NewSteps, FreeSteps, InnerSteps, MediaSteps
<1>6. CallCounts'
  BY <1>1 DEF Inv, Control, CallCounts, Calls, Kind, NewSteps, FreeSteps, InnerSteps, MediaSteps
<1>7. InnerCounts'
  BY <1>1 DEF Inv, Control, InnerCounts, If, Calls, Kind, NewSteps, FreeSteps, InnerSteps, MediaSteps
<1> QED BY <1>2, <1>3, <1>4, <1>5, <1>6, <1>7 DEF Inv

\* The context goes while adapters and model are still there.
LEMMA FreeContextKeeps ==
  ASSUME Inv, FreeContext
  PROVE  Inv'
<1> USE DEF FreeContext, AfterContext, Release, Goto
<1>1. /\ live \in [Kind -> Int] /\ call \in Calls /\ binding \in [adapters : 0..1, mtmd : 0..1]
      /\ handle \in {"none", "open", "freed"}
  BY Zenon DEF Inv, Types
<1>2. Types'
  <2>1. live' \in [Kind -> Int]
    BY <1>1, Counted, Kinds
  <2>2. call' \in Calls
    BY <1>1 DEF Calls, Operations
  <2>3. pc' \in Steps
    BY DEF Steps
  <2>4. handle' \in {"none", "open", "freed"} /\ binding' \in [adapters : 0..1, mtmd : 0..1]
    BY <1>1 DEF Inv, Members, NewSteps, FreeSteps
  <2> QED BY <2>1, <2>2, <2>3, <2>4 DEF Types
<1>3. Control'
  BY <1>1 DEF Inv, Control, Calls, NewSteps, FreeSteps, InnerSteps, MediaSteps
<1>4. Members'
  BY <1>1 DEF Inv, Control, Members, Calls, NewSteps, FreeSteps, InnerSteps, MediaSteps
<1>5. HandleCounts'
  BY <1>1 DEF Inv, Control, Members, HandleCounts, HasModel, HasContext, HasBinding, If, Kind, NewSteps, FreeSteps, InnerSteps, MediaSteps
<1>6. CallCounts'
  BY <1>1 DEF Inv, Control, CallCounts, Calls, Kind, NewSteps, FreeSteps, InnerSteps, MediaSteps
<1>7. InnerCounts'
  BY <1>1 DEF Inv, Control, InnerCounts, If, Calls, Kind, NewSteps, FreeSteps, InnerSteps, MediaSteps
<1> QED BY <1>2, <1>3, <1>4, <1>5, <1>6, <1>7 DEF Inv

\* The adapters go while the model is still there.
LEMMA FreeAdaptersKeeps ==
  ASSUME Inv, FreeAdapters
  PROVE  Inv'
<1> USE DEF FreeAdapters, Release, Goto
<1>1. /\ live \in [Kind -> Int] /\ call \in Calls /\ binding \in [adapters : 0..1, mtmd : 0..1]
      /\ handle \in {"none", "open", "freed"}
  BY Zenon DEF Inv, Types
<1>2. Types'
  <2>1. live' \in [Kind -> Int]
    <3>1. binding.adapters \in Int
      BY <1>1
    <3>2. live' = [live EXCEPT !["adapter"] = live["adapter"] - binding.adapters]
      OBVIOUS
    <3>3. [live EXCEPT !["adapter"] = live["adapter"] - binding.adapters] \in [Kind -> Int]
      BY <1>1, <3>1, Counted, Kinds
    <3> QED BY <3>2, <3>3, Zenon
  <2>2. call' \in Calls
    BY <1>1 DEF Calls, Operations
  <2>3. pc' \in Steps
    BY DEF Steps
  <2>4. handle' \in {"none", "open", "freed"} /\ binding' \in [adapters : 0..1, mtmd : 0..1]
    BY <1>1 DEF Inv, Members, NewSteps, FreeSteps
  <2> QED BY <2>1, <2>2, <2>3, <2>4 DEF Types
<1>3. Control'
  BY <1>1 DEF Inv, Control, Calls, NewSteps, FreeSteps, InnerSteps, MediaSteps
<1>4. Members'
  BY <1>1 DEF Inv, Control, Members, Calls, NewSteps, FreeSteps, InnerSteps, MediaSteps
<1>5. HandleCounts'
  BY <1>1 DEF Inv, Control, Members, HandleCounts, HasModel, HasContext, HasBinding, If, Kind, NewSteps, FreeSteps, InnerSteps, MediaSteps
<1>6. CallCounts'
  BY <1>1 DEF Inv, Control, CallCounts, Calls, Kind, NewSteps, FreeSteps, InnerSteps, MediaSteps
<1>7. InnerCounts'
  BY <1>1 DEF Inv, Control, InnerCounts, If, Calls, Kind, NewSteps, FreeSteps, InnerSteps, MediaSteps
<1> QED BY <1>2, <1>3, <1>4, <1>5, <1>6, <1>7 DEF Inv

\* The model goes when nothing points into it.
LEMMA FreeModelKeeps ==
  ASSUME Inv, FreeModel
  PROVE  Inv'
<1> USE DEF FreeModel, Release, Goto
<1>1. /\ live \in [Kind -> Int] /\ call \in Calls /\ binding \in [adapters : 0..1, mtmd : 0..1]
      /\ handle \in {"none", "open", "freed"}
  BY Zenon DEF Inv, Types
<1>2. Types'
  <2>1. live' \in [Kind -> Int]
    BY <1>1, Counted, Kinds
  <2>2. call' \in Calls
    BY <1>1 DEF Calls, Operations
  <2>3. pc' \in Steps
    BY DEF Steps
  <2>4. handle' \in {"none", "open", "freed"} /\ binding' \in [adapters : 0..1, mtmd : 0..1]
    BY <1>1 DEF Inv, Members, NewSteps, FreeSteps
  <2> QED BY <2>1, <2>2, <2>3, <2>4 DEF Types
<1>3. Control'
  BY <1>1 DEF Inv, Control, Calls, NewSteps, FreeSteps, InnerSteps, MediaSteps
<1>4. Members'
  BY <1>1 DEF Inv, Control, Members, Calls, NewSteps, FreeSteps, InnerSteps, MediaSteps
<1>5. HandleCounts'
  BY <1>1 DEF Inv, Control, Members, HandleCounts, HasModel, HasContext, HasBinding, If, Kind, NewSteps, FreeSteps, InnerSteps, MediaSteps
<1>6. CallCounts'
  BY <1>1 DEF Inv, Control, CallCounts, Calls, Kind, NewSteps, FreeSteps, InnerSteps, MediaSteps
<1>7. InnerCounts'
  BY <1>1 DEF Inv, Control, InnerCounts, If, Calls, Kind, NewSteps, FreeSteps, InnerSteps, MediaSteps
<1> QED BY <1>2, <1>3, <1>4, <1>5, <1>6, <1>7 DEF Inv

\* Tokenization returns what it was given.
LEMMA EnterTokenizeKeeps ==
  ASSUME Inv, EnterTokenize
  PROVE  Inv'
<1> USE DEF EnterTokenize, FailSilently, Goto
<1>1. /\ live \in [Kind -> Int] /\ call \in Calls /\ binding \in [adapters : 0..1, mtmd : 0..1]
      /\ handle \in {"none", "open", "freed"}
  BY Zenon DEF Inv, Types
<1>2. Types'
  <2>1. live' \in [Kind -> Int]
    <3>1. live' = live
      OBVIOUS
    <3> QED BY <1>1, <3>1, Zenon
  <2>2. call' \in Calls
    <3>1. [call EXCEPT !.failed = TRUE] \in Calls
      BY <1>1 DEF Calls
    <3>2. call' = call \/ call' = [call EXCEPT !.failed = TRUE]
      OBVIOUS
    <3> QED BY <1>1, <3>1, <3>2, Zenon
  <2>3. pc' \in Steps
    BY DEF Steps
  <2>4. handle' \in {"none", "open", "freed"} /\ binding' \in [adapters : 0..1, mtmd : 0..1]
    BY <1>1 DEF Inv, Members, NewSteps, FreeSteps
  <2> QED BY <2>1, <2>2, <2>3, <2>4 DEF Types
<1>3. Control'
  BY <1>1 DEF Inv, Control, Calls, NewSteps, FreeSteps, InnerSteps, MediaSteps
<1>4. Members'
  BY <1>1 DEF Inv, Control, Members, Calls, NewSteps, FreeSteps, InnerSteps, MediaSteps
<1>5. HandleCounts'
  BY <1>1 DEF Inv, Control, Members, HandleCounts, HasModel, HasContext, HasBinding, If, Kind, NewSteps, FreeSteps, InnerSteps, MediaSteps
<1>6. CallCounts'
  BY <1>1, SMTT(40) DEF Inv, Control, CallCounts, Calls, Kind, NewSteps, FreeSteps, InnerSteps, MediaSteps
<1>7. InnerCounts'
  BY <1>1 DEF Inv, Control, InnerCounts, If, Calls, Kind, NewSteps, FreeSteps, InnerSteps, MediaSteps
<1> QED BY <1>2, <1>3, <1>4, <1>5, <1>6, <1>7 DEF Inv

\* Chunks are allocated once all media are loaded.
LEMMA InitChunksKeeps ==
  ASSUME Inv, InitChunks
  PROVE  Inv'
<1> USE DEF InitChunks, Allocate, Goto
<1>1. /\ live \in [Kind -> Int] /\ call \in Calls /\ binding \in [adapters : 0..1, mtmd : 0..1]
      /\ handle \in {"none", "open", "freed"}
  BY Zenon DEF Inv, Types
<1>2. Types'
  <2>1. live' \in [Kind -> Int]
    <3>1. live["chunks"] + 1 \in Int
      BY <1>1, Kinds, SMTT(40)
    <3> QED BY <1>1, <3>1
  <2>2. call' \in Calls
    BY <1>1 DEF Calls, Operations
  <2>3. pc' \in Steps
    BY DEF Steps
  <2>4. handle' \in {"none", "open", "freed"} /\ binding' \in [adapters : 0..1, mtmd : 0..1]
    BY <1>1 DEF Inv, Members, NewSteps, FreeSteps
  <2> QED BY <2>1, <2>2, <2>3, <2>4 DEF Types
<1>3. Control'
  BY <1>1 DEF Inv, Control, Calls, NewSteps, FreeSteps, InnerSteps, MediaSteps
<1>4. Members'
  BY <1>1 DEF Inv, Control, Members, Calls, NewSteps, FreeSteps, InnerSteps, MediaSteps
<1>5. HandleCounts'
  BY <1>1 DEF Inv, Control, Members, HandleCounts, HasModel, HasContext, HasBinding, If, Kind, NewSteps, FreeSteps, InnerSteps, MediaSteps
<1>6. CallCounts'
  BY <1>1 DEF Inv, Control, CallCounts, Calls, Kind, NewSteps, FreeSteps, InnerSteps, MediaSteps
<1>7. InnerCounts'
  BY <1>1 DEF Inv, Control, InnerCounts, If, Calls, Kind, NewSteps, FreeSteps, InnerSteps, MediaSteps
<1> QED BY <1>2, <1>3, <1>4, <1>5, <1>6, <1>7 DEF Inv

\* A sampler chain is allocated.
LEMMA CreateSamplerKeeps ==
  ASSUME Inv, CreateSampler
  PROVE  Inv'
<1> USE DEF CreateSampler, Allocate, Goto
<1>1. /\ live \in [Kind -> Int] /\ call \in Calls /\ binding \in [adapters : 0..1, mtmd : 0..1]
      /\ handle \in {"none", "open", "freed"}
  BY Zenon DEF Inv, Types
<1>2. Types'
  <2>1. live' \in [Kind -> Int]
    BY <1>1, Counted, Kinds
  <2>2. call' \in Calls
    BY <1>1 DEF Calls, Operations
  <2>3. pc' \in Steps
    BY DEF Steps
  <2>4. handle' \in {"none", "open", "freed"} /\ binding' \in [adapters : 0..1, mtmd : 0..1]
    BY <1>1 DEF Inv, Members, NewSteps, FreeSteps
  <2> QED BY <2>1, <2>2, <2>3, <2>4 DEF Types
<1>3. Control'
  BY <1>1 DEF Inv, Control, Calls, NewSteps, FreeSteps, InnerSteps, MediaSteps
<1>4. Members'
  BY <1>1 DEF Inv, Control, Members, Calls, NewSteps, FreeSteps, InnerSteps, MediaSteps
<1>5. HandleCounts'
  BY <1>1 DEF Inv, Control, Members, HandleCounts, HasModel, HasContext, HasBinding, If, Kind, NewSteps, FreeSteps, InnerSteps, MediaSteps
<1>6. CallCounts'
  BY <1>1 DEF Inv, Control, CallCounts, Calls, Kind, NewSteps, FreeSteps, InnerSteps, MediaSteps
<1>7. InnerCounts'
  BY <1>1 DEF Inv, Control, InnerCounts, If, Calls, Kind, NewSteps, FreeSteps, InnerSteps, MediaSteps
<1> QED BY <1>2, <1>3, <1>4, <1>5, <1>6, <1>7 DEF Inv

\* Saving and loading allocate nothing on the C side.
LEMMA SaveOrLoadKeeps ==
  ASSUME Inv, SaveOrLoad
  PROVE  Inv'
<1> USE DEF SaveOrLoad, FailSilently, Goto
<1>1. /\ live \in [Kind -> Int] /\ call \in Calls /\ binding \in [adapters : 0..1, mtmd : 0..1]
      /\ handle \in {"none", "open", "freed"}
  BY Zenon DEF Inv, Types
<1>2. Types'
  <2>1. live' \in [Kind -> Int]
    BY <1>1, Counted, Kinds
  <2>2. call' \in Calls
    <3>1. [call EXCEPT !.failed = TRUE] \in Calls
      BY <1>1 DEF Calls
    <3>2. call' = call \/ call' = [call EXCEPT !.failed = TRUE]
      OBVIOUS
    <3> QED BY <1>1, <3>1, <3>2, Zenon
  <2>3. pc' \in Steps
    BY DEF Steps
  <2>4. handle' \in {"none", "open", "freed"} /\ binding' \in [adapters : 0..1, mtmd : 0..1]
    BY <1>1 DEF Inv, Members, NewSteps, FreeSteps
  <2> QED BY <2>1, <2>2, <2>3, <2>4 DEF Types
<1>3. Control'
  BY <1>1 DEF Inv, Control, Calls, NewSteps, FreeSteps, InnerSteps, MediaSteps
<1>4. Members'
  BY <1>1 DEF Inv, Control, Members, Calls, NewSteps, FreeSteps, InnerSteps, MediaSteps
<1>5. HandleCounts'
  BY <1>1 DEF Inv, Control, Members, HandleCounts, HasModel, HasContext, HasBinding, If, Kind, NewSteps, FreeSteps, InnerSteps, MediaSteps
<1>6. CallCounts'
  BY <1>1 DEF Inv, Control, CallCounts, Calls, Kind, NewSteps, FreeSteps, InnerSteps, MediaSteps
<1>7. InnerCounts'
  BY <1>1 DEF Inv, Control, InnerCounts, If, Calls, Kind, NewSteps, FreeSteps, InnerSteps, MediaSteps
<1> QED BY <1>2, <1>3, <1>4, <1>5, <1>6, <1>7 DEF Inv

\* Steps that allocate and release nothing.
LEMMA MoveKeeps ==
  ASSUME Inv, UNCHANGED live, NEW next, Goto(next),
         \/ pc = "devices" /\ next = "model"
         \/ pc = "enter" /\ handle = "open" /\ next \in {"prompt", "eval", "batch"}
         \/ pc = "enter" /\ handle = "open" /\ binding.mtmd # 0 /\ next = "media"
         \/ pc = "prompt" /\ next = "sampler"
         \/ pc = "eval" /\ next = "return"
         \/ pc = "tokenize_media" /\ next = "eval_chunks"
         \/ pc = "grammar" /\ next = "generate"
  PROVE  Inv'
<1> USE DEF Goto
<1>1. /\ live \in [Kind -> Int] /\ call \in Calls /\ binding \in [adapters : 0..1, mtmd : 0..1]
      /\ handle \in {"none", "open", "freed"}
  BY Zenon DEF Inv, Types
<1>2. Types'
  <2>1. live' \in [Kind -> Int]
    BY <1>1, Counted, Kinds
  <2>2. call' \in Calls
    BY <1>1 DEF Calls, Operations
  <2>3. pc' \in Steps
    BY DEF Steps
  <2>4. handle' \in {"none", "open", "freed"} /\ binding' \in [adapters : 0..1, mtmd : 0..1]
    BY <1>1 DEF Inv, Members, NewSteps, FreeSteps
  <2> QED BY <2>1, <2>2, <2>3, <2>4 DEF Types
<1>3. Control'
  BY <1>1 DEF Inv, Control, Calls, NewSteps, FreeSteps, InnerSteps, MediaSteps
<1>4. Members'
  BY <1>1 DEF Inv, Control, Members, Calls, NewSteps, FreeSteps, InnerSteps, MediaSteps
<1>5. HandleCounts'
  BY <1>1 DEF Inv, Control, Members, HandleCounts, HasModel, HasContext, HasBinding, If, Kind, NewSteps, FreeSteps, InnerSteps, MediaSteps
<1>6. CallCounts'
  BY <1>1 DEF Inv, Control, CallCounts, Calls, Kind, NewSteps, FreeSteps, InnerSteps, MediaSteps
<1>7. InnerCounts'
  BY <1>1 DEF Inv, Control, Members, InnerCounts, If, Calls, Kind, NewSteps, FreeSteps, InnerSteps, MediaSteps
<1> QED BY <1>2, <1>3, <1>4, <1>5, <1>6, <1>7 DEF Inv

\* The model is loaded.
LEMMA AllocateModelKeeps ==
  ASSUME Inv, pc = "model", Allocate("model"), Goto("context")
  PROVE  Inv'
<1> USE DEF Allocate, Goto
<1>1. /\ live \in [Kind -> Int] /\ call \in Calls /\ binding \in [adapters : 0..1, mtmd : 0..1]
      /\ handle \in {"none", "open", "freed"}
  BY Zenon DEF Inv, Types
<1>2. Types'
  <2>1. live' \in [Kind -> Int]
    <3>1. live["model"] + 1 \in Int
      BY <1>1, Kinds
    <3> QED BY <1>1, <3>1
  <2>2. call' \in Calls
    BY <1>1 DEF Calls, Operations
  <2>3. pc' \in Steps
    BY DEF Steps
  <2>4. handle' \in {"none", "open", "freed"} /\ binding' \in [adapters : 0..1, mtmd : 0..1]
    BY <1>1 DEF Inv, Members, NewSteps, FreeSteps
  <2> QED BY <2>1, <2>2, <2>3, <2>4 DEF Types
<1>3. Control'
  BY <1>1 DEF Inv, Control, Calls, NewSteps, FreeSteps, InnerSteps, MediaSteps
<1>4. Members'
  BY <1>1 DEF Inv, Control, Members, Calls, NewSteps, FreeSteps, InnerSteps, MediaSteps
<1>5. HandleCounts'
  BY <1>1 DEF Inv, Control, Members, HandleCounts, HasModel, HasContext, HasBinding, If, Kind, NewSteps, FreeSteps, InnerSteps, MediaSteps
<1>6. CallCounts'
  BY <1>1 DEF Inv, Control, CallCounts, Calls, Kind, NewSteps, FreeSteps, InnerSteps, MediaSteps
<1>7. InnerCounts'
  BY <1>1 DEF Inv, Control, InnerCounts, If, Calls, Kind, NewSteps, FreeSteps, InnerSteps, MediaSteps
<1> QED BY <1>2, <1>3, <1>4, <1>5, <1>6, <1>7 DEF Inv

\* The context is created, and with it the binding's own struct.
LEMMA AllocateContextKeeps ==
  ASSUME Inv, pc = "context", Goto("lora"),
         live' = [live EXCEPT !["ctx"] = @ + 1, !["binding"] = @ + 1]
  PROVE  Inv'
<1> USE DEF Goto
<1>1. /\ live \in [Kind -> Int] /\ call \in Calls /\ binding \in [adapters : 0..1, mtmd : 0..1]
      /\ handle \in {"none", "open", "freed"}
  BY Zenon DEF Inv, Types
<1>2. Types'
  <2>1. live' \in [Kind -> Int]
    <3>1. live["ctx"] + 1 \in Int /\ live["binding"] + 1 \in Int
      BY <1>1, Kinds
    <3> QED BY <1>1, <3>1
  <2>2. call' \in Calls
    BY <1>1 DEF Calls, Operations
  <2>3. pc' \in Steps
    BY DEF Steps
  <2>4. handle' \in {"none", "open", "freed"} /\ binding' \in [adapters : 0..1, mtmd : 0..1]
    BY <1>1 DEF Inv, Members, NewSteps, FreeSteps
  <2> QED BY <2>1, <2>2, <2>3, <2>4 DEF Types
<1>3. Control'
  BY <1>1 DEF Inv, Control, Calls, NewSteps, FreeSteps, InnerSteps, MediaSteps
<1>4. Members'
  BY <1>1 DEF Inv, Control, Members, Calls, NewSteps, FreeSteps, InnerSteps, MediaSteps
<1>5. HandleCounts'
  BY <1>1 DEF Inv, Control, Members, HandleCounts, HasModel, HasContext, HasBinding, If, Kind, NewSteps, FreeSteps, InnerSteps, MediaSteps
<1>6. CallCounts'
  BY <1>1 DEF Inv, Control, CallCounts, Calls, Kind, NewSteps, FreeSteps, InnerSteps, MediaSteps
<1>7. InnerCounts'
  BY <1>1 DEF Inv, Control, InnerCounts, If, Calls, Kind, NewSteps, FreeSteps, InnerSteps, MediaSteps
<1> QED BY <1>2, <1>3, <1>4, <1>5, <1>6, <1>7 DEF Inv

\* The batch of an embedding.
LEMMA AllocateBatchKeeps ==
  ASSUME Inv, pc = "batch", Allocate("batch"), Goto("decode_batch")
  PROVE  Inv'
<1> USE DEF Allocate, Goto
<1>1. /\ live \in [Kind -> Int] /\ call \in Calls /\ binding \in [adapters : 0..1, mtmd : 0..1]
      /\ handle \in {"none", "open", "freed"}
  BY Zenon DEF Inv, Types
<1>2. Types'
  <2>1. live' \in [Kind -> Int]
    <3>1. live["batch"] + 1 \in Int
      BY <1>1, Kinds
    <3> QED BY <1>1, <3>1
  <2>2. call' \in Calls
    BY <1>1 DEF Calls, Operations
  <2>3. pc' \in Steps
    BY DEF Steps
  <2>4. handle' \in {"none", "open", "freed"} /\ binding' \in [adapters : 0..1, mtmd : 0..1]
    BY <1>1 DEF Inv, Members, NewSteps, FreeSteps
  <2> QED BY <2>1, <2>2, <2>3, <2>4 DEF Types
<1>3. Control'
  BY <1>1 DEF Inv, Control, Calls, NewSteps, FreeSteps, InnerSteps, MediaSteps
<1>4. Members'
  BY <1>1 DEF Inv, Control, Members, Calls, NewSteps, FreeSteps, InnerSteps, MediaSteps
<1>5. HandleCounts'
  BY <1>1 DEF Inv, Control, Members, HandleCounts, HasModel, HasContext, HasBinding, If, Kind, NewSteps, FreeSteps, InnerSteps, MediaSteps
<1>6. CallCounts'
  BY <1>1 DEF Inv, Control, CallCounts, Calls, Kind, NewSteps, FreeSteps, InnerSteps, MediaSteps
<1>7. InnerCounts'
  BY <1>1 DEF Inv, Control, InnerCounts, If, Calls, Kind, NewSteps, FreeSteps, InnerSteps, MediaSteps
<1> QED BY <1>2, <1>3, <1>4, <1>5, <1>6, <1>7 DEF Inv

\* The batch is freed whether or not it could be decoded.
LEMMA ReleaseBatchKeeps ==
  ASSUME Inv, pc = "decode_batch", Release("batch", 1, "return")
  PROVE  Inv'
<1> USE DEF Release, Goto
<1>1. /\ live \in [Kind -> Int] /\ call \in Calls /\ binding \in [adapters : 0..1, mtmd : 0..1]
      /\ handle \in {"none", "open", "freed"}
  BY Zenon DEF Inv, Types
<1>2. Types'
  <2>1. live' \in [Kind -> Int]
    <3>1. live["batch"] - 1 \in Int
      BY <1>1, Kinds
    <3> QED BY <1>1, <3>1
  <2>2. call' \in Calls
    BY <1>1 DEF Calls, Operations
  <2>3. pc' \in Steps
    BY DEF Steps
  <2>4. handle' \in {"none", "open", "freed"} /\ binding' \in [adapters : 0..1, mtmd : 0..1]
    BY <1>1 DEF Inv, Members, NewSteps, FreeSteps
  <2> QED BY <2>1, <2>2, <2>3, <2>4 DEF Types
<1>3. Control'
  BY <1>1 DEF Inv, Control, Calls, NewSteps, FreeSteps, InnerSteps, MediaSteps
<1>4. Members'
  BY <1>1 DEF Inv, Control, Members, Calls, NewSteps, FreeSteps, InnerSteps, MediaSteps
<1>5. HandleCounts'
  BY <1>1 DEF Inv, Control, Members, HandleCounts, HasModel, HasContext, HasBinding, If, Kind, NewSteps, FreeSteps, InnerSteps, MediaSteps
<1>6. CallCounts'
  BY <1>1 DEF Inv, Control, CallCounts, Calls, Kind, NewSteps, FreeSteps, InnerSteps, MediaSteps
<1>7. InnerCounts'
  BY <1>1 DEF Inv, Control, InnerCounts, If, Calls, Kind, NewSteps, FreeSteps, InnerSteps, MediaSteps
<1> QED BY <1>2, <1>3, <1>4, <1>5, <1>6, <1>7 DEF Inv

\* The sampler is freed after a generation.
LEMMA ReleaseSamplerKeeps ==
  ASSUME Inv, pc = "generate", Release("sampler", 1, "result")
  PROVE  Inv'
<1> USE DEF Release, Goto
<1>1. /\ live \in [Kind -> Int] /\ call \in Calls /\ binding \in [adapters : 0..1, mtmd : 0..1]
      /\ handle \in {"none", "open", "freed"}
  BY Zenon DEF Inv, Types
<1>2. Types'
  <2>1. live' \in [Kind -> Int]
    <3>1. live["sampler"] - 1 \in Int
      BY <1>1, Kinds
    <3> QED BY <1>1, <3>1
  <2>2. call' \in Calls
    BY <1>1 DEF Calls, Operations
  <2>3. pc' \in Steps
    BY DEF Steps
  <2>4. handle' \in {"none", "open", "freed"} /\ binding' \in [adapters : 0..1, mtmd : 0..1]
    BY <1>1 DEF Inv, Members, NewSteps, FreeSteps
  <2> QED BY <2>1, <2>2, <2>3, <2>4 DEF Types
<1>3. Control'
  BY <1>1 DEF Inv, Control, Calls, NewSteps, FreeSteps, InnerSteps, MediaSteps
<1>4. Members'
  BY <1>1 DEF Inv, Control, Members, Calls, NewSteps, FreeSteps, InnerSteps, MediaSteps
<1>5. HandleCounts'
  BY <1>1 DEF Inv, Control, Members, HandleCounts, HasModel, HasContext, HasBinding, If, Kind, NewSteps, FreeSteps, InnerSteps, MediaSteps
<1>6. CallCounts'
  BY <1>1 DEF Inv, Control, CallCounts, Calls, Kind, NewSteps, FreeSteps, InnerSteps, MediaSteps
<1>7. InnerCounts'
  BY <1>1 DEF Inv, Control, InnerCounts, If, Calls, Kind, NewSteps, FreeSteps, InnerSteps, MediaSteps
<1> QED BY <1>2, <1>3, <1>4, <1>5, <1>6, <1>7 DEF Inv

\* A failure before anything was allocated.
LEMMA NothingReleased ==
  ASSUME Inv, Fail(None), pc \in {"devices", "model", "enter", "prompt", "eval", "batch"}
  PROVE  Inv'
<1>1. None \in [Kind -> Int]
  BY DEF None
<1>2. \A k \in {"bitmap", "video", "chunks", "sampler", "batch"} : live[k] = 0
  BY DEF Inv, InnerCounts, If, MediaSteps
<1>3. \A k \in Kind : None[k] =
        IF k = "model" THEN If(pc = "context")
        ELSE IF k \in {"bitmap", "video", "chunks", "sampler", "batch"} THEN live[k] ELSE 0
  BY <1>2 DEF None, If
<1> QED BY <1>1, <1>3, FailKeeps DEF InnerSteps

\* A failure with one object in hand.
LEMMA OneReleased ==
  ASSUME Inv, NEW kind, Fail(OneOf({kind})),
         \/ pc = "context" /\ kind = "model"
         \/ pc = "decode_batch" /\ kind = "batch"
         \/ pc \in {"grammar", "generate"} /\ kind = "sampler"
  PROVE  Inv'
<1>1. OneOf({kind}) \in [Kind -> Int]
  BY DEF OneOf
<1>2. \A k \in {"bitmap", "video", "chunks", "sampler", "batch"} : live[k] = If(k = kind)
  BY DEF Inv, InnerCounts, If, MediaSteps
<1>3. \A k \in Kind : OneOf({kind})[k] =
        IF k = "model" THEN If(pc = "context")
        ELSE IF k \in {"bitmap", "video", "chunks", "sampler", "batch"} THEN live[k] ELSE 0
  BY <1>2 DEF OneOf, If
<1> QED BY <1>1, <1>3, FailKeeps DEF InnerSteps, MediaSteps

\* release_media, with the chunks once there are any, gives back everything a
\* media prompt holds.
LEMMA MediaReleased ==
  ASSUME Inv
  PROVE  /\ release_media \in [Kind -> Int] /\ ChunksAndMedia \in [Kind -> Int]
         /\ pc = "media" => \A k \in Kind : release_media[k] =
               IF k \in {"bitmap", "video", "chunks", "sampler", "batch"} THEN live[k] ELSE 0
         /\ pc \in {"tokenize_media", "eval_chunks"} => \A k \in Kind : ChunksAndMedia[k] =
               IF k \in {"bitmap", "video", "chunks", "sampler", "batch"} THEN live[k] ELSE 0
<1>1. call.bitmaps \in Nat /\ call.videos \in Nat
  BY DEF Inv, Types, Calls
<1>2. release_media \in [Kind -> Int]
  BY <1>1 DEF release_media
<1>3. OneOf({"chunks"}) \in [Kind -> Int]
  BY DEF OneOf
<1>4. ChunksAndMedia \in [Kind -> Int]
  BY <1>2, <1>3 DEF ChunksAndMedia
<1>5. /\ pc \in MediaSteps =>
           live["bitmap"] = call.bitmaps /\ live["video"] = call.videos /\ live["sampler"] = 0 /\ live["batch"] = 0
      /\ pc = "media" => live["chunks"] = 0
      /\ pc \in {"tokenize_media", "eval_chunks"} => live["chunks"] = 1
  BY DEF Inv, InnerCounts, If, MediaSteps
<1>6. pc = "media" => \A k \in Kind : release_media[k] =
               IF k \in {"bitmap", "video", "chunks", "sampler", "batch"} THEN live[k] ELSE 0
  BY <1>5 DEF release_media, Kind, MediaSteps
<1>7. pc \in {"tokenize_media", "eval_chunks"} => \A k \in Kind : ChunksAndMedia[k] =
               IF k \in {"bitmap", "video", "chunks", "sampler", "batch"} THEN live[k] ELSE 0
  <2>1. \A k \in Kind : ChunksAndMedia[k] = release_media[k] + OneOf({"chunks"})[k]
    BY DEF ChunksAndMedia
  <2>2. \A k \in Kind : release_media[k] =
            IF k = "bitmap" THEN call.bitmaps ELSE IF k = "video" THEN call.videos ELSE 0
    BY DEF release_media
  <2>3. \A k \in Kind : OneOf({"chunks"})[k] = IF k = "chunks" THEN 1 ELSE 0
    BY DEF OneOf
  <2> QED BY <1>1, <1>5, <2>1, <2>2, <2>3 DEF Kind, MediaSteps
<1> QED BY <1>2, <1>4, <1>6, <1>7

\* A failure with media in hand.
LEMMA MediaFails ==
  ASSUME Inv, \/ pc = "media" /\ Fail(release_media)
              \/ pc \in {"tokenize_media", "eval_chunks"} /\ Fail(ChunksAndMedia)
  PROVE  Inv'
  BY MediaReleased, FailKeeps DEF InnerSteps, MediaSteps, If

\* The media are given back once the context has evaluated them.
LEMMA MediaEnds ==
  ASSUME Inv, pc = "eval_chunks", live' = [k \in Kind |-> live[k] - ChunksAndMedia[k]], Goto("sampler")
  PROVE  Inv'
<1>1. /\ live \in [Kind -> Int] /\ call \in Calls
      /\ binding \in [adapters : 0..1, mtmd : 0..1]
      /\ handle \in {"none", "open", "freed"}
  BY Zenon DEF Inv, Types
<1>2. \A k \in Kind : live'[k] =
        IF k \in {"bitmap", "video", "chunks", "sampler", "batch"} THEN 0 ELSE live[k]
  BY <1>1, MediaReleased
<1>3. live' \in [Kind -> Int]
  BY <1>1, MediaReleased
<1>4. pc' = "sampler" /\ UNCHANGED <<handle, binding, call>>
  BY DEF Goto
<1>5. Types'
  BY <1>1, <1>3, <1>4 DEF Types, Steps
<1>6. Control' /\ Members'
  BY <1>4 DEF Inv, Control, Members, NewSteps, FreeSteps, InnerSteps, MediaSteps
<1>7. HandleCounts'
  BY <1>2, <1>4 DEF Inv, Control, HandleCounts, HasModel, HasContext, HasBinding, If, Kind, FreeSteps,
     InnerSteps, MediaSteps
<1>8. CallCounts'
  BY <1>2, <1>4 DEF Inv, CallCounts, Kind
<1>9. InnerCounts'
  BY <1>2, <1>4 DEF InnerCounts, If, Kind, MediaSteps
<1> QED BY <1>5, <1>6, <1>7, <1>8, <1>9 DEF Inv

\* One more image, possibly a frame of a video.
LEMMA BitmapLoaded ==
  ASSUME Inv, pc = "media", NEW video \in 0..1,
         live' = [live EXCEPT !["bitmap"] = @ + 1, !["video"] = @ + video],
         call' = [call EXCEPT !.bitmaps = @ + 1, !.videos = @ + video],
         UNCHANGED <<handle, binding, pc>>
  PROVE  Inv'
<1>1. /\ live \in [Kind -> Int] /\ call \in Calls
      /\ binding \in [adapters : 0..1, mtmd : 0..1]
      /\ handle \in {"none", "open", "freed"}
  BY Zenon DEF Inv, Types
<1>2. /\ live' \in [Kind -> Int]
      /\ live'["bitmap"] = live["bitmap"] + 1 /\ live'["video"] = live["video"] + video
      /\ \A k \in Kind \ {"bitmap", "video"} : live'[k] = live[k]
  BY <1>1 DEF Kind
<1>3. /\ call'.op = call.op /\ call'.failed = call.failed /\ call'.cerr = call.cerr /\ call'.out = call.out
      /\ call'.arguments = call.arguments /\ call'.params = call.params
      /\ call'.bitmaps = call.bitmaps + 1 /\ call'.videos = call.videos + video
      /\ call' \in Calls
  <2>1. call.bitmaps + 1 \in Nat /\ call.videos + video \in Nat
    BY <1>1 DEF Calls
  <2> QED BY <1>1, <2>1 DEF Calls
<1>4. Types'
  BY <1>1, <1>2, <1>3 DEF Inv, Types
<1>5. Control' /\ Members'
  BY <1>3 DEF Inv, Control, Members, NewSteps, FreeSteps, InnerSteps, MediaSteps
<1>6. HandleCounts'
  BY <1>2 DEF Inv, Control, HandleCounts, HasModel, HasContext, HasBinding, If, Kind, FreeSteps,
     InnerSteps, MediaSteps
<1>7. CallCounts'
  BY <1>2, <1>3 DEF Inv, CallCounts, Kind
<1>8. InnerCounts'
  BY <1>2, <1>3 DEF Inv, InnerCounts, If, Kind, MediaSteps
<1> QED BY <1>4, <1>5, <1>6, <1>7, <1>8 DEF Inv

\* A call that takes prediction options.
LEMMA WithParamsKeeps ==
  ASSUME Inv, NEW op \in {"Predict", "Eval", "TokenizeString", "Embeddings", "TokenEmbeddings"},
         NEW opts \in PredictChoices, NEW extra \in Nat, pc = "idle", handle # "none", WithParams(op, opts, extra)
  PROVE  Inv'
<1> DEFINE strings == StringsOf(NewPredictOptions(opts)) + extra
           biases == BiasesOf(opts)
<1>1. /\ live' = [live EXCEPT !["argument"] = @ + strings, !["params"] = @ + 1]
      /\ call' = [NoCall EXCEPT !.op = op, !.opts = opts, !.params = 1, !.arguments = strings, !.biases = biases]
      /\ pc' = "enter" /\ UNCHANGED <<handle, binding>>
  <2>1. live' = [live EXCEPT !["argument"] = @ + StringsOf(NewPredictOptions(opts)) + extra, !["params"] = @ + 1]
    BY DEF WithParams
  <2>2. live["argument"] + StringsOf(NewPredictOptions(opts)) + extra = live["argument"] + strings
    BY StringsAreNat DEF Inv, Types, Kind
  <2> QED BY <2>1, <2>2 DEF WithParams, BiasesOf
<1>2. strings \in Nat
  BY StringsAreNat
<1>3. biases \in {BiasesOf(o) : o \in PredictChoices}
  OBVIOUS
<1> HIDE DEF strings, biases
<1>4. /\ call' \in Calls /\ call'.arguments = strings /\ call'.params = 1 /\ call'.cerr = 0 /\ call'.out = 0
      /\ call'.failed = FALSE /\ call'.bitmaps = 0 /\ call'.videos = 0
  <2>1. NoCall \in Calls
    BY DEF NoCall, Calls, Operations
  <2>2. call' \in Calls
    <3> DEFINE Allowed == {<<>>} \cup {BiasesOf(o) : o \in PredictChoices}
    <3>1. biases \in Allowed /\ op \in Operations
      BY <1>3 DEF Operations
    <3>2. Calls = [op : Operations, opts : ModelChoices \cup PredictChoices \cup {<<>>}, biases : Allowed,
                   arguments : Nat, params : 0..1, failed : BOOLEAN, cerr : 0..1, out : 0..1,
                   bitmaps : Nat, videos : Nat]
      BY Zenon DEF Calls
    <3> HIDE DEF Allowed
    <3>3. opts \in ModelChoices \cup PredictChoices \cup {<<>>} /\ 1 \in 0..1
      OBVIOUS
    <3>4. [NoCall EXCEPT !.op = op, !.opts = opts, !.params = 1] \in Calls
      BY <2>1, <3>1, <3>2, <3>3
    <3>5. [NoCall EXCEPT !.op = op, !.opts = opts, !.params = 1, !.arguments = strings] \in Calls
      BY <1>2, <3>2, <3>4
    <3>6. [NoCall EXCEPT !.op = op, !.opts = opts, !.params = 1, !.arguments = strings, !.biases = biases] \in Calls
      BY <3>1, <3>2, <3>5
    <3> QED BY Zenon, <1>1, <3>6
  <2> QED BY <1>1, <2>2 DEF NoCall
<1>5. /\ live \in [Kind -> Int] /\ call = NoCall
      /\ binding \in [adapters : 0..1, mtmd : 0..1]
      /\ handle \in {"none", "open", "freed"}
  BY Zenon DEF Inv, Types, Control
<1>6. call.arguments = 0 /\ call.params = 0 /\ call.cerr = 0 /\ call.out = 0
  BY <1>5 DEF NoCall
<1>7. /\ live' \in [Kind -> Int]
      /\ live'["argument"] = live["argument"] + strings /\ live'["params"] = live["params"] + 1
      /\ \A k \in Kind \ {"argument", "params"} : live'[k] = live[k]
  BY <1>1, <1>2, <1>5 DEF Kind
<1>8. Types'
  BY <1>1, <1>4, <1>5, <1>7 DEF Types, Steps
<1>9. Control' /\ Members'
  BY <1>1, <1>4, <1>5 DEF Inv, Control, Members, NewSteps, FreeSteps, InnerSteps, MediaSteps
<1>10. HandleCounts'
  BY <1>1, <1>7 DEF Inv, Control, HandleCounts, HasModel, HasContext, HasBinding, If, Kind, FreeSteps
<1>11. CallCounts'
  BY <1>2, <1>4, <1>6, <1>7 DEF Inv, CallCounts, Kind
<1>12. InnerCounts'
  BY <1>1, <1>7 DEF Inv, InnerCounts, If, Kind, MediaSteps
<1> QED BY <1>8, <1>9, <1>10, <1>11, <1>12 DEF Inv

\* A call that ends without a message.
LEMMA SilentKeeps ==
  ASSUME Inv, FailSilently, \/ pc = "enter" \/ pc = "result" \/ pc = "state"
  PROVE  Inv'
<1> USE DEF FailSilently
<1>1. /\ live \in [Kind -> Int] /\ call \in Calls /\ binding \in [adapters : 0..1, mtmd : 0..1]
      /\ handle \in {"none", "open", "freed"}
  BY Zenon DEF Inv, Types
<1>2. Types'
  <2>1. live' \in [Kind -> Int]
    BY <1>1, Counted, Kinds
  <2>2. call' \in Calls
    BY <1>1 DEF Calls, Operations
  <2>3. pc' \in Steps
    BY DEF Steps
  <2>4. handle' \in {"none", "open", "freed"} /\ binding' \in [adapters : 0..1, mtmd : 0..1]
    BY <1>1 DEF Inv, Members, NewSteps, FreeSteps
  <2> QED BY <2>1, <2>2, <2>3, <2>4 DEF Types
<1>3. Control'
  BY <1>1 DEF Inv, Control, Calls, NewSteps, FreeSteps, InnerSteps, MediaSteps
<1>4. Members'
  BY <1>1 DEF Inv, Control, Members, Calls, NewSteps, FreeSteps, InnerSteps, MediaSteps
<1>5. HandleCounts'
  BY <1>1 DEF Inv, Control, Members, HandleCounts, HasModel, HasContext, HasBinding, If, Kind, NewSteps, FreeSteps, InnerSteps, MediaSteps
<1>6. CallCounts'
  BY <1>1 DEF Inv, Control, CallCounts, Calls, Kind, NewSteps, FreeSteps, InnerSteps, MediaSteps
<1>7. InnerCounts'
  BY <1>1 DEF Inv, Control, InnerCounts, If, Calls, Kind, NewSteps, FreeSteps, InnerSteps, MediaSteps
<1> QED BY <1>2, <1>3, <1>4, <1>5, <1>6, <1>7 DEF Inv

\* The result is copied for Go.
LEMMA ResultCopiedKeeps ==
  ASSUME Inv, pc = "result", Allocate("result"), call' = [call EXCEPT !.out = 1],
         pc' = "return", UNCHANGED <<handle, binding>>
  PROVE  Inv'
<1> USE DEF Allocate
<1>1. /\ live \in [Kind -> Int] /\ call \in Calls /\ binding \in [adapters : 0..1, mtmd : 0..1]
      /\ handle \in {"none", "open", "freed"}
  BY Zenon DEF Inv, Types
<1>2. Types'
  <2>1. live' \in [Kind -> Int]
    <3>1. live["result"] + 1 \in Int
      BY <1>1, Kinds
    <3> QED BY <1>1, <3>1
  <2>2. call' \in Calls
    BY <1>1, SMTT(40) DEF Calls, Operations
  <2>3. pc' \in Steps
    BY DEF Steps
  <2>4. handle' \in {"none", "open", "freed"} /\ binding' \in [adapters : 0..1, mtmd : 0..1]
    BY <1>1 DEF Inv, Members, NewSteps, FreeSteps
  <2> QED BY <2>1, <2>2, <2>3, <2>4 DEF Types
<1>3. Control'
  BY <1>1 DEF Inv, Control, Calls, NewSteps, FreeSteps, InnerSteps, MediaSteps
<1>4. Members'
  BY <1>1 DEF Inv, Control, Members, Calls, NewSteps, FreeSteps, InnerSteps, MediaSteps
<1>5. HandleCounts'
  BY <1>1 DEF Inv, Control, Members, HandleCounts, HasModel, HasContext, HasBinding, If, Kind, NewSteps, FreeSteps, InnerSteps, MediaSteps
<1>6. CallCounts'
  BY <1>1 DEF Inv, Control, CallCounts, Calls, Kind, NewSteps, FreeSteps, InnerSteps, MediaSteps
<1>7. InnerCounts'
  BY <1>1 DEF Inv, Control, InnerCounts, If, Calls, Kind, NewSteps, FreeSteps, InnerSteps, MediaSteps
<1> QED BY <1>2, <1>3, <1>4, <1>5, <1>6, <1>7 DEF Inv

\* The deferred frees of the Go side: message or result, arguments and parameters.
LEMMA ReturnKeeps ==
  ASSUME Inv, Return
  PROVE  Inv'
<1>1. /\ live \in [Kind -> Int] /\ call \in Calls
      /\ binding \in [adapters : 0..1, mtmd : 0..1]
      /\ handle \in {"none", "open", "freed"}
  BY Zenon DEF Inv, Types
<1>2. /\ pc = "return" /\ pc' = "idle" /\ call' = NoCall /\ UNCHANGED <<handle, binding>>
      /\ live' = [live EXCEPT !["argument"] = @ - call.arguments, !["params"] = @ - call.params,
                              !["message"] = IF call.failed THEN @ - call.cerr ELSE @,
                              !["result"] = IF call.failed THEN @ ELSE @ - call.out]
  BY DEF Return
<1>3. /\ call.arguments \in Nat /\ call.params \in 0..1 /\ call.cerr \in 0..1 /\ call.out \in 0..1
      /\ call.failed \in BOOLEAN
  BY <1>1 DEF Calls
<1>4. /\ call.failed => call.out = 0
      /\ ~call.failed => call.cerr = 0
  BY DEF Inv, Control
<1>5. /\ live["argument"] = call.arguments /\ live["params"] = call.params
      /\ live["message"] = call.cerr /\ live["result"] = call.out
  BY DEF Inv, CallCounts
<1>6. /\ live'["argument"] = 0 /\ live'["params"] = 0 /\ live'["message"] = 0 /\ live'["result"] = 0
      /\ \A k \in Kind \ {"argument", "params", "message", "result"} : live'[k] = live[k]
      /\ live' \in [Kind -> Int]
  <2>1. /\ live["argument"] - call.arguments = 0 /\ live["params"] - call.params = 0
        /\ (IF call.failed THEN live["message"] - call.cerr ELSE live["message"]) = 0
        /\ (IF call.failed THEN live["result"] ELSE live["result"] - call.out) = 0
    BY <1>3, <1>4, <1>5
  <2>2. live' = [live EXCEPT !["argument"] = 0, !["params"] = 0, !["message"] = 0, !["result"] = 0]
    BY <1>2, <2>1
  <2> QED BY <1>1, <2>2 DEF Kind
<1>7. /\ call' \in Calls /\ call'.arguments = 0 /\ call'.params = 0 /\ call'.cerr = 0 /\ call'.out = 0
      /\ call'.failed = FALSE
  BY <1>2 DEF NoCall, Calls, Operations
<1>8. Types'
  BY <1>1, <1>2, <1>6, <1>7 DEF Types, Steps
<1>9. Control' /\ Members'
  BY <1>2, <1>7 DEF Inv, Control, Members, NewSteps, FreeSteps, InnerSteps, MediaSteps
<1>10. HandleCounts'
  BY <1>2, <1>6 DEF Inv, HandleCounts, HasModel, HasContext, HasBinding, If, Kind, FreeSteps
<1>11. CallCounts'
  BY <1>6, <1>7 DEF CallCounts
<1>12. InnerCounts'
  BY <1>2, <1>6 DEF Inv, InnerCounts, If, Kind, MediaSteps
<1> QED BY <1>8, <1>9, <1>10, <1>11, <1>12 DEF Inv

---------------------------------------------------------------------------
\* The actions, one after the other.

\* The steps of New and load_model.
LEMMA LoadingKeeps ==
  ASSUME Inv, New \/ ParseDevices \/ LoadModel \/ InitContext \/ InitAdapter \/ ApplyAdapter
              \/ MMProjPath \/ LoadMMProj
  PROVE  Inv'
<1>1. ASSUME ParseDevices PROVE Inv'
  BY <1>1, MoveKeeps, NothingReleased DEF ParseDevices
<1>2. ASSUME LoadModel PROVE Inv'
  BY <1>2, AllocateModelKeeps, NothingReleased DEF LoadModel
<1>3. ASSUME InitContext PROVE Inv'
  BY <1>3, AllocateContextKeeps, OneReleased DEF InitContext
<1> QED BY <1>1, <1>2, <1>3, NewKeeps, AdapterKeeps, MMProjKeeps

\* Free.
LEMMA ReleasingKeeps ==
  ASSUME Inv, Free \/ FreeMtmd \/ FreeContext \/ FreeAdapters \/ FreeModel \/ DeleteBinding
  PROVE  Inv'
  BY FreeKeeps, FreeMtmdKeeps, FreeContextKeeps, FreeAdaptersKeeps, FreeModelKeeps, DeleteBindingKeeps

\* The way into the C side.
LEMMA CallingKeeps ==
  ASSUME Inv, CallWithParams \/ CallEmbeddings \/ Enter \/ EnterTokenize \/ DecodePrompt \/ InitBatch
              \/ DecodeBatch
  PROVE  Inv'
<1>1. ASSUME CallWithParams PROVE Inv'
  BY <1>1, WithParamsKeeps, StringsAreNat DEF CallWithParams
<1>2. ASSUME CallEmbeddings PROVE Inv'
  BY <1>2, WithParamsKeeps DEF CallEmbeddings
<1>3. ASSUME Enter PROVE Inv'
  <2>1. pc = "enter" /\ binding.mtmd \in 0..1
    BY <1>3 DEF Enter, Inv, Types
  <2>2. \/ Fail(None)
        \/ /\ UNCHANGED live /\ handle = "open"
           /\ \/ Goto("media") /\ binding.mtmd # 0
              \/ Goto("prompt") \/ Goto("eval") \/ Goto("batch")
    BY <1>3 DEF Enter
  <2> QED BY <2>1, <2>2, MoveKeeps, NothingReleased
<1>4. ASSUME DecodePrompt PROVE Inv'
  BY <1>4, MoveKeeps, NothingReleased DEF DecodePrompt
<1>5. ASSUME InitBatch PROVE Inv'
  BY <1>5, AllocateBatchKeeps, NothingReleased DEF InitBatch
<1>6. ASSUME DecodeBatch PROVE Inv'
  BY <1>6, ReleaseBatchKeeps, OneReleased DEF DecodeBatch
<1> QED BY <1>1, <1>2, <1>3, <1>4, <1>5, <1>6, EnterTokenizeKeeps

\* Media prompts and generation.
LEMMA GeneratingKeeps ==
  ASSUME Inv, LoadBitmap \/ InitChunks \/ TokenizeMedia \/ EvalChunks
              \/ CreateSampler \/ AddGrammar \/ GenerateTokens \/ CopyResult
  PROVE  Inv'
<1>1. ASSUME LoadBitmap PROVE Inv'
  BY <1>1, MediaFails, BitmapLoaded DEF LoadBitmap
<1>2. ASSUME TokenizeMedia PROVE Inv'
  BY <1>2, MediaFails, MoveKeeps DEF TokenizeMedia, OnTokenizeFailure
<1>3. ASSUME EvalChunks PROVE Inv'
  BY <1>3, MediaFails, MediaEnds DEF EvalChunks, OnEvalFailure
<1>4. ASSUME AddGrammar PROVE Inv'
  BY <1>4, OneReleased, MoveKeeps DEF AddGrammar
<1>5. ASSUME GenerateTokens PROVE Inv'
  BY <1>5, OneReleased, ReleaseSamplerKeeps DEF GenerateTokens
<1>6. ASSUME CopyResult PROVE Inv'
  BY <1>6, SilentKeeps, ResultCopiedKeeps DEF CopyResult
<1> QED BY <1>1, <1>2, <1>3, <1>4, <1>5, <1>6, InitChunksKeeps, CreateSamplerKeeps

\* The invariant is inductive.
LEMMA NextKeeps == Inv /\ [Next]_vars => Inv'
<1>1. ASSUME Inv, UNCHANGED vars PROVE Inv'
  <2>1. live' = live /\ handle' = handle /\ binding' = binding /\ call' = call /\ pc' = pc
    BY <1>1 DEF vars
  <2>2. Types' /\ Control' /\ Members'
    BY <1>1, <2>1 DEF Inv, Types, Control, Members
  <2>3. HandleCounts'
    BY <1>1, <2>1 DEF Inv, HandleCounts, HasModel, HasContext, HasBinding
  <2>4. CallCounts' /\ InnerCounts'
    BY <1>1, <2>1 DEF Inv, CallCounts, InnerCounts
  <2> QED BY <2>2, <2>3, <2>4 DEF Inv
<1>2. ASSUME Inv, Next PROVE Inv'
  BY <1>2, LoadingKeeps, ReleasingKeeps, CallingKeeps, GeneratingKeeps, CallInfoKeeps, CallStateKeeps,
     SaveOrLoadKeeps, ReturnKeeps DEF Next
<1> QED BY <1>1, <1>2

\* It holds in every state.
LEMMA Invariance == Spec => []Inv
  BY InitHolds, NextKeeps, PTL DEF Spec

---------------------------------------------------------------------------
\* Nothing is ever released more often than it was allocated, whatever the
\* options and wherever a call fails: no double free in New, Free, the methods
\* or llama_predict_mtmd.
THEOREM NoDoubleFree == Spec => []TypeOK
<1>1. Inv => TypeOK
  <2> SUFFICES ASSUME Inv PROVE TypeOK
    OBVIOUS
  <2>1. /\ live \in [Kind -> Int] /\ call \in Calls /\ pc \in Steps
        /\ binding \in [adapters : 0..1, mtmd : 0..1]
        /\ handle \in {"none", "open", "freed"}
    BY Zenon DEF Inv, Types
  <2>2. /\ call.arguments \in Nat /\ call.bitmaps \in Nat /\ call.videos \in Nat
        /\ call.params \in 0..1 /\ call.cerr \in 0..1 /\ call.out \in 0..1 /\ call.failed \in BOOLEAN
    BY <2>1 DEF Calls
  <2>3. \A k \in {"model", "ctx", "binding", "adapter", "mtmd"} : live[k] \in Nat
    BY <2>1 DEF Inv, HandleCounts, If
  <2>4. \A k \in {"argument", "params", "message", "result"} : live[k] \in Nat
    BY <2>2 DEF Inv, CallCounts
  <2>5. \A k \in {"bitmap", "video", "chunks", "sampler", "batch"} : live[k] \in Nat
    BY <2>2 DEF Inv, InnerCounts, If
  <2>6. live \in [Kind -> Nat]
    <3>1. \A k \in Kind : live[k] \in Nat
      BY <2>3, <2>4, <2>5 DEF Kind
    <3> QED BY <2>1, <3>1
  <2> QED BY <2>1, <2>2, <2>6 DEF TypeOK
<1> QED BY <1>1, Invariance, PTL

\* Between calls exactly the open handle's own objects are allocated.
THEOREM NoLeak == Spec => []NothingLeaks
<1>1. Inv => NothingLeaks
  <2> SUFFICES ASSUME Inv, pc = "idle"
      PROVE  \A k \in Kind : live[k] =
            IF handle # "open" THEN 0
            ELSE IF k \in {"model", "ctx", "binding"} THEN 1
            ELSE IF k = "adapter" THEN binding.adapters
            ELSE IF k = "mtmd" THEN binding.mtmd
            ELSE 0
    BY DEF NothingLeaks
  <2>1. call.arguments = 0 /\ call.params = 0 /\ call.cerr = 0 /\ call.out = 0
    BY DEF Inv, Control, NoCall
  <2>2. \A k \in {"argument", "params", "message", "result"} : live[k] = 0
    BY <2>1 DEF Inv, CallCounts
  <2>3. \A k \in {"bitmap", "video", "chunks", "sampler", "batch"} : live[k] = 0
    BY DEF Inv, InnerCounts, If, MediaSteps
  <2>4. \A k \in {"model", "ctx", "binding"} : live[k] = If(handle = "open")
    BY DEF Inv, HandleCounts, HasModel, HasContext, HasBinding, If, FreeSteps
  <2>5. /\ live["adapter"] = binding.adapters /\ live["mtmd"] = binding.mtmd
        /\ handle # "open" => binding.adapters = 0 /\ binding.mtmd = 0
    BY DEF Inv, HandleCounts, Members, FreeSteps
  <2> QED BY <2>2, <2>3, <2>4, <2>5 DEF Kind, If
<1> QED BY <1>1, Invariance, PTL

\* No context, adapter or projector outlives its model, no context its
\* adapters, no media or chunks their projector, no sampler its context.
THEOREM ParentsOutlive == Spec => []ParentsLive
<1>1. Inv => ParentsLive
  <2> SUFFICES ASSUME Inv PROVE ParentsLive
    OBVIOUS
  <2>1. /\ call \in Calls /\ pc \in Steps /\ binding \in [adapters : 0..1, mtmd : 0..1]
        /\ handle \in {"none", "open", "freed"}
    BY Zenon DEF Inv, Types
  <2>2. /\ live["ctx"] \in 0..1 /\ live["adapter"] \in 0..1 /\ live["mtmd"] \in 0..1
        /\ live["ctx"] = 1 => live["model"] = 1 /\ live["adapter"] = binding.adapters
    BY <2>1 DEF Inv, HandleCounts, HasModel, HasContext, If, FreeSteps
  <2>3. live["adapter"] = 1 \/ live["mtmd"] = 1 => live["model"] = 1
    BY <2>1 DEF Inv, HandleCounts, Members, HasModel, If, FreeSteps
  <2>4. live["bitmap"] + live["video"] + live["chunks"] > 0 => live["mtmd"] = 1
    BY DEF Inv, InnerCounts, HandleCounts, Members, If, MediaSteps, FreeSteps
  <2>5. live["sampler"] + live["batch"] > 0 \/ pc \in {"prompt", "eval", "media", "result"} => live["ctx"] = 1
    BY DEF Inv, InnerCounts, HandleCounts, Control, HasContext, If, InnerSteps, MediaSteps, FreeSteps
  <2> QED BY <2>2, <2>3, <2>4, <2>5 DEF ParentsLive
<1> QED BY <1>1, Invariance, PTL

---------------------------------------------------------------------------
\* A call with options has the biases of these options.
BiasInv == call.params = 1 => call.opts \in PredictChoices /\ call.biases = BiasesOf(call.opts)

\* What a step does to them: they stay, the call has none, or it has just begun.
SameBiases == call'.params = call.params /\ call'.opts = call.opts /\ call'.biases = call.biases

LEMMA FailureKeepsBiases ==
  ASSUME Inv
  PROVE  /\ \A next, released : FailTo(next, released) => SameBiases
         /\ \A released : Fail(released) => SameBiases
         /\ FailSilently => SameBiases
         /\ \A next : Goto(next) => SameBiases
<1>1. call \in Calls
  BY Zenon DEF Inv, Types
<1>2. ASSUME NEW next, NEW released, FailTo(next, released) PROVE SameBiases
  <2>1. PICK n \in 0..1 : call' = [call EXCEPT !.failed = TRUE, !.cerr = n]
    BY <1>2 DEF FailTo
  <2> QED BY <1>1, <2>1 DEF Calls, SameBiases
<1>3. FailSilently => SameBiases
  BY <1>1 DEF FailSilently, Calls, SameBiases
<1> QED BY <1>2, <1>3 DEF Fail, Goto, SameBiases

LEMMA BiasStep ==
  ASSUME Inv, Next
  PROVE  \/ SameBiases
         \/ call'.params = 0
         \/ \E opts \in PredictChoices : call'.opts = opts /\ call'.biases = BiasesOf(opts)
<1>1. call \in Calls
  BY Zenon DEF Inv, Types
<1>2. CASE New \/ Free \/ CallInfo \/ CallState \/ Return
  <2>1. CASE New
    BY <2>1 DEF New, NoCall
  <2>2. CASE Free
    BY <2>2 DEF Free, NoCall
  <2>3. CASE CallInfo
    BY <2>3 DEF CallInfo, NoCall
  <2>4. CASE CallState
    BY <2>4 DEF CallState, NoCall
  <2>5. CASE Return
    BY <2>5 DEF Return, NoCall
  <2> QED BY <1>2, <2>1, <2>2, <2>3, <2>4, <2>5
<1>3. CASE CallWithParams \/ CallEmbeddings
  <2>1. PICK op \in Operations, opts \in PredictChoices, extra \in Nat : WithParams(op, opts, extra)
    BY <1>3, StringsAreNat DEF CallWithParams, CallEmbeddings, Operations
  <2> QED BY <2>1 DEF WithParams, BiasesOf, NoCall
<1>4. CASE ParseDevices \/ LoadModel \/ InitContext \/ InitAdapter \/ ApplyAdapter \/ LoadMMProj
  BY <1>4, FailureKeepsBiases DEF ParseDevices, LoadModel, InitContext, InitAdapter, ApplyAdapter, LoadMMProj,
     SameBiases
<1>5. CASE MMProjPath
  BY <1>1, <1>5 DEF MMProjPath, SameBiases, Calls
<1>6. CASE FreeMtmd \/ FreeContext \/ FreeAdapters \/ FreeModel \/ DeleteBinding
  BY <1>6, FailureKeepsBiases DEF FreeMtmd, FreeContext, FreeAdapters, FreeModel, DeleteBinding, Release, SameBiases
<1>7. CASE Enter \/ EnterTokenize \/ DecodePrompt \/ InitBatch \/ DecodeBatch
  BY <1>7, FailureKeepsBiases DEF Enter, EnterTokenize, DecodePrompt, InitBatch, DecodeBatch, Release, SameBiases
<1>8. CASE LoadBitmap
  BY <1>1, <1>8, FailureKeepsBiases DEF LoadBitmap, SameBiases, Calls
<1>9. CASE InitChunks \/ TokenizeMedia \/ EvalChunks \/ CreateSampler \/ AddGrammar \/ GenerateTokens
  BY <1>9, FailureKeepsBiases DEF InitChunks, TokenizeMedia, EvalChunks, CreateSampler, AddGrammar,
     GenerateTokens, Release, SameBiases
<1>10. CASE CopyResult
  BY <1>1, <1>10, FailureKeepsBiases DEF CopyResult, SameBiases, Calls
<1>11. CASE SaveOrLoad
  BY <1>11, FailureKeepsBiases DEF SaveOrLoad, SameBiases
<1> QED BY <1>2, <1>3, <1>4, <1>5, <1>6, <1>7, <1>8, <1>9, <1>10, <1>11 DEF Next

\* Each logit bias that can be read and whose id a token can hold reaches the
\* sampler on the id the caller named, for every list of options and whatever
\* stands around it in the text (formatLogitBias, parse_logit_biases).
THEOREM BiasesReachTokens == Spec => []BiasesArrive
<1>1. Init => BiasInv
  BY DEF Init, NoCall, BiasInv
<1>2. Inv /\ BiasInv /\ [Next]_vars => BiasInv'
  <2>1. CASE Next
    BY <2>1, BiasStep DEF BiasInv, SameBiases
  <2>2. CASE UNCHANGED vars
    BY <2>2 DEF vars, BiasInv
  <2> QED BY <2>1, <2>2
<1>3. BiasInv => BiasesArrive
  <2> SUFFICES ASSUME BiasInv, call.params = 1 PROVE BiasesArrive
    BY DEF BiasesArrive
  <2>1. AreOptions(call.opts) /\ call.biases = BiasesOf(call.opts)
    BY ChoicesAssumption DEF BiasInv
  <2> QED BY <2>1, BiasesKept, Zenon DEF BiasesArrive
<1> QED BY <1>1, <1>2, <1>3, Invariance, PTL DEF Spec
=============================================================================
