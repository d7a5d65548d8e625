---------------------------- MODULE TablesProofs ----------------------------
(***************************************************************************)
(* The tables, for every reply the router can send: of any number of rows,  *)
(* in any order, with any repeats and any spelling of an address.           *)
(*                                                                          *)
(* A list is known by what is in it: what a parser keeps (KeptIs), what the *)
(* collector sends of each entry (EachIs), what the gatherer serves         *)
(* (UnrepeatedIs).  Where a table must not repeat, its list is shown to     *)
(* have no two series of one kind that are one (DistinctIn), and counted.   *)
(***************************************************************************)
EXTENDS Tables, SequenceTheorems, FiniteSetTheorems, TLAPS

-----------------------------------------------------------------------------
(* Sequences, by what is in them.                                           *)

\* A list: a sequence of what is in it.
List(s) == s \in Seq(Range(s))

\* A list has a length, and is its entries.
LEMMA ListIs ==
    ASSUME NEW s, List(s)
    PROVE  /\ Len(s) \in Nat /\ DOMAIN s = 1..Len(s)
           /\ \A x : x \in Range(s) <=> \E i \in 1..Len(s) : x = s[i]
<1>1. Len(s) \in Nat /\ DOMAIN s = 1..Len(s)
  BY LenProperties DEF List
<1> QED
  BY <1>1 DEF Range

\* A sequence over a set is a list of members of it.
LEMMA SeqIsList ==
    ASSUME NEW X, NEW s \in Seq(X)
    PROVE  List(s) /\ Range(s) \subseteq X
<1>1. \A i \in DOMAIN s : s[i] \in X
  BY LenProperties, ElementOfSeq
<1> QED
  BY <1>1, SeqOfRange DEF List, Range

\* The empty list has nothing in it.
LEMMA EmptyList == List(<<>>) /\ Range(<<>>) = {}
<1>1. Range(<<>>) = {}
  BY DEF Range
<1> QED
  BY <1>1, EmptySeq DEF List

\* A list of one has that one in it.
LEMMA SingleList ==
    ASSUME NEW x
    PROVE  List(<<x>>) /\ Range(<<x>>) = {x}
<1>1. <<x>> \in Seq({x}) /\ DOMAIN <<x>> = {1} /\ <<x>>[1] = x
  OBVIOUS
<1>2. Range(<<x>>) = {x}
  BY <1>1 DEF Range
<1> QED
  BY <1>1, <1>2 DEF List

\* Two lists one after the other are a list of what is in either.
LEMMA ConcatList ==
    ASSUME NEW s, NEW t, List(s), List(t)
    PROVE  List(s \o t) /\ Range(s \o t) = Range(s) \cup Range(t)
<1> DEFINE X == Range(s) \cup Range(t)
<1>1. s \in Seq(X) /\ t \in Seq(X)
  BY SeqMonotonic DEF List
<1> HIDE DEF X
<1>2. s \o t \in Seq(X) /\ Range(s \o t) = Range(s) \cup Range(t)
  BY <1>1, ConcatProperties, RangeConcatenation
<1> QED
  BY <1>2, SeqIsList

\* A function on 1..n is a list of n.
LEMMA ArrayList ==
    ASSUME NEW n \in Nat, NEW s, s = [i \in 1..n |-> s[i]]
    PROVE  /\ List(s) /\ Len(s) = n /\ DOMAIN s = 1..n
           /\ \A x : x \in Range(s) <=> \E i \in 1..n : x = s[i]
<1>1. DOMAIN s = 1..n
  OBVIOUS
<1>2. \A i \in 1..n : s[i] \in Range(s)
  BY <1>1 DEF Range
<1>3. s \in [1..n -> Range(s)]
  BY <1>2
<1>4. s \in Seq(Range(s))
  BY <1>3, SeqDef
<1>5. Len(s) = n
  BY <1>1, <1>4, LenProperties
<1> QED
  BY <1>1, <1>4, <1>5 DEF List, Range

\* The folds of kept and of FlattenSeq.
Select  == INSTANCE FoldTheorems WITH
             op <- LAMBDA good, out, w : IF w \in good THEN Append(out, w) ELSE out
Flatten == INSTANCE FoldTheorems WITH op <- LAMBDA c, out, s : out \o s

\* What kept has kept so far, and the next row.
KeepsStepwise(rows, good, f) ==
    /\ f[0] = <<>> /\ kept(rows, good) = f[Len(rows)] /\ f[Len(rows)] \in Seq(Range(rows))
    /\ \A i \in 1..Len(rows) :
         /\ f[i] = IF rows[i] \in good THEN Append(f[i - 1], rows[i]) ELSE f[i - 1]
         /\ f[i - 1] \in Seq(Range(rows))

\* kept goes through the rows so.
LEMMA KeptSteps ==
    ASSUME NEW rows, List(rows), NEW good
    PROVE  \E f : KeepsStepwise(rows, good, f)
<1> DEFINE X == Range(rows)
           n == Len(rows)
<1>1. rows \in Seq(X) /\ n \in Nat /\ <<>> \in Seq(X)
  BY ListIs, EmptySeq DEF List
<1>2. \A out \in Seq(X), w \in X : (IF w \in good THEN Append(out, w) ELSE out) \in Seq(X)
  BY AppendProperties
<1>3. PICK f \in [0..n -> Seq(X)] :
        Select!Steps(good, <<>>, rows, f) /\ Select!Fold(good, <<>>, rows) = f[n]
  <2> HIDE DEF X, n
  <2>1. Select!InSteps(good, Seq(X), <<>>, rows, Select!Fold(good, <<>>, rows))
    BY <1>1, <1>2, Select!FoldSteps
  <2> QED
    BY <2>1 DEF Select!InSteps, n
<1>4. Select!Fold(good, <<>>, rows) = kept(rows, good)
  BY DEF Select!Fold, kept, Select!FoldLeft, FoldLeft, Select!MapThenFoldSet, MapThenFoldSet,
         Select!Max, Max
<1>5. /\ f[0] = <<>>
      /\ \A i \in 1..n : f[i] = IF rows[i] \in good THEN Append(f[i - 1], rows[i]) ELSE f[i - 1]
  BY <1>3 DEF Select!Steps
<1>6. \A i \in 1..n : f[i - 1] \in Seq(X)
  BY <1>1, <1>3
<1>7. f[n] \in Seq(X)
  BY <1>1, <1>3
<1>8. KeepsStepwise(rows, good, f)
  BY <1>3, <1>4, <1>5, <1>6, <1>7 DEF KeepsStepwise
<1> QED
  BY <1>8

\* kept: what is good of the rows, and nothing else.
LEMMA KeptIs ==
    ASSUME NEW rows, List(rows), NEW good
    PROVE  List(kept(rows, good)) /\ Range(kept(rows, good)) = Range(rows) \cap good
<1> DEFINE X == Range(rows)
           n == Len(rows)
<1>1. rows \in Seq(X) /\ n \in Nat
  BY ListIs DEF List
<1>2. PICK f : /\ f[0] = <<>> /\ kept(rows, good) = f[n] /\ f[n] \in Seq(X)
               /\ \A i \in 1..n :
                    /\ f[i] = IF rows[i] \in good THEN Append(f[i - 1], rows[i]) ELSE f[i - 1]
                    /\ f[i - 1] \in Seq(X)
  BY KeptSteps DEF KeepsStepwise
<1> DEFINE sofar(i) == {rows[j] : j \in 1..i} \cap good
           T == {i \in 0..n : Range(f[i]) = sofar(i)}
<1>3. 0 \in T
  BY <1>1, <1>2, EmptyList
<1>4. ASSUME NEW i \in 1..n, i - 1 \in T PROVE i \in T
  <2>1. f[i - 1] \in Seq(X) /\ rows[i] \in X /\ Range(f[i - 1]) = sofar(i - 1)
    BY <1>1, <1>2, <1>4, ElementOfSeq
  <2>2. 1..i = (1..(i - 1)) \cup {i}
    OBVIOUS
  <2>3. CASE rows[i] \in good
    <3>1. f[i] = f[i - 1] \o <<rows[i]>>
      <4>1. f[i] = Append(f[i - 1], rows[i])
        BY <1>2, <2>3
      <4> QED
        BY <2>1, <4>1, AppendIsConcat
    <3>2. List(<<rows[i]>>) /\ Range(<<rows[i]>>) = {rows[i]}
      BY SingleList
    <3>3. Range(f[i]) = Range(f[i - 1]) \cup {rows[i]}
      BY <2>1, <3>1, <3>2, ConcatList, SeqIsList
    <3> QED
      BY <2>1, <2>2, <2>3, <3>3
  <2>4. CASE rows[i] \notin good
    <3>1. f[i] = f[i - 1]
      BY <1>2, <2>4
    <3> QED
      BY <2>1, <2>2, <2>4, <3>1
  <2> QED
    BY <2>3, <2>4
<1>5. n \in T
  <2>1. \A i \in 0..n : i \in T
    <3> HIDE DEF T, n
    <3> QED
      BY <1>1, <1>3, <1>4, Select!Induction
  <2>2. n \in 0..n
    BY <1>1
  <2> HIDE DEF T, n
  <2> QED
    BY <2>1, <2>2
<1>6. Range(rows) = {rows[j] : j \in 1..n}
  BY <1>1, RangeEquality
<1>7. Range(f[n]) = Range(rows) \cap good
  BY <1>5, <1>6
<1>8. List(f[n])
  BY <1>2, SeqIsList
<1> QED
  BY <1>2, <1>7, <1>8

\* What is flattened so far, and the next of them.
Flattens(n, ss, f) ==
    /\ f[0] = <<>> /\ FlattenSeq(ss) = f[n]
    /\ \A i \in 1..n : f[i] = f[i - 1] \o ss[i]

\* FlattenSeq goes through its lists so.
LEMMA FlattenSteps ==
    ASSUME NEW n \in Nat, NEW ss, ss = [i \in 1..n |-> ss[i]], \A i \in 1..n : List(ss[i])
    PROVE  \E f : Flattens(n, ss, f)
<1> DEFINE X == UNION {Range(ss[i]) : i \in 1..n}
<1>1. \A i \in 1..n : ss[i] \in Seq(X)
  <2> TAKE i \in 1..n
  <2>1. ss[i] \in Seq(Range(ss[i])) /\ Range(ss[i]) \subseteq X
    BY DEF List
  <2> HIDE DEF X
  <2> QED
    BY <2>1, SeqMonotonic
<1>2. Len(ss) = n /\ ss \in Seq(Seq(X))
  <2>1. DOMAIN ss = 1..n /\ ss \in [1..n -> Seq(X)]
    BY <1>1
  <2> HIDE DEF X
  <2>2. ss \in Seq(Seq(X))
    BY <2>1, SeqDef
  <2> QED
    BY <2>1, <2>2, LenProperties
<1> HIDE DEF X
<1>3. CASE n = 0
  <2>1. ss = <<>>
    BY <1>2, <1>3, EmptySeq
  <2>2. FlattenSeq(ss) = <<>>
    BY <1>2, <1>3, <2>1 DEF FlattenSeq
  <2> DEFINE f == [i \in {0} |-> <<>>]
  <2>3. f[0] = <<>>
    OBVIOUS
  <2> HIDE DEF f
  <2>4. Flattens(n, ss, f)
    BY <1>3, <2>2, <2>3 DEF Flattens
  <2> QED
    BY <2>4
<1>4. CASE n # 0
  <2> DEFINE rec(g) == [i \in 1..n |-> IF i = 1 THEN ss[i] ELSE g[i - 1] \o ss[i]]
             flatten == CHOOSE g : g = rec(g)
  <2>1. \E g : g = rec(g)
    <3>1. <<>> \in Seq(X) /\ \A out \in Seq(X), s \in Seq(X) : out \o s \in Seq(X)
      BY EmptySeq, ConcatProperties
    <3>2. Flatten!InSteps(0, Seq(X), <<>>, ss, Flatten!Fold(0, <<>>, ss))
      BY <1>2, <3>1, Flatten!FoldSteps
    <3>3. PICK f \in [0..n -> Seq(X)] : Flatten!Steps(0, <<>>, ss, f)
      BY <1>2, <3>2 DEF Flatten!InSteps
    <3>4. f[0] = <<>> /\ \A i \in 1..n : f[i] = f[i - 1] \o ss[i]
      BY <1>2, <3>3 DEF Flatten!Steps
    <3> DEFINE g == [i \in 1..n |-> f[i]]
    <3>5. \A i \in 1..n : g[i] = IF i = 1 THEN ss[i] ELSE g[i - 1] \o ss[i]
      <4> TAKE i \in 1..n
      <4>1. CASE i = 1
        <5>1. 1 \in 1..n /\ 1 - 1 = 0
          BY <4>1
        <5>2. f[1] = f[0] \o ss[1] /\ f[0] = <<>>
          BY <3>4, <5>1
        <5>3. <<>> \o ss[1] = ss[1]
          BY <1>1, <5>1, ConcatEmptySeq
        <5> QED
          BY <4>1, <5>2, <5>3
      <4>2. CASE i # 1
        BY <3>4, <4>2
      <4> QED
        BY <4>1, <4>2
    <3>6. g = rec(g)
      BY <3>5
    <3> QED
      BY <3>6
  <2>2. flatten = rec(flatten)
    <3> HIDE DEF rec
    <3> QED
      BY <2>1
  <2>3. FlattenSeq(ss) = flatten[n]
    BY <1>2, <1>4 DEF FlattenSeq
  <2> HIDE DEF flatten
  <2> DEFINE f == [i \in 0..n |-> IF i = 0 THEN <<>> ELSE flatten[i]]
  <2>4. \A i \in 1..n : f[i] = f[i - 1] \o ss[i]
    <3> TAKE i \in 1..n
    <3>1. CASE i = 1
      <4>1. f[i] = ss[i] /\ f[i - 1] = <<>>
        BY <2>2, <3>1
      <4>2. <<>> \o ss[i] = ss[i]
        BY <1>1, ConcatEmptySeq
      <4> QED
        BY <4>1, <4>2
    <3>2. CASE i # 1
      <4>1. i - 1 \in 1..n
        BY <3>2
      <4>2. f[i] = flatten[i] /\ f[i - 1] = flatten[i - 1]
        BY <4>1
      <4>3. flatten[i] = flatten[i - 1] \o ss[i]
        BY <2>2, <3>2
      <4> QED
        BY <4>2, <4>3
    <3> QED
      BY <3>1, <3>2
  <2>5. f[0] = <<>> /\ f[n] = flatten[n]
    BY <1>4
  <2> HIDE DEF f
  <2>6. Flattens(n, ss, f)
    BY <2>3, <2>4, <2>5 DEF Flattens
  <2> QED
    BY <2>6
<1> QED
  BY <1>3, <1>4

\* FlattenSeq: everything of each, and nothing else.
LEMMA FlattenIs ==
    ASSUME NEW n \in Nat, NEW ss, ss = [i \in 1..n |-> ss[i]], \A i \in 1..n : List(ss[i])
    PROVE  /\ List(FlattenSeq(ss))
           /\ \A x : x \in Range(FlattenSeq(ss)) <=> \E i \in 1..n : x \in Range(ss[i])
<1>1. PICK f : /\ f[0] = <<>> /\ \A i \in 1..n : f[i] = f[i - 1] \o ss[i]
               /\ FlattenSeq(ss) = f[n]
  BY FlattenSteps DEF Flattens
<1> DEFINE Ok(i) == /\ List(f[i])
                    /\ \A x : x \in Range(f[i]) <=> \E j \in 1..i : x \in Range(ss[j])
           T == {i \in Nat : Ok(i)}
<1>2. 0 \in T
  <2>1. List(f[0]) /\ Range(f[0]) = {}
    BY <1>1, EmptyList
  <2> QED
    BY <2>1
<1>3. ASSUME NEW i \in 1..n, i - 1 \in T PROVE i \in T
  <2>1. Ok(i - 1)
    BY <1>3
  <2>2. List(f[i]) /\ Range(f[i]) = Range(f[i - 1]) \cup Range(ss[i])
    BY <1>1, <2>1, ConcatList
  <2>3. 1..i = (1..(i - 1)) \cup {i}
    OBVIOUS
  <2>4. Ok(i)
    BY <2>1, <2>2, <2>3
  <2> QED
    BY <2>4
<1>4. n \in 0..n
  OBVIOUS
<1>5. n \in T
  <2> HIDE DEF T
  <2>1. \A i \in 0..n : i \in T
    BY <1>2, <1>3, Flatten!Induction
  <2> QED
    BY <1>4, <2>1
<1>6. Ok(n)
  BY <1>5
<1> QED
  BY <1>1, <1>6

\* SetToSeq: the members of a finite set, each once.
LEMMA SetToSeqIs ==
    ASSUME NEW S, IsFiniteSet(S)
    PROVE  /\ List(SetToSeq(S)) /\ Range(SetToSeq(S)) = S
           /\ Len(SetToSeq(S)) = Cardinality(S)
           /\ \A i, j \in 1..Cardinality(S) : SetToSeq(S)[i] = SetToSeq(S)[j] => i = j
<1> DEFINE n == Cardinality(S)
           f == SetToSeq(S)
<1>1. n \in Nat /\ ExistsBijection(1..n, S)
  BY FS_CardinalityType
<1> HIDE DEF n
<1>2. PICK g \in Bijection(1..n, S) : TRUE
  BY <1>1 DEF ExistsBijection
<1>3. g \in [1..n -> S] /\ IsInjective(g)
  BY <1>2 DEF Bijection, Injection, IsInjective
<1>4. f \in [1..n -> S] /\ IsInjective(f)
  BY <1>3 DEF SetToSeq, n
<1> HIDE DEF f
<1>5. f \in Injection(1..n, S)
  BY <1>4 DEF Injection, IsInjective
<1>6. f \in Surjection(1..n, S)
  <2>1. IsFiniteSet(1..n) /\ Cardinality(1..n) = n
    BY <1>1, FS_Interval
  <2> QED
    BY <1>5, <2>1, FS_Injection DEF n
<1>7. \A x : x \in S <=> \E i \in 1..n : f[i] = x
  BY <1>4, <1>6 DEF Surjection
<1>8. f = [i \in 1..n |-> f[i]]
  BY <1>4
<1>9. /\ List(f) /\ Len(f) = n /\ DOMAIN f = 1..n
      /\ \A x : x \in Range(f) <=> \E i \in 1..n : x = f[i]
  BY <1>1, <1>8, ArrayList
<1>10. Range(f) = S
  BY <1>7, <1>9
<1> QED
  BY <1>4, <1>9, <1>10 DEF f, n, IsInjective

\* The series that gauge sends.
Gauge(desc, labels, v) == [desc |-> desc, labels |-> labels, value |-> v]

\* gauge: one series.
LEMMA GaugeIs ==
    ASSUME NEW desc, NEW labels, NEW v
    PROVE  List(gauge(desc, labels, v)) /\ Range(gauge(desc, labels, v)) = {Gauge(desc, labels, v)}
BY SingleList DEF gauge, Gauge

\* reading: one series of a value, none of no value.
LEMMA ReadingIs ==
    ASSUME NEW desc, NEW labels, NEW v
    PROVE  /\ List(reading(desc, labels, v))
           /\ \A x : x \in Range(reading(desc, labels, v)) <=>
                       v # <<>> /\ x = Gauge(desc, labels, v[1])
BY GaugeIs, EmptyList DEF reading

\* The fold of Unrepeated, of a context that it does not read.
Once == INSTANCE FoldTheorems WITH
          op <- LAMBDA c, out, s : IF \E i \in DOMAIN out : Series(out[i]) = Series(s) THEN out
                                   ELSE Append(out, s)

\* The series that have a value in s.
AllSeries(s) == {Series(x) : x \in Range(s)}

\* Unrepeated: nothing that was not sent, and every series that was.
LEMMA UnrepeatedIs ==
    ASSUME NEW sent, List(sent)
    PROVE  /\ List(Unrepeated(sent)) /\ Range(Unrepeated(sent)) \subseteq Range(sent)
           /\ AllSeries(Unrepeated(sent)) = AllSeries(sent)
<1> DEFINE X == Range(sent)
           n == Len(sent)
           Kept(out, s) == IF \E i \in DOMAIN out : Series(out[i]) = Series(s) THEN out
                            ELSE Append(out, s)
<1>1. sent \in Seq(X) /\ n \in Nat /\ <<>> \in Seq(X)
  BY ListIs, EmptySeq DEF List
<1>2. \A out \in Seq(X), w \in X : Kept(out, w) \in Seq(X)
  BY AppendProperties
<1>3. PICK f \in [0..n -> Seq(X)] :
        Once!Steps(0, <<>>, sent, f) /\ Once!Fold(0, <<>>, sent) = f[n]
  <2> HIDE DEF X, n
  <2>1. Once!InSteps(0, Seq(X), <<>>, sent, Once!Fold(0, <<>>, sent))
    BY <1>1, <1>2, Once!FoldSteps
  <2> QED
    BY <2>1 DEF Once!InSteps, n
<1>4. Once!Fold(0, <<>>, sent) = Unrepeated(sent)
  BY DEF Once!Fold, Unrepeated, Once!FoldLeft, FoldLeft, Once!MapThenFoldSet, MapThenFoldSet,
         Once!Max, Max
<1>5. f[0] = <<>> /\ \A i \in 1..n : f[i] = Kept(f[i - 1], sent[i])
  BY <1>3 DEF Once!Steps
<1> DEFINE T == {i \in 0..n : AllSeries(f[i]) = {Series(sent[j]) : j \in 1..i}}
<1>6. 0 \in T
  BY <1>1, <1>5, EmptyList DEF AllSeries
<1>7. ASSUME NEW i \in 1..n, i - 1 \in T PROVE i \in T
  <2>1. f[i - 1] \in Seq(X) /\ sent[i] \in X
    BY <1>1, ElementOfSeq
  <2>2. List(f[i - 1])
    BY <2>1, SeqIsList
  <2>3. AllSeries(f[i - 1]) = {Series(sent[j]) : j \in 1..(i - 1)} /\ i \in 0..n
    BY <1>7
  <2>4. 1..i = (1..(i - 1)) \cup {i}
    OBVIOUS
  <2>5. AllSeries(f[i]) = AllSeries(f[i - 1]) \cup {Series(sent[i])}
    <3>1. CASE \E k \in DOMAIN f[i - 1] : Series(f[i - 1][k]) = Series(sent[i])
      <4>1. Series(sent[i]) \in AllSeries(f[i - 1])
        BY <2>2, <3>1, ListIs DEF AllSeries
      <4>2. f[i] = f[i - 1]
        BY <1>5, <3>1
      <4> QED
        BY <4>1, <4>2
    <3>2. CASE ~ \E k \in DOMAIN f[i - 1] : Series(f[i - 1][k]) = Series(sent[i])
      <4>1. f[i] = Append(f[i - 1], sent[i])
        BY <1>5, <3>2
      <4>2. f[i] = f[i - 1] \o <<sent[i]>>
        BY <2>1, <4>1, AppendIsConcat
      <4>3. Range(f[i]) = Range(f[i - 1]) \cup {sent[i]}
        BY <2>2, <4>2, ConcatList, SingleList
      <4> QED
        BY <4>3 DEF AllSeries
    <3> QED
      BY <3>1, <3>2
  <2> QED
    BY <2>3, <2>4, <2>5
<1>8. n \in T
  <2>1. \A i \in 0..n : i \in T
    <3> HIDE DEF T, n
    <3> QED
      BY <1>1, <1>6, <1>7, Once!Induction
  <2>2. n \in 0..n
    BY <1>1
  <2> HIDE DEF T, n
  <2> QED
    BY <2>1, <2>2
<1>9. \A x : x \in Range(sent) <=> \E i \in 1..n : x = sent[i]
  BY ListIs
<1>10. AllSeries(f[n]) = AllSeries(sent)
  <2>1. AllSeries(f[n]) = {Series(sent[j]) : j \in 1..n}
    BY <1>8
  <2>2. AllSeries(sent) = {Series(sent[j]) : j \in 1..n}
    <3> HIDE DEF n
    <3> QED
      BY <1>9 DEF AllSeries
  <2> QED
    BY <2>1, <2>2
<1>11. List(f[n]) /\ Range(f[n]) \subseteq X
  BY <1>1, <1>3, SeqIsList
<1> QED
  BY <1>3, <1>4, <1>10, <1>11

\* A set that 1..n enumerates without a repeat has n members.
LEMMA Counted ==
    ASSUME NEW n \in Nat, NEW S, NEW f, \A i \in 1..n : f[i] \in S,
           \A i, j \in 1..n : f[i] = f[j] => i = j,
           \A x \in S : \E i \in 1..n : f[i] = x
    PROVE  IsFiniteSet(S) /\ Cardinality(S) = n
<1> DEFINE g == [i \in 1..n |-> f[i]]
<1>1. g \in [1..n -> S] /\ IsInjective(g) /\ \A x \in S : \E i \in 1..n : g[i] = x
  BY DEF IsInjective
<1> HIDE DEF g
<1>2. g \in Bijection(1..n, S)
  BY <1>1 DEF Bijection, Injection, Surjection
<1>3. ExistsBijection(1..n, S)
  BY <1>2 DEF ExistsBijection
<1> QED
  BY <1>3, FS_CountingElements, FS_NatBijection

\* No two of the good have one series.
DistinctIn(s, good) ==
    \A i, j \in DOMAIN s : s[i] \in good /\ s[j] \in good /\ Series(s[i]) = Series(s[j]) => i = j

\* None of the good of one has the series of a good one of the other.
Disjoint(s, t, good) ==
    \A x \in Range(s) \cap good, y \in Range(t) \cap good : Series(x) # Series(y)

\* Two distinct lists that are disjoint are distinct one after the other.
LEMMA ConcatDistinct ==
    ASSUME NEW s, NEW t, List(s), List(t), NEW good,
           DistinctIn(s, good), DistinctIn(t, good), Disjoint(s, t, good)
    PROVE  DistinctIn(s \o t, good)
<1> DEFINE m == Len(s)
           n == Len(t)
           u == s \o t
<1>1. m \in Nat /\ DOMAIN s = 1..m /\ n \in Nat /\ DOMAIN t = 1..n
  BY ListIs
<1>2. /\ DOMAIN u = 1..(m + n)
      /\ \A i \in 1..(m + n) : u[i] = IF i <= m THEN s[i] ELSE t[i - m]
  <2>1. s \in Seq(Range(s) \cup Range(t)) /\ t \in Seq(Range(s) \cup Range(t))
    BY SeqMonotonic DEF List
  <2> QED
    BY <2>1, ConcatProperties, LenProperties
<1> HIDE DEF m, n, u
<1>3. ASSUME NEW i \in 1..(m + n), NEW j \in 1..(m + n), u[i] \in good, u[j] \in good,
             Series(u[i]) = Series(u[j])
      PROVE  i = j
  <2>1. \A k \in 1..m : s[k] \in Range(s)
    BY <1>1 DEF Range
  <2>2. \A k \in 1..n : t[k] \in Range(t)
    BY <1>1 DEF Range
  <2>3. CASE i <= m /\ j <= m
    BY <1>1, <1>2, <1>3, <2>3 DEF DistinctIn
  <2>4. CASE i > m /\ j > m
    <3>1. i - m \in 1..n /\ j - m \in 1..n /\ u[i] = t[i - m] /\ u[j] = t[j - m]
      BY <1>1, <1>2, <2>4
    <3>2. i - m = j - m
      BY <1>1, <1>3, <3>1 DEF DistinctIn
    <3> QED
      BY <1>1, <3>2
  <2>5. CASE i <= m /\ j > m
    <3>1. j - m \in 1..n /\ i \in 1..m /\ u[i] = s[i] /\ u[j] = t[j - m]
      BY <1>1, <1>2, <2>5
    <3> QED
      BY <1>3, <2>1, <2>2, <3>1 DEF Disjoint
  <2>6. CASE i > m /\ j <= m
    <3>1. i - m \in 1..n /\ j \in 1..m /\ u[j] = s[j] /\ u[i] = t[i - m]
      BY <1>1, <1>2, <2>6
    <3> QED
      BY <1>3, <2>1, <2>2, <3>1 DEF Disjoint
  <2> QED
    BY <1>1, <2>3, <2>4, <2>5, <2>6
<1> QED
  BY <1>2, <1>3 DEF DistinctIn, u

\* A list with nothing good in it is distinct, and disjoint from any.
LEMMA NoneDistinct ==
    ASSUME NEW s, NEW good, Range(s) \cap good = {}
    PROVE  DistinctIn(s, good) /\ \A t : Disjoint(s, t, good) /\ Disjoint(t, s, good)
BY DEF DistinctIn, Disjoint, Range

\* Distinct lists, each disjoint from each other one, are distinct when flattened.
LEMMA FlattenDistinct ==
    ASSUME NEW n \in Nat, NEW ss, ss = [i \in 1..n |-> ss[i]], NEW good,
           \A i \in 1..n : List(ss[i]) /\ DistinctIn(ss[i], good),
           \A i, j \in 1..n : i # j => Disjoint(ss[i], ss[j], good)
    PROVE  DistinctIn(FlattenSeq(ss), good)
<1>1. PICK f : /\ f[0] = <<>> /\ \A i \in 1..n : f[i] = f[i - 1] \o ss[i]
               /\ FlattenSeq(ss) = f[n]
  BY FlattenSteps DEF Flattens
<1> DEFINE Ok(i) == /\ List(f[i]) /\ DistinctIn(f[i], good)
                    /\ \A x \in Range(f[i]) : \E j \in 1..i : x \in Range(ss[j])
           T == {i \in Nat : Ok(i)}
<1>2. 0 \in T
  <2>1. List(f[0]) /\ Range(f[0]) = {}
    BY <1>1, EmptyList
  <2> QED
    BY <2>1, NoneDistinct
<1>3. ASSUME NEW i \in 1..n, i - 1 \in T PROVE i \in T
  <2>1. Ok(i - 1)
    BY <1>3
  <2>2. List(f[i]) /\ Range(f[i]) = Range(f[i - 1]) \cup Range(ss[i])
    BY <1>1, <2>1, ConcatList
  <2>3. \A j \in 1..(i - 1) : j \in 1..n /\ j # i
    OBVIOUS
  <2>4. Disjoint(f[i - 1], ss[i], good)
    BY <2>1, <2>3 DEF Disjoint
  <2>5. DistinctIn(f[i], good)
    BY <1>1, <2>1, <2>4, ConcatDistinct
  <2>6. \A x \in Range(f[i]) : \E j \in 1..i : x \in Range(ss[j])
    <3>1. \A j \in 1..(i - 1) : j \in 1..i
      OBVIOUS
    <3> QED
      BY <2>1, <2>2, <3>1, i \in 1..i
  <2> QED
    BY <2>2, <2>5, <2>6
<1>4. n \in 0..n
  OBVIOUS
<1>5. n \in T
  <2> HIDE DEF T
  <2>1. \A i \in 0..n : i \in T
    BY <1>2, <1>3, Flatten!Induction
  <2> QED
    BY <1>4, <2>1
<1> QED
  BY <1>1, <1>5

\* What is kept of a list of which the good are distinct.
LEMMA KeptDistinct ==
    ASSUME NEW rows, List(rows), NEW good, DistinctIn(rows, good)
    PROVE  \A i, j \in DOMAIN kept(rows, good) :
             Series(kept(rows, good)[i]) = Series(kept(rows, good)[j]) => i = j
<1> DEFINE X == Range(rows)
           n == Len(rows)
<1>1. rows \in Seq(X) /\ n \in Nat /\ DOMAIN rows = 1..n /\ <<>> \in Seq(X)
  BY ListIs, EmptySeq DEF List
<1>2. PICK f : /\ f[0] = <<>> /\ kept(rows, good) = f[n] /\ f[n] \in Seq(X)
               /\ \A i \in 1..n :
                    /\ f[i] = IF rows[i] \in good THEN Append(f[i - 1], rows[i]) ELSE f[i - 1]
                    /\ f[i - 1] \in Seq(X)
  BY KeptSteps DEF KeepsStepwise
<1> DEFINE Ok(i) == /\ f[i] \in Seq(X)
                    /\ \A x \in Range(f[i]) : x \in good /\ \E j \in 1..i : x = rows[j]
                    /\ \A k, l \in DOMAIN f[i] : Series(f[i][k]) = Series(f[i][l]) => k = l
           T == {i \in Nat : Ok(i)}
<1>3. 0 \in T
  <2>1. f[0] \in Seq(X) /\ Range(f[0]) = {} /\ DOMAIN f[0] = {}
    BY <1>1, <1>2, EmptyList
  <2> QED
    BY <2>1
<1>4. ASSUME NEW i \in 1..n, i - 1 \in T PROVE i \in T
  <2>1. Ok(i - 1) /\ rows[i] \in X
    BY <1>1, <1>4, ElementOfSeq
  <2>2. \A j \in 1..(i - 1) : j \in 1..n /\ j # i /\ j \in 1..i
    OBVIOUS
  <2>3. CASE rows[i] \notin good
    <3>1. f[i] = f[i - 1]
      BY <1>2, <2>3
    <3> QED
      BY <2>1, <2>2, <3>1
  <2>4. CASE rows[i] \in good
    <3> DEFINE out == f[i - 1]
               m == Len(out)
    <3>1. f[i] = Append(out, rows[i])
      BY <1>2, <2>4
    <3>2. m \in Nat /\ DOMAIN out = 1..m /\ f[i] \in Seq(X)
      BY <2>1, <3>1, LenProperties, AppendProperties
    <3>3. /\ DOMAIN f[i] = 1..(m + 1) /\ f[i][m + 1] = rows[i]
          /\ \A k \in 1..m : f[i][k] = out[k]
      <4> HIDE DEF X
      <4> QED
        BY <2>1, <3>1, <3>2, AppendProperties, LenProperties
    <3>4. \A k \in 1..m : out[k] \in Range(out)
      BY <3>2 DEF Range
    <3>5. \A k \in 1..m : Series(out[k]) # Series(rows[i])
      BY <1>1, <2>1, <2>2, <2>4, <3>4 DEF DistinctIn
    <3>6. \A k, l \in 1..m : Series(out[k]) = Series(out[l]) => k = l
      BY <2>1, <3>2
    <3>7. \A x \in Range(out) : x \in good /\ \E j \in 1..(i - 1) : x = rows[j]
      BY <2>1
    <3> HIDE DEF out, m, X
    <3>8. \A k, l \in DOMAIN f[i] : Series(f[i][k]) = Series(f[i][l]) => k = l
      <4>1. ASSUME NEW k \in 1..(m + 1), NEW l \in 1..(m + 1), Series(f[i][k]) = Series(f[i][l])
            PROVE  k = l
        BY <3>2, <3>3, <3>5, <3>6, <4>1
      <4> QED
        BY <3>3, <4>1
    <3>9. \A x \in Range(f[i]) : x \in good /\ \E j \in 1..i : x = rows[j]
      <4>1. \A x \in Range(f[i]) : x \in Range(out) \/ x = rows[i]
        BY <3>2, <3>3, <3>4 DEF Range
      <4>2. i \in 1..i
        OBVIOUS
      <4> QED
        BY <2>2, <2>4, <3>7, <4>1, <4>2
    <3> QED
      BY <3>2, <3>8, <3>9
  <2> QED
    BY <2>3, <2>4
<1>5. n \in 0..n
  BY <1>1
<1>6. n \in T
  <2> HIDE DEF T, n
  <2>1. \A i \in 0..n : i \in T
    BY <1>1, <1>3, <1>4, Flatten!Induction
  <2> QED
    BY <1>5, <2>1
<1> QED
  BY <1>2, <1>6

\* A distinct list has as many series as it is long.
LEMMA DistinctCounted ==
    ASSUME NEW s, List(s), \A i, j \in DOMAIN s : Series(s[i]) = Series(s[j]) => i = j
    PROVE  Cardinality({Series(s[i]) : i \in DOMAIN s}) = Len(s)
<1> DEFINE n == Len(s)
           S == {Series(s[i]) : i \in DOMAIN s}
           f == [i \in 1..n |-> Series(s[i])]
<1>1. n \in Nat /\ DOMAIN s = 1..n
  BY ListIs
<1>2. /\ \A i \in 1..n : f[i] \in S
      /\ \A i, j \in 1..n : f[i] = f[j] => i = j
      /\ \A x \in S : \E i \in 1..n : f[i] = x
  BY <1>1
<1> HIDE DEF S, f, n
<1>3. Cardinality(S) = n
  BY <1>1, <1>2, Counted
<1> QED
  BY <1>3 DEF S, n

-----------------------------------------------------------------------------
(* What each part of the collector sends, of whatever was parsed for it.     *)

\* A list made of another, entry by entry.
LEMMA MapIs ==
    ASSUME NEW in, List(in), NEW E
    PROVE  LET out == [i \in DOMAIN in |-> E[in[i]]]
           IN  /\ List(out) /\ Len(out) = Len(in) /\ DOMAIN out = DOMAIN in
               /\ \A x : x \in Range(out) <=> \E p \in Range(in) : x = E[p]
<1> DEFINE out == [i \in DOMAIN in |-> E[in[i]]]
           n == Len(in)
<1>1. n \in Nat /\ DOMAIN in = 1..n /\ \A x : x \in Range(in) <=> \E i \in 1..n : x = in[i]
  BY ListIs
<1>2. out = [i \in 1..n |-> out[i]]
  BY <1>1
<1>3. \A i \in 1..n : out[i] = E[in[i]]
  BY <1>1
<1> HIDE DEF out, n
<1>4. List(out) /\ Len(out) = n /\ DOMAIN out = 1..n
      /\ \A x : x \in Range(out) <=> \E i \in 1..n : x = out[i]
  BY <1>1, <1>2, ArrayList
<1> QED
  BY <1>1, <1>3, <1>4 DEF out, n

\* each: everything sent of an entry, for every entry.
LEMMA EachIs ==
    ASSUME NEW in, List(in), NEW E, \A p \in Range(in) : List(E[p])
    PROVE  LET all == FlattenSeq([i \in DOMAIN in |-> E[in[i]]])
           IN  /\ List(all)
               /\ \A x : x \in Range(all) <=> \E p \in Range(in) : x \in Range(E[p])
<1> DEFINE ss == [i \in DOMAIN in |-> E[in[i]]]
           n == Len(in)
<1>1. n \in Nat /\ DOMAIN in = 1..n /\ \A x : x \in Range(in) <=> \E i \in 1..n : x = in[i]
  BY ListIs
<1>2. ss = [i \in 1..n |-> ss[i]]
  BY <1>1
<1>3. \A i \in 1..n : ss[i] = E[in[i]]
  BY <1>1
<1> HIDE DEF ss, n
<1>4. \A i \in 1..n : List(ss[i])
  BY <1>1, <1>3
<1>5. List(FlattenSeq(ss))
      /\ \A x : x \in Range(FlattenSeq(ss)) <=> \E i \in 1..n : x \in Range(ss[i])
  BY <1>1, <1>2, <1>4, FlattenIs
<1> QED
  BY <1>1, <1>3, <1>5 DEF ss

\* decodeList: the rows that decode.
LEMMA DecodedIs ==
    ASSUME NEW rows, List(rows)
    PROVE  List(decodeList(rows)) /\ Range(decodeList(rows)) = {w \in Range(rows) : w.ok = "all"}
BY KeptIs DEF decodeList

\* parsePorts: a row whose speed reads is a port.
LEMMA PortsParsed ==
    ASSUME NEW rows, List(rows)
    PROVE  /\ List(parsePorts(rows))
           /\ \A w \in Range(decodeList(rows)) : portReads(w.speed) =>
                [Name |-> w.name, Up |-> w.up, SpeedMbits |-> portSpeed(w.speed)]
                   \in Range(parsePorts(rows))
<1> DEFINE good == {w \in Range(rows) : portReads(w.speed)}
           in == kept(decodeList(rows), good)
           E == [w \in Range(in) |-> [Name |-> w.name, Up |-> w.up, SpeedMbits |-> portSpeed(w.speed)]]
<1>1. List(in) /\ Range(in) = Range(decodeList(rows)) \cap good
  <2> HIDE DEF good
  <2> QED
    BY DecodedIs, KeptIs
<1>2. \A w \in Range(decodeList(rows)) : portReads(w.speed) => w \in Range(in)
  BY <1>1, DecodedIs
<1>3. parsePorts(rows) = [i \in DOMAIN in |-> E[in[i]]]
  BY DEF parsePorts, Range
<1> HIDE DEF in, good
<1>4. List(parsePorts(rows)) /\ \A x : x \in Range(parsePorts(rows)) <=> \E w \in Range(in) : x = E[w]
  <2> DEFINE out == [i \in DOMAIN in |-> E[in[i]]]
  <2>1. List(out) /\ \A x : x \in Range(out) <=> \E w \in Range(in) : x = E[w]
    <3> HIDE DEF E
    <3> QED
      BY <1>1, MapIs
  <2> HIDE DEF out
  <2> QED
    BY <1>3, <2>1 DEF out
<1> QED
  BY <1>2, <1>4

\* collectPorts: of every port a speed, and nothing but links and speeds.
LEMMA PortsSent ==
    ASSUME NEW rows, List(rows)
    PROVE  /\ List(collectPorts(parsePorts(rows)))
           /\ \A x \in Range(collectPorts(parsePorts(rows))) : x.desc \in {"port_link", "port_speed"}
           /\ \A w \in Range(decodeList(rows)) : portReads(w.speed) =>
                Gauge("port_speed", <<w.name>>, portSpeed(w.speed))
                  \in Range(collectPorts(parsePorts(rows)))
<1> DEFINE in == parsePorts(rows)
           both(p) == gauge("port_link", <<p.Name>>, flagged(p.Up))
                        \o gauge("port_speed", <<p.Name>>, p.SpeedMbits)
           E == [p \in Range(in) |-> both(p)]
           out == collectPorts(in)
<1>1. List(in) 
  BY PortsParsed
<1>2. \A p : /\ List(both(p))
             /\ \A x : x \in Range(both(p)) <=>
                         \/ x = Gauge("port_link", <<p.Name>>, flagged(p.Up))
                         \/ x = Gauge("port_speed", <<p.Name>>, p.SpeedMbits)
  BY GaugeIs, ConcatList
<1>3. out = FlattenSeq([i \in DOMAIN in |-> E[in[i]]])
  BY DEF collectPorts, each, Range
<1> HIDE DEF in, both
<1>4. \A p \in Range(in) : List(E[p])
  BY <1>2
<1>5. List(out) /\ \A x : x \in Range(out) <=> \E p \in Range(in) : x \in Range(E[p])
  <2> HIDE DEF E, out
  <2> QED
    BY <1>1, <1>3, <1>4, EachIs
<1> HIDE DEF out
<1>6. \A x \in Range(out) : x.desc \in {"port_link", "port_speed"}
  BY <1>2, <1>5 DEF Gauge
<1>7. \A p \in Range(in) : Gauge("port_speed", <<p.Name>>, p.SpeedMbits) \in Range(out)
  BY <1>2, <1>5
<1>8. ASSUME NEW w \in Range(decodeList(rows)), portReads(w.speed)
      PROVE  Gauge("port_speed", <<w.name>>, portSpeed(w.speed)) \in Range(out)
  <2> DEFINE p == [Name |-> w.name, Up |-> w.up, SpeedMbits |-> portSpeed(w.speed)]
  <2>1. p \in Range(in)
    BY <1>8, PortsParsed DEF in
  <2> QED
    BY <2>1, <1>7
<1> QED
  BY <1>5, <1>6, <1>8 DEF out, in

\* A list of as many entries as another has.
LEMMA AnyMapIs ==
    ASSUME NEW in, List(in), NEW s, s = [i \in DOMAIN in |-> s[i]]
    PROVE  List(s)
BY ListIs, ArrayList

\* The parsers that keep every row that decodes give a list.
LEMMA TablesParsed ==
    ASSUME NEW rows, List(rows)
    PROVE  /\ List(parseMeshNodes(rows)) /\ List(parseReservations(rows))
           /\ List(parseTunnels(rows)) /\ List(parseVPNUsers(rows)) /\ List(parseARP(rows))
<1>1. List(decodeList(rows))
  BY DecodedIs
<1>2. List(parseMeshNodes(rows))
  BY <1>1, AnyMapIs DEF parseMeshNodes
<1>3. List(parseReservations(rows))
  BY <1>1, AnyMapIs DEF parseReservations
<1>4. List(parseTunnels(rows))
  BY <1>1, AnyMapIs DEF parseTunnels
<1>5. List(parseVPNUsers(rows))
  BY <1>1, AnyMapIs DEF parseVPNUsers
<1>6. List(parseARP(rows))
  BY <1>1, AnyMapIs DEF parseARP
<1> QED
  BY <1>2, <1>3, <1>4, <1>5, <1>6

\* parseLeases: every lease is of a row that decodes and whose time reads.
LEMMA LeasesParsed ==
    ASSUME NEW rows, List(rows)
    PROVE  /\ List(parseLeases(rows))
           /\ \A l \in Range(parseLeases(rows)) :
                \E w \in Range(decodeList(rows)) :
                   /\ leaseReads(w.leasetime) /\ l.left = w.leasetime
                   /\ l.MAC = NormalizeMAC(w.mac) /\ l.IP = w.ip
<1> DEFINE good == {w \in Range(rows) : leaseReads(w.leasetime)}
           in == kept(decodeList(rows), good)
           E == [w \in Range(in) |-> [MAC |-> NormalizeMAC(w.mac), IP |-> w.ip, left |-> w.leasetime]]
           out == [i \in DOMAIN in |-> E[in[i]]]
<1>1. List(in) /\ Range(in) = Range(decodeList(rows)) \cap good
  <2> HIDE DEF good
  <2> QED
    BY DecodedIs, KeptIs
<1>2. \A w \in Range(in) : w \in Range(decodeList(rows)) /\ leaseReads(w.leasetime)
  BY <1>1
<1>3. parseLeases(rows) = out
  BY DEF parseLeases, Range
<1> HIDE DEF in, good
<1>4. List(out) /\ \A x : x \in Range(out) <=> \E w \in Range(in) : x = E[w]
  <2> HIDE DEF E
  <2> QED
    BY <1>1, MapIs
<1> HIDE DEF out
<1> QED
  BY <1>2, <1>3, <1>4

\* collectDHCP.
LEMMA DHCPSent ==
    ASSUME NEW rows, List(rows), NEW reservations, List(reservations)
    PROVE  LET out == collectDHCP(parseLeases(rows), reservations)
           IN  /\ List(out)
               /\ \A x \in Range(out) :
                    x.desc \in {"lease_permanent", "lease_expiry", "reservation"}
               /\ \A x \in Range(out) : x.desc = "lease_expiry" =>
                    \E w \in Range(decodeList(rows)) :
                       /\ leaseReads(w.leasetime) /\ w.leasetime # Permanent
                       /\ x.labels = <<NormalizeMAC(w.mac), w.ip>>
                       /\ x.value = Remaining(w.leasetime)
<1> DEFINE in == parseLeases(rows)
           ofLease(l) == gauge("lease_permanent", <<l.MAC, l.IP>>, flagged(l.left = Permanent))
             \o (IF l.left = Permanent THEN <<>>
                 ELSE gauge("lease_expiry", <<l.MAC, l.IP>>, Remaining(l.left)))
           E == [l \in Range(in) |-> ofLease(l)]
           ofReservation(r) == gauge("reservation", <<r.MAC, r.IP>>, flagged(r.Enabled))
           F == [r \in Range(reservations) |-> ofReservation(r)]
           leases == FlattenSeq([i \in DOMAIN in |-> E[in[i]]])
           reserved == FlattenSeq([i \in DOMAIN reservations |-> F[reservations[i]]])
<1>1. List(in)
  BY LeasesParsed
<1>2. \A l : /\ List(ofLease(l))
             /\ \A x : x \in Range(ofLease(l)) =>
                         \/ x = Gauge("lease_permanent", <<l.MAC, l.IP>>, flagged(l.left = Permanent))
                         \/ /\ l.left # Permanent
                            /\ x = Gauge("lease_expiry", <<l.MAC, l.IP>>, Remaining(l.left))
  BY GaugeIs, ConcatList, EmptyList
<1>3. \A r : List(ofReservation(r)) /\ \A x \in Range(ofReservation(r)) : x.desc = "reservation"
  BY GaugeIs DEF Gauge
<1>4. collectDHCP(in, reservations) = leases \o reserved
  BY DEF collectDHCP, each, Range
<1> HIDE DEF in, ofLease, ofReservation
<1>5. List(leases) /\ \A x : x \in Range(leases) <=> \E l \in Range(in) : x \in Range(E[l])
  <2>1. \A l \in Range(in) : List(E[l])
    BY <1>2
  <2> HIDE DEF E
  <2> QED
    BY <1>1, <2>1, EachIs
<1>6. List(reserved) /\ \A x : x \in Range(reserved) <=> \E r \in Range(reservations) : x \in Range(F[r])
  <2>1. \A r \in Range(reservations) : List(F[r])
    BY <1>3
  <2> HIDE DEF F
  <2> QED
    BY <2>1, EachIs
<1> HIDE DEF leases, reserved
<1>7. \A x \in Range(reserved) : x.desc = "reservation"
  BY <1>3, <1>6
<1>8. \A x \in Range(leases) :
         \/ x.desc = "lease_permanent"
         \/ \E l \in Range(in) : /\ l.left # Permanent
                                 /\ x = Gauge("lease_expiry", <<l.MAC, l.IP>>, Remaining(l.left))
  BY <1>2, <1>5 DEF Gauge
<1>9. ASSUME NEW x \in Range(leases), x.desc = "lease_expiry"
      PROVE  \E w \in Range(decodeList(rows)) :
               /\ leaseReads(w.leasetime) /\ w.leasetime # Permanent
               /\ x.labels = <<NormalizeMAC(w.mac), w.ip>> /\ x.value = Remaining(w.leasetime)
  <2>1. PICK l \in Range(in) : /\ l.left # Permanent
                               /\ x = Gauge("lease_expiry", <<l.MAC, l.IP>>, Remaining(l.left))
    BY <1>8, <1>9
  <2>2. PICK w \in Range(decodeList(rows)) :
               /\ leaseReads(w.leasetime) /\ l.left = w.leasetime
               /\ l.MAC = NormalizeMAC(w.mac) /\ l.IP = w.ip
    BY LeasesParsed DEF in
  <2> QED
    BY <2>1, <2>2 DEF Gauge
<1>10. List(leases \o reserved) /\ Range(leases \o reserved) = Range(leases) \cup Range(reserved)
  BY <1>5, <1>6, ConcatList
<1>11. \A x \in Range(leases) : x.desc \in {"lease_permanent", "lease_expiry"}
  BY <1>8 DEF Gauge
<1> QED
  BY <1>4, <1>7, <1>9, <1>10, <1>11 DEF in

\* collectVPN.
LEMMA VPNSent ==
    ASSUME NEW tunnels, List(tunnels), NEW users, List(users)
    PROVE  LET out == collectVPN(tunnels, users)
           IN  /\ List(out)
               /\ \A x \in Range(out) : x.desc \in {"tunnel_info", "tunnel_up", "vpn_user_access"}
<1> DEFINE ofTunnel(t) == gauge("tunnel_info", <<t.Name, t.Endpoint>>, 1)
                            \o gauge("tunnel_up", <<t.Name>>, flagged(t.Up))
           ofUser(u) == gauge("vpn_user_access", <<u.MAC>>, flagged(u.Access))
           E == [t \in Range(tunnels) |-> ofTunnel(t)]
           F == [u \in Range(users) |-> ofUser(u)]
           first == FlattenSeq([i \in DOMAIN tunnels |-> E[tunnels[i]]])
           second == FlattenSeq([i \in DOMAIN users |-> F[users[i]]])
<1>1. \A t : List(ofTunnel(t)) /\ \A x \in Range(ofTunnel(t)) : x.desc \in {"tunnel_info", "tunnel_up"}
  BY GaugeIs, ConcatList DEF Gauge
<1>2. \A u : List(ofUser(u)) /\ \A x \in Range(ofUser(u)) : x.desc = "vpn_user_access"
  BY GaugeIs DEF Gauge
<1>3. collectVPN(tunnels, users) = first \o second
  BY DEF collectVPN, each, Range
<1> HIDE DEF ofTunnel, ofUser
<1>4. List(first) /\ \A x : x \in Range(first) <=> \E t \in Range(tunnels) : x \in Range(E[t])
  <2>1. \A t \in Range(tunnels) : List(E[t])
    BY <1>1
  <2> HIDE DEF E
  <2> QED
    BY <2>1, EachIs
<1>5. List(second) /\ \A x : x \in Range(second) <=> \E u \in Range(users) : x \in Range(F[u])
  <2>1. \A u \in Range(users) : List(F[u])
    BY <1>2
  <2> HIDE DEF F
  <2> QED
    BY <2>1, EachIs
<1> HIDE DEF first, second
<1>6. \A x \in Range(first) \cup Range(second) :
         x.desc \in {"tunnel_info", "tunnel_up", "vpn_user_access"}
  BY <1>1, <1>2, <1>4, <1>5
<1>7. List(first \o second) /\ Range(first \o second) = Range(first) \cup Range(second)
  BY <1>4, <1>5, ConcatList
<1> QED
  BY <1>3, <1>6, <1>7

\* collectNeighbours.
LEMMA NeighboursSent ==
    ASSUME NEW arp, List(arp), NEW mesh, List(mesh)
    PROVE  LET out == collectNeighbours(arp, mesh)
           IN  List(out) /\ \A x \in Range(out) : x.desc \in {"arp_entry", "mesh_node_up"}
<1> DEFINE ofEntry(e) == gauge("arp_entry", <<e.MAC, e.IP>>, 1)
           ofNode(n) == gauge("mesh_node_up", <<n.MAC>>, flagged(n.Up))
           E == [e \in Range(arp) |-> ofEntry(e)]
           F == [n \in Range(mesh) |-> ofNode(n)]
           first == FlattenSeq([i \in DOMAIN arp |-> E[arp[i]]])
           second == FlattenSeq([i \in DOMAIN mesh |-> F[mesh[i]]])
<1>1. \A e : List(ofEntry(e)) /\ \A x \in Range(ofEntry(e)) : x.desc = "arp_entry"
  BY GaugeIs DEF Gauge
<1>2. \A n : List(ofNode(n)) /\ \A x \in Range(ofNode(n)) : x.desc = "mesh_node_up"
  BY GaugeIs DEF Gauge
<1>3. collectNeighbours(arp, mesh) = first \o second
  BY DEF collectNeighbours, each, Range
<1> HIDE DEF ofEntry, ofNode
<1>4. List(first) /\ \A x : x \in Range(first) <=> \E e \in Range(arp) : x \in Range(E[e])
  <2>1. \A e \in Range(arp) : List(E[e])
    BY <1>1
  <2> HIDE DEF E
  <2> QED
    BY <2>1, EachIs
<1>5. List(second) /\ \A x : x \in Range(second) <=> \E n \in Range(mesh) : x \in Range(F[n])
  <2>1. \A n \in Range(mesh) : List(F[n])
    BY <1>2
  <2> HIDE DEF F
  <2> QED
    BY <2>1, EachIs
<1> HIDE DEF first, second
<1>6. \A x \in Range(first) \cup Range(second) : x.desc \in {"arp_entry", "mesh_node_up"}
  BY <1>1, <1>2, <1>4, <1>5
<1>7. List(first \o second) /\ Range(first \o second) = Range(first) \cup Range(second)
  BY <1>4, <1>5, ConcatList
<1> QED
  BY <1>3, <1>6, <1>7

\* The series x is the one reading v.
IsReading(x, desc, labels, v) == v # <<>> /\ x = Gauge(desc, labels, v[1])

\* collectWAN.
LEMMA WANSent ==
    ASSUME NEW w
    PROVE  /\ List(collectWAN(w))
           /\ \A x : x \in Range(collectWAN(w)) <=>
                \/ IsReading(x, "wan_speed", <<"rx">>, w.Down)
                \/ IsReading(x, "wan_speed_at", <<>>, w.SpeedTakenAt)
BY ReadingIs, ConcatList DEF collectWAN, IsReading

\* The bands in some order are the bands.
LEMMA BandsListed == List(SetToSeq(Bands)) /\ Range(SetToSeq(Bands)) = Bands
<1>1. IsFiniteSet({"2g"}) /\ IsFiniteSet({"5g"})
  BY FS_Singleton
<1>2. IsFiniteSet({"2g"} \cup {"5g"})
  BY <1>1, FS_Union
<1>3. Bands = {"2g"} \cup {"5g"}
  BY DEF Bands
<1> QED
  BY <1>2, <1>3, SetToSeqIs

\* collectWireless.
LEMMA WirelessSent ==
    ASSUME NEW radio
    PROVE  /\ List(collectWireless(radio))
           /\ \A x : x \in Range(collectWireless(radio)) <=>
                \E b \in Bands : \/ IsReading(x, "wifi_radio", <<b>>, radio[b].Enabled)
                                 \/ IsReading(x, "wifi_channel", <<b>>, radio[b].Channel)
<1> DEFINE in == SetToSeq(Bands)
           ofBand(b) == reading("wifi_radio", <<b>>, radio[b].Enabled)
                          \o reading("wifi_channel", <<b>>, radio[b].Channel)
           E == [b \in Range(in) |-> ofBand(b)]
           out == FlattenSeq([i \in DOMAIN in |-> E[in[i]]])
<1>1. List(in) /\ Range(in) = Bands
  BY BandsListed
<1>2. \A b : /\ List(ofBand(b))
             /\ \A x : x \in Range(ofBand(b)) <=>
                         \/ IsReading(x, "wifi_radio", <<b>>, radio[b].Enabled)
                         \/ IsReading(x, "wifi_channel", <<b>>, radio[b].Channel)
  BY ReadingIs, ConcatList DEF IsReading
<1>3. collectWireless(radio) = out
  BY DEF collectWireless, each, Range
<1> HIDE DEF in, ofBand
<1>4. List(out) /\ \A x : x \in Range(out) <=> \E b \in Range(in) : x \in Range(E[b])
  <2>1. \A b \in Range(in) : List(E[b])
    BY <1>2
  <2> HIDE DEF E
  <2> QED
    BY <1>1, <2>1, EachIs
<1> HIDE DEF out
<1> QED
  BY <1>1, <1>2, <1>3, <1>4

\* collectSecurity.
LEMMA SecuritySent ==
    ASSUME NEW s
    PROVE  /\ List(collectSecurity(s))
           /\ \A x : x \in Range(collectSecurity(s)) <=>
                \/ IsReading(x, "remote_management", <<>>, s.RemoteManagement)
                \/ IsReading(x, "upnp_enabled", <<>>, s.UPnPEnabled)
                \/ IsReading(x, "dmz", <<>>, s.DMZ)
                \/ IsReading(x, "firewall_ping", <<"lan">>, s.LANPing)
                \/ IsReading(x, "firewall_ping", <<"wan">>, s.WANPing)
                \/ IsReading(x, "upnp_mappings", <<>>, s.UPnPMappings)
                \/ IsReading(x, "port_forwards", <<"vs">>, s.PortForwards.vs)
                \/ IsReading(x, "port_forwards", <<"pt">>, s.PortForwards.pt)
                \/ \E b \in Bands : \/ IsReading(x, "guest_network", <<b>>, s.GuestNetworks[b])
                                    \/ IsReading(x, "iot_network", <<b>>, s.IoTNetworks[b])
<1> DEFINE in == SetToSeq(Bands)
           ofBand(b) == reading("guest_network", <<b>>, s.GuestNetworks[b])
                          \o reading("iot_network", <<b>>, s.IoTNetworks[b])
           E == [b \in Range(in) |-> ofBand(b)]
           bands == FlattenSeq([i \in DOMAIN in |-> E[in[i]]])
           r1 == reading("remote_management", <<>>, s.RemoteManagement)
           r2 == reading("upnp_enabled", <<>>, s.UPnPEnabled)
           r3 == reading("dmz", <<>>, s.DMZ)
           r4 == reading("firewall_ping", <<"lan">>, s.LANPing)
           r5 == reading("firewall_ping", <<"wan">>, s.WANPing)
           r6 == reading("upnp_mappings", <<>>, s.UPnPMappings)
           r7 == reading("port_forwards", <<"vs">>, s.PortForwards.vs)
           r8 == reading("port_forwards", <<"pt">>, s.PortForwards.pt)
<1>1. List(in) /\ Range(in) = Bands
  BY BandsListed
<1>2. \A b : /\ List(ofBand(b))
             /\ \A x : x \in Range(ofBand(b)) <=>
                         \/ IsReading(x, "guest_network", <<b>>, s.GuestNetworks[b])
                         \/ IsReading(x, "iot_network", <<b>>, s.IoTNetworks[b])
  BY ReadingIs, ConcatList DEF IsReading
<1>3. collectSecurity(s) = r1 \o r2 \o r3 \o r4 \o r5 \o r6 \o r7 \o r8 \o bands
  BY DEF collectSecurity, each, Range
<1> HIDE DEF in, ofBand
<1>4. List(bands) /\ \A x : x \in Range(bands) <=> \E b \in Range(in) : x \in Range(E[b])
  <2>1. \A b \in Range(in) : List(E[b])
    BY <1>2
  <2> HIDE DEF E
  <2> QED
    BY <1>1, <2>1, EachIs
<1> HIDE DEF bands
<1>5. \A x : x \in Range(bands) <=>
               \E b \in Bands : \/ IsReading(x, "guest_network", <<b>>, s.GuestNetworks[b])
                                \/ IsReading(x, "iot_network", <<b>>, s.IoTNetworks[b])
  BY <1>1, <1>2, <1>4
<1>6. /\ List(r1) /\ List(r2) /\ List(r3) /\ List(r4)
      /\ List(r5) /\ List(r6) /\ List(r7) /\ List(r8)
  BY ReadingIs
<1>7. \A x : /\ x \in Range(r1) <=> IsReading(x, "remote_management", <<>>, s.RemoteManagement)
             /\ x \in Range(r2) <=> IsReading(x, "upnp_enabled", <<>>, s.UPnPEnabled)
             /\ x \in Range(r3) <=> IsReading(x, "dmz", <<>>, s.DMZ)
             /\ x \in Range(r4) <=> IsReading(x, "firewall_ping", <<"lan">>, s.LANPing)
             /\ x \in Range(r5) <=> IsReading(x, "firewall_ping", <<"wan">>, s.WANPing)
             /\ x \in Range(r6) <=> IsReading(x, "upnp_mappings", <<>>, s.UPnPMappings)
             /\ x \in Range(r7) <=> IsReading(x, "port_forwards", <<"vs">>, s.PortForwards.vs)
             /\ x \in Range(r8) <=> IsReading(x, "port_forwards", <<"pt">>, s.PortForwards.pt)
  BY ReadingIs DEF IsReading
<1> HIDE DEF r1, r2, r3, r4, r5, r6, r7, r8
<1>8. /\ List(r1 \o r2 \o r3 \o r4 \o r5 \o r6 \o r7 \o r8 \o bands)
      /\ Range(r1 \o r2 \o r3 \o r4 \o r5 \o r6 \o r7 \o r8 \o bands) =
           Range(r1) \cup Range(r2) \cup Range(r3) \cup Range(r4) \cup Range(r5)
             \cup Range(r6) \cup Range(r7) \cup Range(r8) \cup Range(bands)
  BY <1>4, <1>6, ConcatList
<1> QED
  BY <1>3, <1>5, <1>7, <1>8

\* The values of a function on 1..n are finitely many.
LEMMA ImageIsFinite ==
    ASSUME NEW n \in Nat, NEW f, f = [i \in 1..n |-> f[i]]
    PROVE  IsFiniteSet({f[i] : i \in 1..n})
<1> DEFINE S == {f[i] : i \in 1..n}
<1>1. f \in Surjection(1..n, S)
  <2>1. f \in [1..n -> S] /\ \A t \in S : \E i \in 1..n : f[i] = t
    OBVIOUS
  <2> QED
    BY <2>1 DEF Surjection
<1>2. IsFiniteSet(1..n)
  BY FS_Interval
<1> HIDE DEF S
<1>3. IsFiniteSet(S)
  BY <1>1, <1>2, FS_Surjection
<1> QED
  BY <1>3 DEF S

\* The client of the first row of an address.
NewClient(w) == [MAC |-> NormalizeMAC(w.mac), Iface |-> w.iface, ConnectedAt |-> 0]

\* The fold of parseClients.
Firsts == INSTANCE FoldTheorems WITH
            op <- LAMBDA c, out, w :
                    IF Repeats(out, w) THEN out
                    ELSE Append(out, [MAC |-> NormalizeMAC(w.mac), Iface |-> w.iface,
                                      ConnectedAt |-> 0])

\* No two clients have one address.
DistinctMACs(clients) == \A i, j \in DOMAIN clients : clients[i].MAC = clients[j].MAC => i = j

\* parseClients: of each address one client, made of a row of that address.
LEMMA ClientsParsed ==
    ASSUME NEW rows, List(rows)
    PROVE  /\ List(parseClients(rows)) /\ DistinctMACs(parseClients(rows))
           /\ \A c \in Range(parseClients(rows)) :
                \E w \in Range(decodeList(rows)) : c = NewClient(w)
           /\ \A w \in Range(decodeList(rows)) :
                \E c \in Range(parseClients(rows)) : c.MAC = NormalizeMAC(w.mac)
<1> DEFINE in == decodeList(rows)
           W == Range(in)
           X == {NewClient(w) : w \in W}
           n == Len(in)
<1>1. in \in Seq(W) /\ n \in Nat /\ <<>> \in Seq(X)
  BY DecodedIs, ListIs, EmptySeq DEF List
<1> HIDE DEF in
<1>2. \A out \in Seq(X), w \in W : (IF Repeats(out, w) THEN out
                                    ELSE Append(out, [MAC |-> NormalizeMAC(w.mac), Iface |-> w.iface,
                                                      ConnectedAt |-> 0])) \in Seq(X)
  BY AppendProperties DEF NewClient
<1>3. PICK f \in [0..n -> Seq(X)] :
        Firsts!Steps(0, <<>>, in, f) /\ Firsts!Fold(0, <<>>, in) = f[n]
  <2> HIDE DEF X, W, n
  <2>1. Firsts!InSteps(0, Seq(X), <<>>, in, Firsts!Fold(0, <<>>, in))
    BY <1>1, <1>2, Firsts!FoldSteps
  <2> QED
    BY <2>1 DEF Firsts!InSteps, n
<1>4. Firsts!Fold(0, <<>>, in) = parseClients(rows)
  BY DEF Firsts!Fold, parseClients, Firsts!FoldLeft, FoldLeft, Firsts!MapThenFoldSet,
         MapThenFoldSet, Firsts!Max, Max, in
<1>5. f[0] = <<>> /\ \A i \in 1..n : f[i] = IF Repeats(f[i - 1], in[i]) THEN f[i - 1]
                                             ELSE Append(f[i - 1], NewClient(in[i]))
  BY <1>3 DEF Firsts!Steps, NewClient
<1> DEFINE Has(out, w) == \E k \in DOMAIN out : out[k].MAC = NormalizeMAC(w.mac)
           T == {i \in 0..n : DistinctMACs(f[i]) /\ \A j \in 1..i : Has(f[i], in[j])}
<1>6. 0 \in T
  BY <1>1, <1>5 DEF DistinctMACs
<1>7. ASSUME NEW i \in 1..n, i - 1 \in T PROVE i \in T
  <2>1. f[i - 1] \in Seq(X) /\ in[i] \in W /\ i \in 0..n
    BY <1>1, ElementOfSeq
  <2>2. DistinctMACs(f[i - 1]) /\ \A j \in 1..(i - 1) : Has(f[i - 1], in[j])
    BY <1>7
  <2>3. 1..i = (1..(i - 1)) \cup {i}
    OBVIOUS
  <2>4. CASE Repeats(f[i - 1], in[i])
    <3>1. f[i] = f[i - 1]
      BY <1>5, <2>4
    <3>2. Has(f[i - 1], in[i])
      BY <2>4 DEF Repeats
    <3> QED
      BY <2>1, <2>2, <2>3, <3>1, <3>2
  <2>5. CASE ~ Repeats(f[i - 1], in[i])
    <3> DEFINE out == f[i - 1]
               m == Len(out)
               c == NewClient(in[i])
    <3>1. f[i] = Append(out, c)
      BY <1>5, <2>5
    <3>2. m \in Nat /\ DOMAIN out = 1..m
      BY <2>1, LenProperties
    <3>3. /\ DOMAIN f[i] = 1..(m + 1) /\ f[i][m + 1] = c
          /\ \A k \in 1..m : f[i][k] = out[k]
      <4>1. c \in X
        BY <2>1
      <4> HIDE DEF X
      <4> QED
        BY <2>1, <3>1, <4>1, AppendProperties, LenProperties
    <3>4. c.MAC = NormalizeMAC(in[i].mac)
      BY DEF NewClient
    <3>5. \A k \in 1..m : out[k].MAC # c.MAC
      BY <2>5, <3>2, <3>4 DEF Repeats
    <3> HIDE DEF out, m, c
    <3>6. DistinctMACs(f[i])
      <4>1. \A k, l \in 1..m : out[k].MAC = out[l].MAC => k = l
        BY <2>2, <3>2 DEF DistinctMACs, out
      <4>2. ASSUME NEW k \in 1..(m + 1), NEW l \in 1..(m + 1), f[i][k].MAC = f[i][l].MAC
            PROVE  k = l
        BY <3>2, <3>3, <3>5, <4>1, <4>2
      <4> QED
        BY <3>3, <4>2 DEF DistinctMACs
    <3>7. \A j \in 1..(i - 1) : Has(f[i], in[j])
      <4> TAKE j \in 1..(i - 1)
      <4>1. PICK k \in 1..m : out[k].MAC = NormalizeMAC(in[j].mac)
        BY <2>2, <3>2 DEF out
      <4>2. k \in DOMAIN f[i] /\ f[i][k] = out[k]
        BY <3>2, <3>3
      <4> QED
        BY <4>1, <4>2
    <3>8. Has(f[i], in[i])
      BY <3>2, <3>3, <3>4
    <3> QED
      BY <2>1, <2>3, <3>6, <3>7, <3>8
  <2> QED
    BY <2>4, <2>5
<1>8. n \in T
  <2>1. \A i \in 0..n : i \in T
    <3> HIDE DEF T, n
    <3> QED
      BY <1>1, <1>6, <1>7, Firsts!Induction
  <2>2. n \in 0..n
    BY <1>1
  <2> HIDE DEF T, n
  <2> QED
    BY <2>1, <2>2
<1>9. \A w : w \in W <=> \E i \in 1..n : w = in[i]
  BY DecodedIs, ListIs DEF in
<1>10. List(f[n]) /\ Range(f[n]) \subseteq X
  BY <1>1, <1>3, SeqIsList
<1>11. \A w \in W : \E c \in Range(f[n]) : c.MAC = NormalizeMAC(w.mac)
  <2>1. DistinctMACs(f[n]) /\ \A j \in 1..n : Has(f[n], in[j])
    BY <1>8
  <2> HIDE DEF n, W
  <2> QED
    BY <1>9, <2>1 DEF Range
<1>12. DistinctMACs(f[n])
  BY <1>8
<1> QED
  BY <1>3, <1>4, <1>10, <1>11, <1>12 DEF in

\* The client of a row, with the time of its address.
Joined(w, times) ==
    [MAC |-> NormalizeMAC(w.mac), Iface |-> w.iface,
     ConnectedAt |-> IF NormalizeMAC(w.mac) \in DOMAIN times THEN times[NormalizeMAC(w.mac)] ELSE 0]

\* mergeClientTimes: each client with the time of its own address.
LEMMA ClientsMerged ==
    ASSUME NEW rows, List(rows), NEW times
    PROVE  LET clients == mergeClientTimes(parseClients(rows), times)
           IN  /\ List(clients) /\ DistinctMACs(clients)
               /\ \A c \in Range(clients) : \E w \in Range(decodeList(rows)) : c = Joined(w, times)
               /\ \A w \in Range(decodeList(rows)) :
                    \E c \in Range(clients) : c.MAC = NormalizeMAC(w.mac)
<1> DEFINE in == parseClients(rows)
           E == [c \in Range(in) |-> IF c.MAC \in DOMAIN times
                                     THEN [c EXCEPT !.ConnectedAt = times[c.MAC]] ELSE c]
           out == [i \in DOMAIN in |-> E[in[i]]]
<1>1. List(in) /\ DistinctMACs(in)
  BY ClientsParsed
<1>2. \A c \in Range(in) : \E w \in Range(decodeList(rows)) : c = NewClient(w)
  BY ClientsParsed
<1>3. \A w \in Range(decodeList(rows)) : \E c \in Range(in) : c.MAC = NormalizeMAC(w.mac)
  BY ClientsParsed
<1>4. mergeClientTimes(in, times) = out
  BY DEF mergeClientTimes, Range
<1> HIDE DEF in
<1>5. \A c \in Range(in) : E[c].MAC = c.MAC
  BY <1>2 DEF NewClient
<1>6. \A c \in Range(in) : \E w \in Range(decodeList(rows)) : E[c] = Joined(w, times)
  <2> TAKE c \in Range(in)
  <2>1. PICK w \in Range(decodeList(rows)) : c = NewClient(w)
    BY <1>2
  <2>2. E[c] = Joined(w, times)
    BY <2>1 DEF NewClient, Joined
  <2> QED
    BY <2>2
<1>7. /\ List(out) /\ DOMAIN out = DOMAIN in
      /\ \A x : x \in Range(out) <=> \E c \in Range(in) : x = E[c]
  <2> HIDE DEF E
  <2> QED
    BY <1>1, MapIs
<1>8. DistinctMACs(out)
  <2>1. \A i \in DOMAIN in : out[i].MAC = in[i].MAC
    BY <1>5 DEF Range
  <2> HIDE DEF out
  <2> QED
    BY <1>1, <1>7, <2>1 DEF DistinctMACs
<1> HIDE DEF out, E
<1> QED
  BY <1>3, <1>4, <1>5, <1>6, <1>7, <1>8 DEF in

\* collectClient.
LEMMA ClientSent ==
    ASSUME NEW c, NEW radio
    PROVE  /\ List(collectClient(c, radio))
           /\ \A x : x \in Range(collectClient(c, radio)) <=>
                \/ x = Gauge("client_info", <<c.MAC, c.Iface>>, 1)
                \/ c.ConnectedAt # 0 /\ x = Gauge("connected_since", <<c.MAC>>, c.ConnectedAt)
                \/ /\ c.MAC \in DOMAIN radio
                   /\ \/ IsReading(x, "signal_dbm", <<c.MAC>>, radio[c.MAC].SignalDBm)
                      \/ IsReading(x, "tx_rate", <<c.MAC>>, radio[c.MAC].TxMbits)
<1> DEFINE info == gauge("client_info", <<c.MAC, c.Iface>>, 1)
           since == IF c.ConnectedAt = 0 THEN <<>>
                    ELSE gauge("connected_since", <<c.MAC>>, c.ConnectedAt)
           heard == IF c.MAC \notin DOMAIN radio THEN <<>>
                    ELSE reading("signal_dbm", <<c.MAC>>, radio[c.MAC].SignalDBm)
                           \o reading("tx_rate", <<c.MAC>>, radio[c.MAC].TxMbits)
<1>1. /\ List(info)
      /\ \A x : x \in Range(info) <=> x = Gauge("client_info", <<c.MAC, c.Iface>>, 1)
  BY GaugeIs
<1>2. /\ List(since)
      /\ \A x : x \in Range(since) <=>
           c.ConnectedAt # 0 /\ x = Gauge("connected_since", <<c.MAC>>, c.ConnectedAt)
  BY GaugeIs, EmptyList
<1>3. /\ List(heard)
      /\ \A x : x \in Range(heard) <=>
           /\ c.MAC \in DOMAIN radio
           /\ \/ IsReading(x, "signal_dbm", <<c.MAC>>, radio[c.MAC].SignalDBm)
              \/ IsReading(x, "tx_rate", <<c.MAC>>, radio[c.MAC].TxMbits)
  BY ReadingIs, EmptyList, ConcatList DEF IsReading
<1>4. collectClient(c, radio) = info \o since \o heard
  BY DEF collectClient
<1> HIDE DEF info, since, heard
<1>5. /\ List(info \o since \o heard)
      /\ Range(info \o since \o heard) = Range(info) \cup Range(since) \cup Range(heard)
  BY <1>1, <1>2, <1>3, ConcatList
<1> QED
  BY <1>1, <1>2, <1>3, <1>4, <1>5

\* One series is distinct.
LEMMA GaugeDistinct ==
    ASSUME NEW desc, NEW labels, NEW v, NEW good
    PROVE  DistinctIn(gauge(desc, labels, v), good) /\ DistinctIn(reading(desc, labels, v), good)
<1>1. DOMAIN gauge(desc, labels, v) = {1}
  BY DEF gauge
<1>2. DOMAIN gauge(desc, labels, v[1]) = {1} /\ DOMAIN <<>> = {}
  BY DEF gauge
<1>3. DOMAIN reading(desc, labels, v) \subseteq {1}
  BY <1>2 DEF reading
<1> QED
  BY <1>1, <1>3 DEF DistinctIn

\* collectClient: no two series of one client are one.
LEMMA ClientDistinct ==
    ASSUME NEW c, NEW radio, NEW good
    PROVE  DistinctIn(collectClient(c, radio), good)
<1> DEFINE info == gauge("client_info", <<c.MAC, c.Iface>>, 1)
           since == IF c.ConnectedAt = 0 THEN <<>>
                    ELSE gauge("connected_since", <<c.MAC>>, c.ConnectedAt)
           signal == reading("signal_dbm", <<c.MAC>>, radio[c.MAC].SignalDBm)
           rate == reading("tx_rate", <<c.MAC>>, radio[c.MAC].TxMbits)
           heard == IF c.MAC \notin DOMAIN radio THEN <<>> ELSE signal \o rate
<1>1. /\ List(info) /\ DistinctIn(info, good)
      /\ \A x \in Range(info) : x.desc = "client_info"
  BY GaugeIs, GaugeDistinct DEF Gauge
<1>2. /\ List(since) /\ DistinctIn(since, good)
      /\ \A x \in Range(since) : x.desc = "connected_since"
  BY GaugeIs, GaugeDistinct, EmptyList, NoneDistinct DEF Gauge
<1>3. /\ List(signal) /\ DistinctIn(signal, good)
      /\ \A x \in Range(signal) : x.desc = "signal_dbm"
  BY ReadingIs, GaugeDistinct DEF Gauge
<1>4. /\ List(rate) /\ DistinctIn(rate, good)
      /\ \A x \in Range(rate) : x.desc = "tx_rate"
  BY ReadingIs, GaugeDistinct DEF Gauge
<1> HIDE DEF info, since, signal, rate
<1>5. /\ List(heard) /\ DistinctIn(heard, good)
      /\ \A x \in Range(heard) : x.desc \in {"signal_dbm", "tx_rate"}
  <2>1. Disjoint(signal, rate, good)
    BY <1>3, <1>4 DEF Disjoint, Series
  <2>2. DistinctIn(signal \o rate, good)
    BY <1>3, <1>4, <2>1, ConcatDistinct
  <2>3. List(signal \o rate) /\ Range(signal \o rate) = Range(signal) \cup Range(rate)
    BY <1>3, <1>4, ConcatList
  <2> QED
    BY <1>3, <1>4, <2>2, <2>3, EmptyList, NoneDistinct
<1>6. collectClient(c, radio) = info \o since \o heard
  BY DEF collectClient, info, since, signal, rate
<1> HIDE DEF heard
<1>7. List(info \o since) /\ Range(info \o since) = Range(info) \cup Range(since)
  BY <1>1, <1>2, ConcatList
<1>8. DistinctIn(info \o since, good)
  <2>1. Disjoint(info, since, good)
    BY <1>1, <1>2 DEF Disjoint, Series
  <2> QED
    BY <1>1, <1>2, <2>1, ConcatDistinct
<1>9. Disjoint(info \o since, heard, good)
  BY <1>1, <1>2, <1>5, <1>7 DEF Disjoint, Series
<1> QED
  BY <1>5, <1>6, <1>7, <1>8, <1>9, ConcatDistinct

\* collectClients in two halves: of each client, and of each interface.
Ifaces(clients) == {clients[i].Iface : i \in DOMAIN clients}
On(clients, iface) == Cardinality({i \in DOMAIN clients : clients[i].Iface = iface})
OfClients(clients, radio) == FlattenSeq([i \in DOMAIN clients |-> collectClient(clients[i], radio)])
OfIfaces(clients) ==
    FlattenSeq([i \in DOMAIN SetToSeq(Ifaces(clients)) |->
                  gauge("clients", <<SetToSeq(Ifaces(clients))[i]>>,
                        On(clients, SetToSeq(Ifaces(clients))[i]))])

\* Of each client: its series, and no two of them are one.
LEMMA OfClientsIs ==
    ASSUME NEW clients, List(clients), DistinctMACs(clients), NEW radio
    PROVE  LET out == OfClients(clients, radio)
           IN  /\ List(out)
               /\ \A x : x \in Range(out) <=> \E c \in Range(clients) : x \in Range(collectClient(c, radio))
               /\ \A good : DistinctIn(out, good)
<1> DEFINE n == Len(clients)
           ss == [i \in 1..n |-> collectClient(clients[i], radio)]
<1>1. n \in Nat /\ DOMAIN clients = 1..n /\ \A c : c \in Range(clients) <=> \E i \in 1..n : c = clients[i]
  BY ListIs
<1>2. \A i \in 1..n : List(ss[i]) /\ ss[i] = collectClient(clients[i], radio)
  BY ClientSent
<1>3. ss = [i \in 1..n |-> ss[i]]
  OBVIOUS
<1>4. OfClients(clients, radio) = FlattenSeq(ss)
  BY <1>1 DEF OfClients
<1>5. \A c, x : x \in Range(collectClient(c, radio)) => x.labels[1] = c.MAC
  BY ClientSent DEF IsReading, Gauge
<1> HIDE DEF ss, n
<1>6. List(FlattenSeq(ss)) /\ \A x : x \in Range(FlattenSeq(ss)) <=> \E i \in 1..n : x \in Range(ss[i])
  BY <1>1, <1>2, <1>3, FlattenIs
<1>7. ASSUME NEW good PROVE DistinctIn(FlattenSeq(ss), good)
  <2>1. \A i \in 1..n : DistinctIn(ss[i], good)
    BY <1>2, ClientDistinct
  <2>2. ASSUME NEW i \in 1..n, NEW j \in 1..n, i # j PROVE Disjoint(ss[i], ss[j], good)
    <3>1. clients[i].MAC # clients[j].MAC
      BY <1>1, <2>2 DEF DistinctMACs
    <3>2. \A x \in Range(ss[i]), y \in Range(ss[j]) : x.labels[1] # y.labels[1]
      BY <1>2, <1>5, <3>1
    <3> QED
      BY <3>2 DEF Disjoint, Series
  <2> QED
    BY <1>1, <1>2, <1>3, <2>1, <2>2, FlattenDistinct
<1> QED
  BY <1>1, <1>2, <1>4, <1>6, <1>7

\* The interfaces are finitely many.
LEMMA IfacesListed ==
    ASSUME NEW clients, List(clients)
    PROVE  IsFiniteSet(Ifaces(clients))
<1> DEFINE n == Len(clients)
           f == [i \in 1..n |-> clients[i].Iface]
<1>1. n \in Nat /\ DOMAIN clients = 1..n
  BY ListIs
<1>2. IsFiniteSet({f[i] : i \in 1..n})
  <2>1. f = [i \in 1..n |-> f[i]]
    OBVIOUS
  <2> HIDE DEF f, n
  <2> QED
    BY <1>1, <2>1, ImageIsFinite
<1>3. {f[i] : i \in 1..n} = Ifaces(clients)
  BY <1>1 DEF Ifaces
<1> QED
  BY <1>2, <1>3

\* Of each interface: the number of clients on it, once.
LEMMA OfIfacesIs ==
    ASSUME NEW clients, List(clients)
    PROVE  LET out == OfIfaces(clients)
           IN  /\ List(out)
               /\ \A x : x \in Range(out) <=>
                    \E iface \in Ifaces(clients) : x = Gauge("clients", <<iface>>, On(clients, iface))
               /\ \A good : DistinctIn(out, good)
<1> DEFINE S == Ifaces(clients)
           n == Cardinality(S)
           q == SetToSeq(S)
           ss == [i \in 1..n |-> gauge("clients", <<q[i]>>, On(clients, q[i]))]
<1>1. /\ List(q) /\ Range(q) = S /\ Len(q) = n
      /\ \A i, j \in 1..n : q[i] = q[j] => i = j
  BY IfacesListed, SetToSeqIs
<1>2. n \in Nat /\ DOMAIN q = 1..n /\ \A iface : iface \in S <=> \E i \in 1..n : iface = q[i]
  BY <1>1, ListIs
<1>3. \A i \in 1..n : /\ List(ss[i])
                      /\ ss[i] = gauge("clients", <<q[i]>>, On(clients, q[i]))
                      /\ \A x : x \in Range(ss[i]) <=> x = Gauge("clients", <<q[i]>>, On(clients, q[i]))
  BY GaugeIs
<1>4. ss = [i \in 1..n |-> ss[i]]
  OBVIOUS
<1>5. OfIfaces(clients) = FlattenSeq(ss)
  BY <1>2 DEF OfIfaces
<1> HIDE DEF ss, q, n, S
<1>6. List(FlattenSeq(ss)) /\ \A x : x \in Range(FlattenSeq(ss)) <=> \E i \in 1..n : x \in Range(ss[i])
  BY <1>2, <1>3, <1>4, FlattenIs
<1>7. \A x : x \in Range(FlattenSeq(ss)) <=>
               \E iface \in S : x = Gauge("clients", <<iface>>, On(clients, iface))
  <2> TAKE x
  <2>1. ASSUME x \in Range(FlattenSeq(ss))
        PROVE  \E iface \in S : x = Gauge("clients", <<iface>>, On(clients, iface))
    <3>1. PICK i \in 1..n : x \in Range(ss[i])
      BY <1>6, <2>1
    <3>2. q[i] \in S /\ x = Gauge("clients", <<q[i]>>, On(clients, q[i]))
      BY <1>2, <1>3, <3>1
    <3> QED
      BY <3>2
  <2>2. ASSUME NEW iface \in S, x = Gauge("clients", <<iface>>, On(clients, iface))
        PROVE  x \in Range(FlattenSeq(ss))
    <3>1. PICK i \in 1..n : iface = q[i]
      BY <1>2
    <3>2. x \in Range(ss[i])
      BY <1>3, <2>2, <3>1
    <3> QED
      BY <1>6, <3>2
  <2> QED
    BY <2>1, <2>2
<1>8. ASSUME NEW good PROVE DistinctIn(FlattenSeq(ss), good)
  <2>1. \A i \in 1..n : DistinctIn(ss[i], good)
    BY <1>3, GaugeDistinct
  <2>2. ASSUME NEW i \in 1..n, NEW j \in 1..n, i # j PROVE Disjoint(ss[i], ss[j], good)
    <3>1. <<q[i]>> # <<q[j]>>
      BY <1>1, <2>2
    <3>2. /\ \A x \in Range(ss[i]) : x.labels = <<q[i]>>
          /\ \A x \in Range(ss[j]) : x.labels = <<q[j]>>
      <4>1. \A iface : Gauge("clients", <<iface>>, On(clients, iface)).labels = <<iface>>
        BY DEF Gauge
      <4>2. \A x \in Range(ss[i]) : x = Gauge("clients", <<q[i]>>, On(clients, q[i]))
        BY <1>3
      <4>3. \A x \in Range(ss[j]) : x = Gauge("clients", <<q[j]>>, On(clients, q[j]))
        BY <1>3
      <4> QED
        BY <4>1, <4>2, <4>3
    <3> QED
      BY <3>1, <3>2 DEF Disjoint, Series
  <2> QED
    BY <1>2, <1>3, <1>4, <2>1, <2>2, FlattenDistinct
<1> QED
  BY <1>5, <1>6, <1>7, <1>8 DEF S

\* collectClients: the series of each client and the number on each interface, each once.
LEMMA ClientsAre ==
    ASSUME NEW clients, List(clients), DistinctMACs(clients), NEW radio
    PROVE  LET out == collectClients(clients, radio)
           IN  /\ List(out)
               /\ \A x : x \in Range(out) <=>
                    \/ \E c \in Range(clients) : x \in Range(collectClient(c, radio))
                    \/ \E iface \in Ifaces(clients) :
                         x = Gauge("clients", <<iface>>, On(clients, iface))
               /\ \A good : DistinctIn(out, good)
<1> DEFINE first == OfClients(clients, radio)
           second == OfIfaces(clients)
<1>1. collectClients(clients, radio) = first \o second
  BY DEF collectClients, each, OfClients, OfIfaces, On, Ifaces
<1>2. /\ List(first) /\ \A good : DistinctIn(first, good)
      /\ \A x : x \in Range(first) <=> \E c \in Range(clients) : x \in Range(collectClient(c, radio))
  BY OfClientsIs
<1>3. /\ List(second) /\ \A good : DistinctIn(second, good)
      /\ \A x : x \in Range(second) <=>
                    \E iface \in Ifaces(clients) : x = Gauge("clients", <<iface>>, On(clients, iface))
  BY OfIfacesIs
<1> HIDE DEF first, second
<1>4. List(first \o second) /\ Range(first \o second) = Range(first) \cup Range(second)
  BY <1>2, <1>3, ConcatList
<1>5. \A x \in Range(first) : x.desc # "clients"
  BY <1>2, ClientSent DEF IsReading, Gauge
<1>6. \A y \in Range(second) : y.desc = "clients"
  BY <1>3 DEF Gauge
<1>7. \A good : Disjoint(first, second, good)
  BY <1>5, <1>6 DEF Disjoint, Series
<1>8. \A good : DistinctIn(first \o second, good)
  BY <1>2, <1>3, <1>7, ConcatDistinct
<1> QED
  BY <1>1, <1>2, <1>3, <1>4, <1>8

\* max(0, a), as parseClientTimes takes it.
LEMMA MaxWithZero ==
    ASSUME NEW a \in Int
    PROVE  Max({0, a}) = IF a > 0 THEN a ELSE 0
<1>1. \E x \in {0, a} : \A y \in {0, a} : x >= y
  OBVIOUS
<1>2. Max({0, a}) \in {0, a} /\ \A y \in {0, a} : Max({0, a}) >= y
  BY <1>1 DEF Max
<1> QED
  BY <1>2

\* parseClientTimes: an address has a time if a row of it decodes, and the time is one
\* of its rows', or 0 if that is negative.
LEMMA TimesParsed ==
    ASSUME NEW rows, List(rows), \A w \in Range(decodeList(rows)) : w.access_time \in Int
    PROVE  LET times == parseClientTimes(rows)
           IN  /\ \A w \in Range(decodeList(rows)) : NormalizeMAC(w.mac) \in DOMAIN times
               /\ \A m \in DOMAIN times :
                    \E w \in Range(decodeList(rows)) :
                       /\ NormalizeMAC(w.mac) = m
                       /\ times[m] = IF w.access_time > 0 THEN w.access_time ELSE 0
<1> DEFINE in == decodeList(rows)
           n == Len(in)
           mac(i) == NormalizeMAC(in[i].mac)
           lasts == {i \in DOMAIN in : \A j \in (i + 1)..n : mac(j) # mac(i)}
           chosen(m) == CHOOSE i \in lasts : mac(i) = m
           times == [m \in {mac(i) : i \in lasts} |-> Max({0, in[chosen(m)].access_time})]
<1>1. parseClientTimes(rows) = times
  BY DEF parseClientTimes
<1>2. n \in Nat /\ DOMAIN in = 1..n /\ \A w : w \in Range(in) <=> \E i \in 1..n : w = in[i]
  BY DecodedIs, ListIs
<1>3. \A i \in 1..n : in[i].access_time \in Int /\ in[i] \in Range(in)
  BY <1>2
<1> HIDE DEF in, n
<1>4. ASSUME NEW i \in 1..n PROVE \E j \in lasts : mac(j) = mac(i)
  <2> DEFINE same == {j \in 1..n : mac(j) = mac(i)}
  <2>1. \E j \in same : \A k \in same : k <= j
    <3>1. same \in SUBSET (1..n) /\ same # {}
      OBVIOUS
    <3> HIDE DEF same
    <3> QED
      BY <1>2, <3>1, Select!MaxOfIndices
  <2>2. PICK j \in same : \A k \in same : k <= j
    BY <2>1
  <2>3. \A k \in (j + 1)..n : mac(k) # mac(j)
    BY <1>2, <2>2
  <2> QED
    BY <1>2, <2>2, <2>3
<1>5. ASSUME NEW w \in Range(in) PROVE NormalizeMAC(w.mac) \in DOMAIN times
  <2>1. PICK i \in 1..n : w = in[i]
    BY <1>2
  <2>2. PICK j \in lasts : mac(j) = mac(i)
    BY <1>4
  <2> QED
    BY <2>1, <2>2
<1>6. ASSUME NEW m \in DOMAIN times
      PROVE  \E w \in Range(in) : /\ NormalizeMAC(w.mac) = m
                                  /\ times[m] = IF w.access_time > 0 THEN w.access_time ELSE 0
  <2>1. chosen(m) \in lasts /\ mac(chosen(m)) = m
    OBVIOUS
  <2>2. chosen(m) \in 1..n
    BY <1>2, <2>1
  <2>3. times[m] = Max({0, in[chosen(m)].access_time})
    OBVIOUS
  <2> HIDE DEF chosen, times
  <2>4. in[chosen(m)].access_time \in Int /\ in[chosen(m)] \in Range(in)
    BY <1>3, <2>2
  <2> QED
    BY <2>1, <2>3, <2>4, MaxWithZero
<1> HIDE DEF times
<1> QED
  BY <1>1, <1>5, <1>6 DEF in

\* parseClientRadio: an address is heard as a row of it says.
LEMMA RadioParsed ==
    ASSUME NEW rows, List(rows)
    PROVE  \A m \in DOMAIN parseClientRadio(rows) :
             \E w \in Range(rows) :
                /\ NormalizeMAC(w.mac) = m
                /\ parseClientRadio(rows)[m].SignalDBm = radioSignal(w.signal)
                /\ parseClientRadio(rows)[m].TxMbits = radioRate(w.txrate)
<1> DEFINE good == {w \in Range(rows) : w.ok # "none"}
           in == kept(rows, good)
           mac(i) == NormalizeMAC(in[i].mac)
           said(i) == [SignalDBm |-> radioSignal(in[i].signal),
                       TxMbits   |-> radioRate(in[i].txrate)]
           firsts == {i \in DOMAIN in : \A j \in 1..(i - 1) : mac(j) # mac(i)}
           some == {i \in firsts : said(i) # [SignalDBm |-> <<>>, TxMbits |-> <<>>]}
           chosen(m) == CHOOSE i \in some : mac(i) = m
           radio == [m \in {mac(i) : i \in some} |-> said(chosen(m))]
<1>1. parseClientRadio(rows) = radio
  BY DEF parseClientRadio
<1>2. List(in) /\ Range(in) = Range(rows) \cap good
  <2> HIDE DEF good
  <2> QED
    BY KeptIs
<1> HIDE DEF good, in
<1>3. ASSUME NEW m \in DOMAIN radio
      PROVE  \E w \in Range(rows) : /\ NormalizeMAC(w.mac) = m
                                    /\ radio[m].SignalDBm = radioSignal(w.signal)
                                    /\ radio[m].TxMbits = radioRate(w.txrate)
  <2>1. chosen(m) \in some /\ mac(chosen(m)) = m
    OBVIOUS
  <2>2. chosen(m) \in DOMAIN in
    BY <2>1
  <2>3. radio[m] = said(chosen(m))
    OBVIOUS
  <2> HIDE DEF chosen, radio
  <2>4. in[chosen(m)] \in Range(rows)
    BY <1>2, <2>2 DEF Range
  <2> QED
    BY <2>1, <2>3, <2>4
<1> HIDE DEF radio
<1> QED
  BY <1>1, <1>3

-----------------------------------------------------------------------------
\* The rows that each endpoint may send.
RowsOf == [clients |-> ClientRows, times |-> TimeRows, leases |-> LeaseRows,
           ports |-> PortRows, mesh |-> MeshRows, reservations |-> ReservationRows,
           tunnels |-> TunnelRows, users |-> UserRows, arp |-> ARPRows, objects |-> Objects]

\* The replies are lists of what their endpoints send.
TypeOK == /\ replies = [t \in Tabled |-> replies[t]]
          /\ \A t \in Tabled : replies[t] \in Seq(RowsOf[t])

\* No endpoint has answered twice in the cycle.
OneAnswerEach ==
    \A i, j \in DOMAIN replies.objects : replies.objects[i].path = replies.objects[j].path => i = j

\* The inductive invariant.
Cycle == TypeOK /\ OneAnswerEach

\* Before the first reply.
LEMMA InitCycle == ASSUME Init PROVE Cycle
<1>1. replies = [t \in Tabled |-> <<>>]
  BY DEF Init
<1>2. \A t \in Tabled : <<>> \in Seq(RowsOf[t])
  BY EmptySeq
<1>3. TypeOK
  BY <1>1, <1>2 DEF TypeOK
<1>4. replies.objects = <<>>
  BY <1>1 DEF Tabled
<1>5. OneAnswerEach
  BY <1>4 DEF OneAnswerEach
<1> QED
  BY <1>3, <1>5 DEF Cycle

\* A row reported is the last of its table, and no other table changes.
LEMMA ReportKeeps ==
    ASSUME TypeOK, NEW table \in Tabled, NEW row \in RowsOf[table], Report(table, row)
    PROVE  /\ TypeOK' /\ replies'[table] = Append(replies[table], row)
           /\ \A t \in Tabled \ {table} : replies'[t] = replies[t]
<1>1. replies' = [t \in Tabled |-> IF t = table THEN Append(replies[table], row) ELSE replies[t]]
  BY DEF Report, TypeOK
<1>2. Append(replies[table], row) \in Seq(RowsOf[table])
  BY AppendProperties DEF TypeOK
<1> QED
  BY <1>1, <1>2 DEF TypeOK

\* Every reply keeps the invariant.
LEMMA NextCycle == ASSUME Cycle, [Next]_replies PROVE Cycle'
<1>1. ASSUME NEW table \in Tabled \ {"objects"}, NEW row \in RowsOf[table], Report(table, row)
      PROVE  Cycle'
  <2>1. TypeOK' /\ replies'.objects = replies.objects
    BY <1>1, ReportKeeps, "objects" \in Tabled DEF Tabled, Cycle
  <2> QED
    BY <2>1 DEF Cycle, OneAnswerEach
<1>2. CASE \E w \in ClientRows : Report("clients", w)
  BY <1>1, <1>2, RowsOf["clients"] = ClientRows DEF RowsOf, Tabled
<1>3. CASE \E w \in TimeRows : Report("times", w)
  BY <1>1, <1>3, RowsOf["times"] = TimeRows DEF RowsOf, Tabled
<1>4. CASE \E w \in LeaseRows : Report("leases", w)
  BY <1>1, <1>4, RowsOf["leases"] = LeaseRows DEF RowsOf, Tabled
<1>5. CASE \E w \in PortRows : Report("ports", w)
  BY <1>1, <1>5, RowsOf["ports"] = PortRows DEF RowsOf, Tabled
<1>6. CASE \E w \in MeshRows : Report("mesh", w)
  BY <1>1, <1>6, RowsOf["mesh"] = MeshRows DEF RowsOf, Tabled
<1>7. CASE \E w \in ReservationRows : Report("reservations", w)
  BY <1>1, <1>7, RowsOf["reservations"] = ReservationRows DEF RowsOf, Tabled
<1>8. CASE \E w \in TunnelRows : Report("tunnels", w)
  BY <1>1, <1>8, RowsOf["tunnels"] = TunnelRows DEF RowsOf, Tabled
<1>9. CASE \E w \in UserRows : Report("users", w)
  BY <1>1, <1>9, RowsOf["users"] = UserRows DEF RowsOf, Tabled
<1>11. CASE \E w \in ARPRows : Report("arp", w)
  BY <1>1, <1>11, RowsOf["arp"] = ARPRows DEF RowsOf, Tabled
<1>10. CASE \E w \in Objects : Answer(w)
  <2>1. PICK w \in Objects : Answer(w)
    BY <1>10
  <2>2. TypeOK' /\ replies'.objects = Append(replies.objects, w)
    BY <2>1, ReportKeeps, "objects" \in Tabled, RowsOf["objects"] = Objects
       DEF Cycle, Tabled, Answer, RowsOf
  <2> DEFINE old == replies.objects
             n == Len(old)
  <2>4. n \in Nat /\ DOMAIN old = 1..n
    BY LenProperties, "objects" \in Tabled DEF Cycle, TypeOK, Tabled
  <2>5. /\ DOMAIN Append(old, w) = 1..(n + 1) /\ Append(old, w)[n + 1] = w
        /\ \A k \in 1..n : Append(old, w)[k] = old[k]
    <3>1. old \in Seq(Objects) /\ w \in Objects
      BY "objects" \in Tabled, RowsOf["objects"] = Objects DEF Cycle, TypeOK, Tabled, RowsOf
    <3> HIDE DEF old
    <3> QED
      BY <3>1, AppendProperties, LenProperties DEF n
  <2>6. \A k \in 1..n : old[k].path # w.path
    BY <2>1, <2>4 DEF Answer
  <2>7. \A k, l \in 1..n : old[k].path = old[l].path => k = l
    BY <2>4 DEF Cycle, OneAnswerEach
  <2> DEFINE new == Append(old, w)
  <2>8. ASSUME NEW k \in 1..(n + 1), NEW l \in 1..(n + 1), new[k].path = new[l].path PROVE k = l
    <3> HIDE DEF new, n, old
    <3> QED
      BY <2>4, <2>5, <2>6, <2>7, <2>8 DEF new
  <2>9. OneAnswerEach'
    BY <2>2, <2>5, <2>8 DEF OneAnswerEach
  <2> QED
    BY <2>2, <2>9 DEF Cycle
<1>12. CASE UNCHANGED replies
  BY <1>12 DEF Cycle, TypeOK, OneAnswerEach
<1> QED
  BY <1>2, <1>3, <1>4, <1>5, <1>6, <1>7, <1>8, <1>9, <1>10, <1>11, <1>12 DEF Next

\* What a cycle's replies are, at every moment of it.
LEMMA CycleHolds == Spec => []Cycle
<1>1. Init => Cycle
  BY InitCycle
<1>2. Cycle /\ [Next]_replies => Cycle'
  BY NextCycle
<1> QED
  BY <1>1, <1>2, PTL DEF Spec

\* Each table is a list of rows of its own.
LEMMA TablesListed ==
    ASSUME TypeOK, NEW t \in Tabled
    PROVE  List(replies[t]) /\ Range(replies[t]) \subseteq RowsOf[t]
BY SeqIsList DEF TypeOK

\* What endpoint path says of the field, of a reply that can be read.
Says(path, field, w) == w \in Decoded("objects") /\ w.path = path /\ field \in DOMAIN w.fields

\* reply: the one object of its path that can be read, if there is one.
LEMMA ReplyIs ==
    ASSUME Cycle, NEW path
    PROVE  /\ \A w \in Decoded("objects") : w.path = path =>
                reply(path) # <<>> /\ reply(path)[1] = w
           /\ reply(path) # <<>> =>
                reply(path)[1] \in Decoded("objects") /\ reply(path)[1].path = path
<1> DEFINE rows == replies.objects
           good == {w \in Range(rows) : w.path = path /\ w.ok = "all"}
           r == reply(path)
<1>1. List(rows)
  BY TablesListed, "objects" \in Tabled DEF Cycle, Tabled
<1>2. List(r) /\ Range(r) = Range(rows) \cap good
  <2>1. r = kept(rows, good)
    BY DEF reply
  <2> HIDE DEF good, rows, r
  <2> QED
    BY <1>1, <2>1, KeptIs
<1>3. \A w : w \in Decoded("objects") /\ w.path = path <=> w \in Range(r)
  <2>1. Decoded("objects") = {w \in Range(rows) : w.ok = "all"}
    BY <1>1, DecodedIs DEF Decoded
  <2> QED
    BY <1>2, <2>1
<1>4. \A v, w \in Range(r) : v = w
  <2>1. \A w \in Range(r) : w \in Range(rows) /\ w.path = path
    BY <1>2
  <2>2. \A v, w \in Range(rows) : v.path = w.path => v = w
    BY DEF Cycle, OneAnswerEach, Range
  <2> QED
    BY <2>1, <2>2
<1>5. r # <<>> => r[1] \in Range(r)
  <2>1. Len(r) \in Nat /\ DOMAIN r = 1..Len(r) /\ (Len(r) = 0 => r = <<>>)
    BY <1>2, ListIs, EmptySeq DEF List
  <2> HIDE DEF r
  <2> QED
    BY <2>1 DEF Range
<1>6. \A w \in Range(r) : r # <<>>
  BY <1>2, EmptyList
<1> HIDE DEF r
<1>7. \A w \in Range(r) : r # <<>> /\ r[1] = w
  BY <1>4, <1>5, <1>6
<1> QED
  BY <1>3, <1>5, <1>7 DEF r

\* text: the word the endpoint has for the field, or none.
LEMMA TextIs ==
    ASSUME Cycle, NEW path, NEW field
    PROVE  /\ \A w : Says(path, field, w) => text(path, field) = <<w.fields[field]>>
           /\ text(path, field) # <<>> => \E w : Says(path, field, w)
<1>1. \A w \in Decoded("objects") : w.path = path => reply(path) # <<>> /\ reply(path)[1] = w
  BY ReplyIs
<1>2. reply(path) # <<>> => reply(path)[1] \in Decoded("objects") /\ reply(path)[1].path = path
  BY ReplyIs
<1> QED
  BY <1>1, <1>2 DEF text, Says

\* flag, bandFlag: 1 of a word for on, 0 of any other, nothing of nothing.
LEMMA FlagIs ==
    ASSUME NEW path, NEW field, NEW e, text(path, field) = <<e>>
    PROVE  flag(path, field) # <<>> /\ flag(path, field)[1] = flagged(onOff(e))
BY DEF flag, mapped

\* A switch of which the endpoint says nothing is not read.
LEMMA NoFlag ==
    ASSUME NEW path, NEW field, text(path, field) = <<>>
    PROVE  flag(path, field) = <<>>
BY DEF flag, mapped

\* bandFlag: 1 of the word on, 0 of any other.
LEMMA BandFlagIs ==
    ASSUME NEW field, NEW e, text("all", field) = <<e>>
    PROVE  bandFlag(field) # <<>> /\ bandFlag(field)[1] = flagged(e = "on")
BY DEF bandFlag, mapped

\* A band's switch that is not in the reply is not read.
LEMMA NoBandFlag ==
    ASSUME NEW field, text("all", field) = <<>>
    PROVE  bandFlag(field) = <<>>
BY DEF bandFlag, mapped

-----------------------------------------------------------------------------
\* The parts of what is collected.
Wan        == collectWAN(parseWANSpeed)
Ports      == collectPorts(parsePorts(replies.ports))
Wireless   == collectWireless(parseWireless)
Merged     == mergeClientTimes(parseClients(replies.clients), parseClientTimes(replies.times))
Clients    == collectClients(Merged, parseClientRadio(replies.clients))
DHCP       == collectDHCP(parseLeases(replies.leases), parseReservations(replies.reservations))
VPN        == collectVPN(parseTunnels(replies.tunnels), parseVPNUsers(replies.users))
Security   == collectSecurity(parseSecurity)
Neighbours == collectNeighbours(parseARP(replies.arp), parseMeshNodes(replies.mesh))

\* Every part of what is collected is a list.
LEMMA PartsListed ==
    ASSUME Cycle
    PROVE  /\ List(Wan) /\ List(Ports) /\ List(Wireless) /\ List(Clients) /\ List(DHCP)
           /\ List(VPN) /\ List(Security) /\ List(Neighbours)
<1>1. \A t \in Tabled : List(replies[t])
  BY TablesListed DEF Cycle
<1>2. /\ List(replies.clients) /\ List(replies.times) /\ List(replies.leases) /\ List(replies.ports)
      /\ List(replies.mesh) /\ List(replies.reservations) /\ List(replies.tunnels)
      /\ List(replies.users) /\ List(replies.arp)
  BY <1>1 DEF Tabled
<1>3. List(Wan) /\ List(Wireless) /\ List(Security)
  BY WANSent, WirelessSent, SecuritySent DEF Wan, Wireless, Security
<1>4. List(Ports)
  BY <1>2, PortsSent DEF Ports
<1>5. List(Clients)
  BY <1>2, ClientsMerged, ClientsAre DEF Clients, Merged
<1>6. List(DHCP)
  BY <1>2, TablesParsed, DHCPSent DEF DHCP
<1>7. List(VPN)
  BY <1>2, TablesParsed, VPNSent DEF VPN
<1>8. List(Neighbours)
  BY <1>2, TablesParsed, NeighboursSent DEF Neighbours
<1> QED
  BY <1>3, <1>4, <1>5, <1>6, <1>7, <1>8

\* What is collected is what its parts send.
LEMMA CollectedIs ==
    ASSUME Cycle
    PROVE  /\ List(Collected)
           /\ Range(Collected) =
                Range(Wan) \cup Range(Ports) \cup Range(Wireless) \cup Range(Clients) \cup Range(DHCP)
                  \cup Range(VPN) \cup Range(Security) \cup Range(Neighbours)
<1>1. Collected = Wan \o Ports \o Wireless \o Clients \o DHCP \o VPN \o Security \o Neighbours
  BY DEF Collected, Wan, Ports, Wireless, Clients, Merged, DHCP, VPN, Security, Neighbours
<1> QED
  BY <1>1, PartsListed, ConcatList

\* Served: nothing that was not collected, and a value of every series that was.
LEMMA ServedIs ==
    ASSUME Cycle
    PROVE  /\ List(Served) /\ Range(Served) \subseteq Range(Collected)
           /\ AllSeries(Served) = AllSeries(Collected)
BY CollectedIs, UnrepeatedIs DEF Served, continueOnError

\* continueOnError, metricsServer: whatever the router repeats, every series that was
\* collected is served.
THEOREM RepeatCostsOnlyItselfHolds == Spec => []RepeatCostsOnlyItself
<1>1. ASSUME Cycle PROVE RepeatCostsOnlyItself
  <2>1. AllSeries(Served) = AllSeries(Collected)
    BY <1>1, ServedIs
  <2>2. \A s : {Series(s[i]) : i \in DOMAIN s} = AllSeries(s)
    BY DEF AllSeries, Range
  <2> QED
    BY <2>1, <2>2 DEF RepeatCostsOnlyItself
<1> QED
  BY <1>1, CycleHolds, PTL

\* No two parts send of one desc.
LEMMA PartsOfDesc ==
    ASSUME Cycle
    PROVE  /\ \A x \in Range(Wan) : x.desc \in {"wan_speed", "wan_speed_at"}
           /\ \A x \in Range(Ports) : x.desc \in {"port_link", "port_speed"}
           /\ \A x \in Range(Wireless) : x.desc \in {"wifi_radio", "wifi_channel"}
           /\ \A x \in Range(Clients) :
                x.desc \in {"clients", "client_info", "connected_since", "signal_dbm", "tx_rate"}
           /\ \A x \in Range(DHCP) : x.desc \in {"lease_permanent", "lease_expiry", "reservation"}
           /\ \A x \in Range(VPN) : x.desc \in {"tunnel_info", "tunnel_up", "vpn_user_access"}
           /\ \A x \in Range(Security) :
                x.desc \in {"remote_management", "upnp_enabled", "dmz", "firewall_ping", "upnp_mappings",
                            "port_forwards", "guest_network", "iot_network"}
           /\ \A x \in Range(Neighbours) : x.desc \in {"arp_entry", "mesh_node_up"}
<1>1. \A t \in Tabled : List(replies[t])
  BY TablesListed DEF Cycle
<1>2. /\ List(replies.clients) /\ List(replies.times) /\ List(replies.leases) /\ List(replies.ports)
      /\ List(replies.mesh) /\ List(replies.reservations) /\ List(replies.tunnels)
      /\ List(replies.users) /\ List(replies.arp)
  BY <1>1 DEF Tabled
<1>3. \A x \in Range(Wan) : x.desc \in {"wan_speed", "wan_speed_at"}
  BY WANSent DEF Wan, IsReading, Gauge
<1>4. \A x \in Range(Ports) : x.desc \in {"port_link", "port_speed"}
  BY <1>2, PortsSent DEF Ports
<1>5. \A x \in Range(Wireless) : x.desc \in {"wifi_radio", "wifi_channel"}
  BY WirelessSent DEF Wireless, IsReading, Gauge
<1>6. \A x \in Range(Clients) :
        x.desc \in {"clients", "client_info", "connected_since", "signal_dbm", "tx_rate"}
  <2>1. List(Merged) /\ DistinctMACs(Merged)
    BY <1>2, ClientsMerged DEF Merged
  <2>2. \A x \in Range(Clients) : \/ x.desc = "clients"
                                  \/ \E c \in Range(Merged) :
                                       x \in Range(collectClient(c, parseClientRadio(replies.clients)))
    BY <2>1, ClientsAre DEF Clients, Gauge
  <2> QED
    BY <2>2, ClientSent DEF IsReading, Gauge
<1>7. \A x \in Range(DHCP) : x.desc \in {"lease_permanent", "lease_expiry", "reservation"}
  BY <1>2, TablesParsed, DHCPSent DEF DHCP
<1>8. \A x \in Range(VPN) : x.desc \in {"tunnel_info", "tunnel_up", "vpn_user_access"}
  BY <1>2, TablesParsed, VPNSent DEF VPN
<1>9. \A x \in Range(Security) :
        x.desc \in {"remote_management", "upnp_enabled", "dmz", "firewall_ping", "upnp_mappings",
                    "port_forwards", "guest_network", "iot_network"}
  BY SecuritySent DEF Security, IsReading, Gauge
<1>10. \A x \in Range(Neighbours) : x.desc \in {"arp_entry", "mesh_node_up"}
  BY <1>2, TablesParsed, NeighboursSent DEF Neighbours
<1> QED
  BY <1>3, <1>4, <1>5, <1>6, <1>7, <1>8, <1>9, <1>10

\* The series of one client.
LEMMA ClientSeries ==
    ASSUME Cycle, NEW x \in Range(Collected),
           x.desc \in {"client_info", "connected_since", "signal_dbm", "tx_rate"}
    PROVE  \E c \in Range(Merged) : x \in Range(collectClient(c, parseClientRadio(replies.clients)))
<1>1. x \in Range(Clients)
  BY CollectedIs, PartsOfDesc
<1>2. List(replies.clients)
  BY TablesListed, "clients" \in Tabled DEF Cycle, Tabled
<1>3. List(Merged) /\ DistinctMACs(Merged)
  BY <1>2, ClientsMerged DEF Merged
<1> QED
  BY <1>1, <1>3, ClientsAre DEF Clients, Gauge

\* The rows of the times table.
LEMMA TimesAre ==
    ASSUME Cycle
    PROVE  /\ List(replies.times) /\ \A w \in Decoded("times") : w.access_time \in Int
           /\ Decoded("times") = Range(decodeList(replies.times))
<1>1. List(replies.times) /\ Range(replies.times) \subseteq TimeRows
  BY TablesListed, "times" \in Tabled, RowsOf["times"] = TimeRows DEF Cycle, Tabled, RowsOf
<1>2. Decoded("times") = {w \in Range(replies.times) : w.ok = "all"}
  BY <1>1, DecodedIs DEF Decoded
<1> QED
  BY <1>1, <1>2, RowsAssumption DEF Decoded

\* connected_since: of a client whose address has a time, and the time is not 0.
LEMMA SinceIs ==
    ASSUME Cycle, NEW x \in Range(Collected), x.desc = "connected_since"
    PROVE  \E w \in Decoded("times") :
             /\ x.labels = <<NormalizeMAC(w.mac)>>
             /\ x.value = w.access_time /\ w.access_time > 0
<1> DEFINE times == parseClientTimes(replies.times)
<1>1. PICK c \in Range(Merged) : c.ConnectedAt # 0 /\ x = Gauge("connected_since", <<c.MAC>>, c.ConnectedAt)
  BY ClientSeries, ClientSent DEF Gauge, IsReading
<1>2. List(replies.clients)
  BY TablesListed, "clients" \in Tabled DEF Cycle, Tabled
<1>3. PICK v : c = Joined(v, times)
  BY <1>2, ClientsMerged DEF Merged
<1>4. c.MAC \in DOMAIN times /\ c.ConnectedAt = times[c.MAC]
  BY <1>1, <1>3 DEF Joined
<1>5. PICK w \in Range(decodeList(replies.times)) :
             /\ NormalizeMAC(w.mac) = c.MAC
             /\ times[c.MAC] = IF w.access_time > 0 THEN w.access_time ELSE 0
  BY <1>4, TimesAre, TimesParsed
<1>6. w \in Decoded("times") /\ w.access_time \in Int
  BY <1>5, TimesAre
<1> QED
  BY <1>1, <1>4, <1>5, <1>6 DEF Gauge

\* The rows of the clients table.
LEMMA ClientRowsAre ==
    ASSUME Cycle
    PROVE  /\ List(replies.clients)
           /\ \A w \in Range(replies.clients) : w.signal \in Seq(Int) /\ w.txrate \in Seq(Int)
           /\ Decoded("clients") = {w \in Range(replies.clients) : w.ok = "all"}
           /\ Decoded("clients") = Range(decodeList(replies.clients))
<1>1. List(replies.clients) /\ Range(replies.clients) \subseteq ClientRows
  BY TablesListed, "clients" \in Tabled, RowsOf["clients"] = ClientRows DEF Cycle, Tabled, RowsOf
<1> QED
  BY <1>1, DecodedIs, RowsAssumption DEF Decoded

\* signal_dbm, tx_rate: as a row of the address says, and it says something.
LEMMA HeardIs ==
    ASSUME Cycle, NEW x \in Range(Collected), x.desc \in {"signal_dbm", "tx_rate"}
    PROVE  \E w \in Range(replies.clients) :
             /\ x.labels = <<NormalizeMAC(w.mac)>>
             /\ x.desc = "signal_dbm" => radioSignal(w.signal) # <<>> /\ x.value = radioSignal(w.signal)[1]
             /\ x.desc = "tx_rate" => radioRate(w.txrate) # <<>> /\ x.value = radioRate(w.txrate)[1]
<1> DEFINE radio == parseClientRadio(replies.clients)
<1>1. PICK c \in Range(Merged) :
        /\ c.MAC \in DOMAIN radio
        /\ \/ IsReading(x, "signal_dbm", <<c.MAC>>, radio[c.MAC].SignalDBm)
           \/ IsReading(x, "tx_rate", <<c.MAC>>, radio[c.MAC].TxMbits)
  BY ClientSeries, ClientSent DEF Gauge
<1>2. PICK w \in Range(replies.clients) :
                /\ NormalizeMAC(w.mac) = c.MAC
                /\ radio[c.MAC].SignalDBm = radioSignal(w.signal)
                /\ radio[c.MAC].TxMbits = radioRate(w.txrate)
  BY <1>1, ClientRowsAre, RadioParsed
<1> QED
  BY <1>1, <1>2 DEF IsReading, Gauge

\* radioSignal: what it reads is below 0.
LEMMA SignalIs ==
    ASSUME NEW raw \in Seq(Int), radioSignal(raw) # <<>>
    PROVE  raw # <<>> /\ radioSignal(raw) = raw /\ raw[1] \in Int /\ raw[1] < 0
<1>1. raw # <<>> /\ radioSignal(raw) = raw /\ ~(raw[1] >= 0)
  BY DEF radioSignal
<1>2. raw[1] \in Int
  BY <1>1, EmptySeq
<1> QED
  BY <1>1, <1>2

\* radioRate: what it reads is above 0.
LEMMA RateIs ==
    ASSUME NEW raw \in Seq(Int), radioRate(raw) # <<>>
    PROVE  radioRate(raw)[1][1] > 0
<1>1. raw # <<>> /\ radioRate(raw) = <<<<raw[1], 1000>>>> /\ ~(raw[1] <= 0)
  BY DEF radioRate
<1>2. raw[1] \in Int
  BY <1>1, EmptySeq
<1> QED
  BY <1>1, <1>2

-----------------------------------------------------------------------------
\* The values of a series are those of the entries that have it.
LEMMA ValuesAre ==
    ASSUME NEW s, List(s), NEW desc, NEW labels
    PROVE  \A v : v \in ValuesOf(s, desc, labels) <=>
                    \E x \in Range(s) : Series(x) = <<desc, labels>> /\ x.value = v
BY DEF ValuesOf, Range

\* A series collected is served, and of the values collected for it.
LEMMA ValuesServed ==
    ASSUME Cycle, NEW desc, NEW labels
    PROVE  /\ ValuesOf(Served, desc, labels) \subseteq ValuesOf(Collected, desc, labels)
           /\ ValuesOf(Collected, desc, labels) # {} => ValuesOf(Served, desc, labels) # {}
<1>1. List(Collected) /\ List(Served)
  BY CollectedIs, ServedIs
<1>2. \A v : v \in ValuesOf(Served, desc, labels) <=>
               \E x \in Range(Served) : Series(x) = <<desc, labels>> /\ x.value = v
  BY <1>1, ValuesAre
<1>3. \A v : v \in ValuesOf(Collected, desc, labels) <=>
               \E x \in Range(Collected) : Series(x) = <<desc, labels>> /\ x.value = v
  BY <1>1, ValuesAre
<1>4. Range(Served) \subseteq Range(Collected)
  BY ServedIs
<1>5. ASSUME NEW x \in Range(Collected), Series(x) = <<desc, labels>>
      PROVE  \E y \in Range(Served) : Series(y) = <<desc, labels>>
  <2>1. Series(x) \in AllSeries(Served)
    BY ServedIs DEF AllSeries
  <2> QED
    BY <1>5, <2>1 DEF AllSeries
<1> QED
  BY <1>2, <1>3, <1>4, <1>5

\* NormalizeMAC: two spellings of one address are one, two addresses are two.
LEMMA OneSpelling ==
    ASSUME NEW v, NEW w, v.mac \in Addresses, w.mac \in Addresses
    PROVE  NormalizeMAC(v.mac) = NormalizeMAC(w.mac) <=> SameDevice(v, w)
<1>1. \A a \in Addresses : /\ a = <<a[1], a[2]>>
                           /\ a[2] \in {"dashes", "colons", "junk"}
  BY DEF Addresses
<1>2. \A a \in Addresses : /\ NormalizeMAC(a)[1] = a[1]
                           /\ NormalizeMAC(a)[2] = IF a[2] = "junk" THEN "junk" ELSE "colons"
                           /\ NormalizeMAC(a) = <<NormalizeMAC(a)[1], NormalizeMAC(a)[2]>>
  BY <1>1 DEF NormalizeMAC
<1> QED
  BY <1>1, <1>2 DEF SameDevice

\* A row's mac is an address in some spelling, or junk.
LEMMA AddressesAre ==
    ASSUME Cycle
    PROVE  /\ \A w \in Range(replies.clients) : w.mac \in Addresses
           /\ \A w \in Decoded("clients") : w.mac \in Addresses
           /\ \A w \in Decoded("times") : w.mac \in Addresses
<1>1. List(replies.clients) /\ Range(replies.clients) \subseteq ClientRows
  BY TablesListed, "clients" \in Tabled, RowsOf["clients"] = ClientRows DEF Cycle, Tabled, RowsOf
<1>2. List(replies.times) /\ Range(replies.times) \subseteq TimeRows
  BY TablesListed, "times" \in Tabled, RowsOf["times"] = TimeRows DEF Cycle, Tabled, RowsOf
<1>3. /\ Decoded("clients") \subseteq Range(replies.clients)
      /\ Decoded("times") \subseteq Range(replies.times)
  BY <1>1, <1>2, DecodedIs DEF Decoded
<1> QED
  BY <1>1, <1>2, <1>3, RowsAssumption

\* A client whose address has a time that is not 0 is served one.
LEMMA SinceServed ==
    ASSUME Cycle, NEW c \in Decoded("clients"), NEW t \in Decoded("times"),
           NormalizeMAC(t.mac) = NormalizeMAC(c.mac),
           \A w \in Decoded("times") : NormalizeMAC(w.mac) = NormalizeMAC(c.mac) => w.access_time > 0
    PROVE  ValuesOf(Served, "connected_since", <<NormalizeMAC(c.mac)>>) # {}
<1> DEFINE times == parseClientTimes(replies.times)
           radio == parseClientRadio(replies.clients)
           m == NormalizeMAC(c.mac)
<1>1. PICK cl \in Range(Merged) : cl.MAC = m
  BY ClientRowsAre, ClientsMerged DEF Merged
<1>2. PICK v : cl = Joined(v, times)
  BY ClientRowsAre, ClientsMerged DEF Merged
<1>3. m \in DOMAIN times
  BY TimesAre, TimesParsed
<1>4. PICK w \in Range(decodeList(replies.times)) :
             /\ NormalizeMAC(w.mac) = m
             /\ times[m] = IF w.access_time > 0 THEN w.access_time ELSE 0
  BY <1>3, TimesAre, TimesParsed
<1>5. w.access_time \in Int /\ w.access_time > 0
  BY <1>4, TimesAre
<1>6. cl.ConnectedAt = times[m] /\ cl.ConnectedAt # 0
  BY <1>1, <1>2, <1>3, <1>4, <1>5 DEF Joined
<1> DEFINE x == Gauge("connected_since", <<m>>, cl.ConnectedAt)
<1>7. x \in Range(collectClient(cl, radio))
  BY <1>1, <1>6, ClientSent
<1>8. x \in Range(Clients)
  BY <1>1, <1>7, ClientRowsAre, ClientsMerged, ClientsAre DEF Clients, Merged
<1>9. x \in Range(Collected) /\ List(Collected)
  BY <1>8, CollectedIs
<1>10. Series(x) = <<"connected_since", <<m>>>> /\ x.value = cl.ConnectedAt
  BY DEF Gauge, Series
<1>11. cl.ConnectedAt \in ValuesOf(Collected, "connected_since", <<m>>)
  BY <1>9, <1>10, ValuesAre
<1> QED
  BY <1>11, ValuesServed

\* mergeClientTimes, parseClientRadio, collectClients: however many rows a device has and
\* however its address is spelled in them, the times and signals served of it are its own.
THEOREM JoinedByAddressHolds == Spec => []JoinedByAddress
<1>1. ASSUME Cycle PROVE JoinedByAddress
  <2> SUFFICES ASSUME NEW c \in Decoded("clients")
               PROVE  LET mine(rows) == {w \in rows : SameDevice(c, w)}
                          since == ValuesOf(Served, "connected_since", <<NormalizeMAC(c.mac)>>)
                          signal == ValuesOf(Served, "signal_dbm", <<NormalizeMAC(c.mac)>>)
                          times == {w.access_time : w \in mine(Decoded("times"))}
                      IN /\ since \subseteq times
                         /\ times # {} /\ (\A t \in times : t > 0) => since # {}
                         /\ signal \subseteq {w.signal[1] : w \in {v \in mine(Range(replies.clients)) : v.signal # <<>>}}
    BY DEF JoinedByAddress
  <2> DEFINE m == NormalizeMAC(c.mac)
             since == ValuesOf(Served, "connected_since", <<m>>)
             signal == ValuesOf(Served, "signal_dbm", <<m>>)
             times == {w.access_time : w \in {v \in Decoded("times") : SameDevice(c, v)}}
  <2>1. List(Served) /\ Range(Served) \subseteq Range(Collected)
    BY <1>1, ServedIs
  <2>2. /\ \A w \in Decoded("times") : NormalizeMAC(w.mac) = m <=> SameDevice(c, w)
        /\ \A w \in Range(replies.clients) : NormalizeMAC(w.mac) = m <=> SameDevice(c, w)
    BY <1>1, AddressesAre, OneSpelling
  <2>3. ASSUME NEW u \in since PROVE u \in times
    <3>1. PICK x \in Range(Served) : Series(x) = <<"connected_since", <<m>>>> /\ x.value = u
      BY <2>1, ValuesAre
    <3>2. x \in Range(Collected) /\ x.desc = "connected_since" /\ x.labels = <<m>>
      BY <2>1, <3>1 DEF Series
    <3>3. PICK w \in Decoded("times") : x.labels = <<NormalizeMAC(w.mac)>> /\ x.value = w.access_time
      BY <1>1, <3>2, SinceIs
    <3>4. NormalizeMAC(w.mac) = m
      BY <3>2, <3>3
    <3> QED
      BY <2>2, <3>1, <3>3, <3>4
  <2>4. ASSUME times # {}, \A t \in times : t > 0 PROVE since # {}
    <3>1. PICK t \in Decoded("times") : NormalizeMAC(t.mac) = m
      BY <2>2, <2>4
    <3>2. \A w \in Decoded("times") : NormalizeMAC(w.mac) = m => w.access_time > 0
      BY <2>2, <2>4
    <3> QED
      BY <1>1, <3>1, <3>2, SinceServed
  <2>5. ASSUME NEW u \in signal
        PROVE  \E w \in Range(replies.clients) : SameDevice(c, w) /\ w.signal # <<>> /\ u = w.signal[1]
    <3>1. PICK x \in Range(Served) : Series(x) = <<"signal_dbm", <<m>>>> /\ x.value = u
      BY <2>1, ValuesAre
    <3>2. x \in Range(Collected) /\ x.desc = "signal_dbm" /\ x.labels = <<m>>
      BY <2>1, <3>1 DEF Series
    <3>3. PICK w \in Range(replies.clients) :
            /\ x.labels = <<NormalizeMAC(w.mac)>>
            /\ radioSignal(w.signal) # <<>> /\ x.value = radioSignal(w.signal)[1]
      BY <1>1, <3>2, HeardIs
    <3>4. w.signal \in Seq(Int)
      BY <1>1, ClientRowsAre
    <3>5. w.signal # <<>> /\ u = w.signal[1]
      BY <3>1, <3>3, <3>4, SignalIs
    <3>6. NormalizeMAC(w.mac) = m
      BY <3>2, <3>3
    <3> QED
      BY <2>2, <3>5, <3>6
  <2> QED
    BY <2>3, <2>4, <2>5
<1> QED
  BY <1>1, CycleHolds, PTL

-----------------------------------------------------------------------------
\* A switch of which the collector sends the one reading v.
OnlyReading(desc, labels, v) ==
    \A x : x \in Range(Collected) /\ Series(x) = <<desc, labels>> <=> IsReading(x, desc, labels, v)

\* What the router said of a switch.
Said(path, field) == {w.fields[field] : w \in {v \in Decoded("objects") :
                                                  v.path = path /\ field \in DOMAIN v.fields}}

\* A series that only one reading is collected of is served with its value.
LEMMA OnlyReadingServed ==
    ASSUME Cycle, NEW desc, NEW labels, NEW v, OnlyReading(desc, labels, v)
    PROVE  ValuesOf(Served, desc, labels) = IF v = <<>> THEN {} ELSE {v[1]}
<1>1. List(Collected)
  BY CollectedIs
<1>2. ValuesOf(Collected, desc, labels) = IF v = <<>> THEN {} ELSE {v[1]}
  <2>1. \A u : u \in ValuesOf(Collected, desc, labels) <=>
                 \E x \in Range(Collected) : Series(x) = <<desc, labels>> /\ x.value = u
    BY <1>1, ValuesAre
  <2>2. \A x : x \in Range(Collected) /\ Series(x) = <<desc, labels>> <=>
                 v # <<>> /\ x = Gauge(desc, labels, v[1])
    BY DEF OnlyReading, IsReading
  <2>3. Gauge(desc, labels, v[1]).value = v[1]
    BY DEF Gauge
  <2> QED
    BY <2>1, <2>2, <2>3
<1> QED
  BY <1>2, ValuesServed

\* A switch is on if its word is one of the words for on, off of another word.
LEMMA SwitchIs ==
    ASSUME Cycle, NEW path, NEW field, NEW desc, NEW labels, NEW v, NEW on,
           OnlyReading(desc, labels, v),
           text(path, field) = <<>> => v = <<>>,
           \A e : text(path, field) = <<e>> => v # <<>> /\ v[1] = flagged(e \in on)
    PROVE  /\ 1 \in ValuesOf(Served, desc, labels) <=> Said(path, field) \cap on # {}
           /\ 0 \in ValuesOf(Served, desc, labels) <=> Said(path, field) \ on # {}
<1>1. ValuesOf(Served, desc, labels) = IF v = <<>> THEN {} ELSE {v[1]}
  BY OnlyReadingServed
<1>2. CASE text(path, field) = <<>>
  <2>1. Said(path, field) = {}
    BY <1>2, TextIs DEF Said, Says
  <2> QED
    BY <1>1, <1>2, <2>1
<1>3. CASE text(path, field) # <<>>
  <2>1. PICK w : Says(path, field, w)
    BY <1>3, TextIs
  <2> DEFINE e == w.fields[field]
  <2>2. text(path, field) = <<e>>
    BY <2>1, TextIs
  <2>3. Said(path, field) = {e}
    <3>1. \A u : Says(path, field, u) => u.fields[field] = e
      BY <2>2, TextIs
    <3> QED
      BY <2>1, <3>1 DEF Said, Says
  <2>4. v # <<>> /\ v[1] = flagged(e \in on)
    BY <2>2
  <2> HIDE DEF e
  <2> QED
    BY <1>1, <2>3, <2>4 DEF flagged
<1> QED
  BY <1>2, <1>3

\* A reading of collectSecurity that is the only one of its series there is the only
\* one collected.
LEMMA SecurityReading ==
    ASSUME Cycle, NEW desc, NEW labels, NEW v,
           desc \in {"remote_management", "upnp_enabled", "dmz", "firewall_ping",
                     "guest_network", "iot_network"},
           \A x : IsReading(x, desc, labels, v) => x \in Range(Security),
           \A x \in Range(Security) : x.desc = desc /\ x.labels = labels => IsReading(x, desc, labels, v)
    PROVE  OnlyReading(desc, labels, v)
<1>1. \A x \in Range(Collected) : x.desc = desc => x \in Range(Security)
  BY CollectedIs, PartsOfDesc
<1>2. Range(Security) \subseteq Range(Collected)
  BY CollectedIs
<1>3. \A x : IsReading(x, desc, labels, v) => Series(x) = <<desc, labels>>
  BY DEF IsReading, Gauge, Series
<1>4. \A x : Series(x) = <<desc, labels>> => x.desc = desc /\ x.labels = labels
  BY DEF Series
<1> QED
  BY <1>1, <1>2, <1>3, <1>4 DEF OnlyReading

\* The switches outside the bands.
LEMMA SecurityReadings ==
    ASSUME Cycle
    PROVE  /\ OnlyReading("remote_management", <<>>, flag("remote", "enable"))
           /\ OnlyReading("upnp_enabled", <<>>, flag("upnp", "enable"))
           /\ OnlyReading("dmz", <<>>, flag("dmz", "enable"))
           /\ OnlyReading("firewall_ping", <<"lan">>, flag("firewall", "lan_ping"))
           /\ OnlyReading("firewall_ping", <<"wan">>, flag("firewall", "wan_ping"))
           /\ \A b \in Bands : /\ OnlyReading("guest_network", <<b>>, bandFlag(guest_enable(b)))
                               /\ OnlyReading("iot_network", <<b>>, bandFlag(iot_enable(b)))
<1> DEFINE s == parseSecurity
<1>1. /\ s.RemoteManagement = flag("remote", "enable") /\ s.UPnPEnabled = flag("upnp", "enable")
      /\ s.DMZ = flag("dmz", "enable") /\ s.LANPing = flag("firewall", "lan_ping")
      /\ s.WANPing = flag("firewall", "wan_ping")
      /\ \A b \in Bands : /\ s.GuestNetworks[b] = bandFlag(guest_enable(b))
                          /\ s.IoTNetworks[b] = bandFlag(iot_enable(b))
  BY DEF parseSecurity
<1>2. \A x : x \in Range(Security) <=>
                \/ IsReading(x, "remote_management", <<>>, s.RemoteManagement)
                \/ IsReading(x, "upnp_enabled", <<>>, s.UPnPEnabled)
                \/ IsReading(x, "dmz", <<>>, s.DMZ)
                \/ IsReading(x, "firewall_ping", <<"lan">>, s.LANPing)
                \/ IsReading(x, "firewall_ping", <<"wan">>, s.WANPing)
                \/ IsReading(x, "upnp_mappings", <<>>, s.UPnPMappings)
                \/ IsReading(x, "port_forwards", <<"vs">>, s.PortForwards.vs)
                \/ IsReading(x, "port_forwards", <<"pt">>, s.PortForwards.pt)
                \/ \E b \in Bands : \/ IsReading(x, "guest_network", <<b>>, s.GuestNetworks[b])
                                    \/ IsReading(x, "iot_network", <<b>>, s.IoTNetworks[b])
  BY SecuritySent DEF Security
<1> HIDE DEF s
<1>3. \A x, desc, labels, v : IsReading(x, desc, labels, v) => x.desc = desc /\ x.labels = labels
  BY DEF IsReading, Gauge
<1>4. \A x \in Range(Security) :
         /\ x.desc = "remote_management" => IsReading(x, "remote_management", <<>>, s.RemoteManagement)
         /\ x.desc = "upnp_enabled" => IsReading(x, "upnp_enabled", <<>>, s.UPnPEnabled)
         /\ x.desc = "dmz" => IsReading(x, "dmz", <<>>, s.DMZ)
         /\ x.desc = "firewall_ping" /\ x.labels = <<"lan">> =>
              IsReading(x, "firewall_ping", <<"lan">>, s.LANPing)
         /\ x.desc = "firewall_ping" /\ x.labels = <<"wan">> =>
              IsReading(x, "firewall_ping", <<"wan">>, s.WANPing)
         /\ \A b \in Bands :
              /\ x.desc = "guest_network" /\ x.labels = <<b>> =>
                   IsReading(x, "guest_network", <<b>>, s.GuestNetworks[b])
              /\ x.desc = "iot_network" /\ x.labels = <<b>> =>
                   IsReading(x, "iot_network", <<b>>, s.IoTNetworks[b])
  <2> TAKE x \in Range(Security)
  <2>1. /\ x.desc = "remote_management" => IsReading(x, "remote_management", <<>>, s.RemoteManagement)
        /\ x.desc = "upnp_enabled" => IsReading(x, "upnp_enabled", <<>>, s.UPnPEnabled)
        /\ x.desc = "dmz" => IsReading(x, "dmz", <<>>, s.DMZ)
    BY <1>2, <1>3
  <2>2. /\ x.desc = "firewall_ping" /\ x.labels = <<"lan">> =>
             IsReading(x, "firewall_ping", <<"lan">>, s.LANPing)
        /\ x.desc = "firewall_ping" /\ x.labels = <<"wan">> =>
             IsReading(x, "firewall_ping", <<"wan">>, s.WANPing)
    <3>1. <<"lan">> # <<"wan">>
      OBVIOUS
    <3>2. x.desc = "firewall_ping" => \/ IsReading(x, "firewall_ping", <<"lan">>, s.LANPing)
                                      \/ IsReading(x, "firewall_ping", <<"wan">>, s.WANPing)
      BY <1>2, <1>3
    <3> QED
      BY <1>3, <3>1, <3>2
  <2>3. ASSUME NEW b \in Bands
        PROVE  /\ x.desc = "guest_network" /\ x.labels = <<b>> =>
                    IsReading(x, "guest_network", <<b>>, s.GuestNetworks[b])
               /\ x.desc = "iot_network" /\ x.labels = <<b>> =>
                    IsReading(x, "iot_network", <<b>>, s.IoTNetworks[b])
    <3>1. \A c : <<c>> = <<b>> => c = b
      OBVIOUS
    <3>2. ASSUME x.desc = "guest_network", x.labels = <<b>>
          PROVE  IsReading(x, "guest_network", <<b>>, s.GuestNetworks[b])
      <4>1. \E c \in Bands : \/ IsReading(x, "guest_network", <<c>>, s.GuestNetworks[c])
                            \/ IsReading(x, "iot_network", <<c>>, s.IoTNetworks[c])
        BY <1>2, <3>2 DEF IsReading, Gauge
      <4>2. PICK c \in Bands : IsReading(x, "guest_network", <<c>>, s.GuestNetworks[c])
        BY <3>2, <4>1 DEF IsReading, Gauge
      <4>3. <<c>> = <<b>>
        BY <3>2, <4>2 DEF IsReading, Gauge
      <4> QED
        BY <3>1, <4>2, <4>3
    <3>3. ASSUME x.desc = "iot_network", x.labels = <<b>>
          PROVE  IsReading(x, "iot_network", <<b>>, s.IoTNetworks[b])
      <4>1. \E c \in Bands : \/ IsReading(x, "guest_network", <<c>>, s.GuestNetworks[c])
                            \/ IsReading(x, "iot_network", <<c>>, s.IoTNetworks[c])
        BY <1>2, <3>3 DEF IsReading, Gauge
      <4>2. PICK c \in Bands : IsReading(x, "iot_network", <<c>>, s.IoTNetworks[c])
        BY <3>3, <4>1 DEF IsReading, Gauge
      <4>3. <<c>> = <<b>>
        BY <3>3, <4>2 DEF IsReading, Gauge
      <4> QED
        BY <3>1, <4>2, <4>3
    <3> QED
      BY <3>2, <3>3
  <2> QED
    BY <2>1, <2>2, <2>3
<1>5. /\ OnlyReading("remote_management", <<>>, s.RemoteManagement)
      /\ OnlyReading("upnp_enabled", <<>>, s.UPnPEnabled)
      /\ OnlyReading("dmz", <<>>, s.DMZ)
  BY <1>2, <1>4, SecurityReading
<1>6. /\ OnlyReading("firewall_ping", <<"lan">>, s.LANPing)
      /\ OnlyReading("firewall_ping", <<"wan">>, s.WANPing)
  BY <1>2, <1>4, SecurityReading
<1>7. ASSUME NEW b \in Bands
      PROVE  /\ OnlyReading("guest_network", <<b>>, s.GuestNetworks[b])
             /\ OnlyReading("iot_network", <<b>>, s.IoTNetworks[b])
  <2>1. OnlyReading("guest_network", <<b>>, s.GuestNetworks[b])
    <3>1. \A x : IsReading(x, "guest_network", <<b>>, s.GuestNetworks[b]) => x \in Range(Security)
      BY <1>2
    <3> QED
      BY <1>4, <3>1, SecurityReading
  <2>2. OnlyReading("iot_network", <<b>>, s.IoTNetworks[b])
    <3>1. \A x : IsReading(x, "iot_network", <<b>>, s.IoTNetworks[b]) => x \in Range(Security)
      BY <1>2
    <3> QED
      BY <1>4, <3>1, SecurityReading
  <2> QED
    BY <2>1, <2>2
<1> QED
  BY <1>1, <1>5, <1>6, <1>7

\* The radio of a band.
LEMMA WirelessReading ==
    ASSUME Cycle, NEW b \in Bands
    PROVE  OnlyReading("wifi_radio", <<b>>, bandFlag(wireless_enable(b)))
<1> DEFINE v == bandFlag(wireless_enable(b))
<1>1. parseWireless[b].Enabled = v
  BY DEF parseWireless
<1>2. \A x : x \in Range(Wireless) <=>
               \E c \in Bands : \/ IsReading(x, "wifi_radio", <<c>>, parseWireless[c].Enabled)
                                \/ IsReading(x, "wifi_channel", <<c>>, parseWireless[c].Channel)
  BY WirelessSent DEF Wireless
<1>3. \A x, desc, labels, u : IsReading(x, desc, labels, u) => x.desc = desc /\ x.labels = labels
  BY DEF IsReading, Gauge
<1>4. \A x \in Range(Collected) : x.desc = "wifi_radio" => x \in Range(Wireless)
  BY CollectedIs, PartsOfDesc
<1>5. Range(Wireless) \subseteq Range(Collected)
  BY CollectedIs
<1> HIDE DEF v
<1>6. \A c : <<c>> = <<b>> => c = b
  OBVIOUS
<1>7. \A x \in Range(Wireless) : x.desc = "wifi_radio" /\ x.labels = <<b>> =>
                                   IsReading(x, "wifi_radio", <<b>>, v)
  BY <1>1, <1>2, <1>3, <1>6
<1>8. \A x : IsReading(x, "wifi_radio", <<b>>, v) => x \in Range(Wireless)
  BY <1>1, <1>2
<1>9. \A x : Series(x) = <<"wifi_radio", <<b>>>> <=> x.desc = "wifi_radio" /\ x.labels = <<b>>
  BY DEF Series
<1> QED
  BY <1>3, <1>4, <1>5, <1>7, <1>8, <1>9 DEF OnlyReading, v

\* Every switch is served of the router's word for it.
LEMMA SwitchesServed ==
    ASSUME Cycle, NEW x \in Switches
    PROVE  LET said  == Said(x[1], x[2])
               shown == ValuesOf(Served, x[3], x[4])
               on    == IF x[1] = "all" THEN {"on"} ELSE {"on", "true"}
           IN  (1 \in shown <=> said \cap on # {}) /\ (0 \in shown <=> said \ on # {})
<1> DEFINE Good(path, field, desc, labels, on) ==
             /\ 1 \in ValuesOf(Served, desc, labels) <=> Said(path, field) \cap on # {}
             /\ 0 \in ValuesOf(Served, desc, labels) <=> Said(path, field) \ on # {}
<1>1. ASSUME NEW path, NEW field, NEW desc, NEW labels, OnlyReading(desc, labels, flag(path, field))
      PROVE  Good(path, field, desc, labels, {"on", "true"})
  <2>1. text(path, field) = <<>> => flag(path, field) = <<>>
    BY NoFlag
  <2>2. \A e : text(path, field) = <<e>> =>
                 flag(path, field) # <<>> /\ flag(path, field)[1] = flagged(e \in {"on", "true"})
    BY FlagIs DEF onOff
  <2> QED
    BY <1>1, <2>1, <2>2, SwitchIs
<1>2. ASSUME NEW field, NEW desc, NEW labels, OnlyReading(desc, labels, bandFlag(field))
      PROVE  Good("all", field, desc, labels, {"on"})
  <2>1. text("all", field) = <<>> => bandFlag(field) = <<>>
    BY NoBandFlag
  <2>2. \A e : text("all", field) = <<e>> =>
                 bandFlag(field) # <<>> /\ bandFlag(field)[1] = flagged(e \in {"on"})
    <3>1. \A e : e \in {"on"} <=> e = "on"
      OBVIOUS
    <3> QED
      BY BandFlagIs, <3>1 DEF flagged
  <2> QED
    BY <1>2, <2>1, <2>2, SwitchIs
<1> HIDE DEF Good
<1>3. /\ Good("remote", "enable", "remote_management", <<>>, {"on", "true"})
      /\ Good("upnp", "enable", "upnp_enabled", <<>>, {"on", "true"})
      /\ Good("dmz", "enable", "dmz", <<>>, {"on", "true"})
      /\ Good("firewall", "lan_ping", "firewall_ping", <<"lan">>, {"on", "true"})
      /\ Good("firewall", "wan_ping", "firewall_ping", <<"wan">>, {"on", "true"})
  BY <1>1, SecurityReadings
<1>4. "2g" \in Bands /\ "5g" \in Bands
  BY DEF Bands
<1>5. Good("all", "wireless_2g_enable", "wifi_radio", <<"2g">>, {"on"})
  BY <1>2, <1>4, WirelessReading DEF wireless_enable
<1>6. /\ Good("all", "guest_2g_enable", "guest_network", <<"2g">>, {"on"})
      /\ Good("all", "guest_5g_enable", "guest_network", <<"5g">>, {"on"})
  BY <1>2, <1>4, SecurityReadings DEF guest_enable
<1>7. /\ Good("all", "iot_2g_enable", "iot_network", <<"2g">>, {"on"})
      /\ Good("all", "iot_5g_enable", "iot_network", <<"5g">>, {"on"})
  BY <1>2, <1>4, SecurityReadings DEF iot_enable
<1> DEFINE on == IF x[1] = "all" THEN {"on"} ELSE {"on", "true"}
<1>8. Good(x[1], x[2], x[3], x[4], on)
  BY <1>3, <1>5, <1>6, <1>7 DEF Switches
<1> QED
  BY <1>8 DEF Good

\* A speed test is stamped with a time, and a channel is a channel.
LEMMA StampIs ==
    ASSUME Cycle, NEW x \in Range(Collected)
    PROVE  /\ x.desc = "wan_speed_at" => x.value > 0
           /\ x.desc = "wifi_channel" => x.value # "auto"
<1>1. ASSUME x.desc = "wan_speed_at" PROVE x.value > 0
  <2> DEFINE at == text("wan_speed", "test_time")
  <2>1. IsReading(x, "wan_speed_at", <<>>, stamped(at))
    <3>1. x \in Range(Wan)
      BY <1>1, CollectedIs, PartsOfDesc
    <3>2. parseWANSpeed.SpeedTakenAt = stamped(at)
      BY DEF parseWANSpeed
    <3> QED
      BY <1>1, <3>1, <3>2, WANSent DEF Wan, IsReading, Gauge
  <2>2. at # <<>> /\ ~(at[1] <= 0) /\ x.value = at[1]
    BY <2>1 DEF IsReading, Gauge, stamped
  <2>3. PICK w : Says("wan_speed", "test_time", w)
    BY <2>2, TextIs
  <2>4. at[1] = w.fields["test_time"]
    BY <2>3, TextIs
  <2>5. w \in Objects
    <3>1. List(replies.objects) /\ Range(replies.objects) \subseteq Objects
      BY TablesListed, "objects" \in Tabled, RowsOf["objects"] = Objects DEF Cycle, Tabled, RowsOf
    <3> QED
      BY <2>3, <3>1, DecodedIs DEF Says, Decoded
  <2>6. w.fields["test_time"] \in Int
    BY <2>3, <2>5, RowsAssumption DEF Says
  <2> HIDE DEF at
  <2> QED
    BY <2>2, <2>4, <2>6
<1>2. ASSUME x.desc = "wifi_channel" PROVE x.value # "auto"
  <2>1. x \in Range(Wireless)
    BY <1>2, CollectedIs, PartsOfDesc
  <2>2. PICK b \in Bands : IsReading(x, "wifi_channel", <<b>>, parseWireless[b].Channel)
    BY <1>2, <2>1, WirelessSent DEF Wireless, IsReading, Gauge
  <2> DEFINE t == text("all", wireless_channel(b))
  <2>3. parseWireless[b].Channel = channel(t)
    BY DEF parseWireless
  <2>4. t = <<>> \/ \E e : t = <<e>>
    BY TextIs
  <2>5. channel(t) # <<>> /\ x.value = channel(t)[1]
    BY <2>2, <2>3 DEF IsReading, Gauge
  <2> HIDE DEF t
  <2> QED
    BY <2>4, <2>5 DEF channel
<1> QED
  BY <1>1, <1>2

\* A lease expires in the hours, minutes and seconds that its row has left.
LEMMA ExpiryIs ==
    ASSUME Cycle, NEW x \in Range(Collected), x.desc = "lease_expiry"
    PROVE  \E w \in Decoded("leases") :
             /\ x.labels = <<NormalizeMAC(w.mac), w.ip>> /\ Len(w.leasetime) = 3
             /\ w.leasetime[2] \in 0..59 /\ w.leasetime[3] \in 0..59
             /\ x.value \div 3600 = w.leasetime[1]
<1>1. List(replies.leases) /\ Range(replies.leases) \subseteq LeaseRows
  BY TablesListed, "leases" \in Tabled, RowsOf["leases"] = LeaseRows DEF Cycle, Tabled, RowsOf
<1>2. List(replies.reservations)
  BY TablesListed, "reservations" \in Tabled DEF Cycle, Tabled
<1>3. x \in Range(DHCP)
  BY CollectedIs, PartsOfDesc
<1>4. PICK w \in Range(decodeList(replies.leases)) :
         /\ leaseReads(w.leasetime) /\ w.leasetime # Permanent
         /\ x.labels = <<NormalizeMAC(w.mac), w.ip>> /\ x.value = Remaining(w.leasetime)
  BY <1>1, <1>2, <1>3, TablesParsed, DHCPSent DEF DHCP
<1>5. w \in Decoded("leases") /\ w.leasetime \in Seq(Int)
  BY <1>1, DecodedIs, RowsAssumption DEF Decoded
<1> DEFINE t == w.leasetime
<1>6. Len(t) = 3 /\ t[1] >= 0 /\ t[2] >= 0 /\ t[3] >= 0 /\ t[2] <= 59 /\ t[3] <= 59
  BY <1>4 DEF leaseReads
<1>7. t[1] \in Int /\ t[2] \in Int /\ t[3] \in Int
  BY <1>5, <1>6, ElementOfSeq
<1> HIDE DEF t
<1>8. (3600 * t[1] + 60 * t[2] + t[3]) \div 3600 = t[1]
  <2>1. \A h, r \in Int : 0 <= r /\ r < 3600 => (3600 * h + r) \div 3600 = h
    OBVIOUS
  <2>2. /\ 60 * t[2] + t[3] \in Int /\ 0 <= 60 * t[2] + t[3] /\ 60 * t[2] + t[3] < 3600
        /\ 3600 * t[1] + 60 * t[2] + t[3] = 3600 * t[1] + (60 * t[2] + t[3])
    BY <1>6, <1>7
  <2> QED
    BY <1>7, <2>1, <2>2
<1>9. t[2] \in 0..59 /\ t[3] \in 0..59
  BY <1>6, <1>7
<1>10. x.value = 3600 * t[1] + 60 * t[2] + t[3]
  BY <1>4 DEF t, Remaining
<1> QED
  BY <1>4, <1>5, <1>6, <1>8, <1>9, <1>10 DEF t

\* A dark port is served a speed.
LEMMA DarkPortServed ==
    ASSUME Cycle, NEW w \in Decoded("ports"), w.speed = ""
    PROVE  ValuesOf(Served, "port_speed", <<w.name>>) # {}
<1>1. List(replies.ports)
  BY TablesListed, "ports" \in Tabled DEF Cycle, Tabled
<1> DEFINE x == Gauge("port_speed", <<w.name>>, portSpeed(w.speed))
<1>2. x \in Range(Ports)
  BY <1>1, PortsSent DEF Ports, Decoded, portReads
<1>3. x \in Range(Collected) /\ List(Collected)
  BY <1>2, CollectedIs
<1>4. Series(x) = <<"port_speed", <<w.name>>>> /\ x.value = portSpeed(w.speed)
  BY DEF Gauge, Series
<1>5. portSpeed(w.speed) \in ValuesOf(Collected, "port_speed", <<w.name>>)
  BY <1>3, <1>4, ValuesAre
<1> QED
  BY <1>5, ValuesServed

\* radioSignal, radioRate, parseLeaseRemaining, portSpeed, parseWANSpeed, parseSecurity,
\* collectSecurity: no word for "no value" is served as a value, for any reply, and every
\* switch is served as the router has it.
THEOREM NoReadingIsInventedHolds == Spec => []NoReadingIsInvented
<1>1. ASSUME Cycle PROVE NoReadingIsInvented
  <2>1. ASSUME NEW i \in DOMAIN Served
        PROVE  LET s == Served[i]
               IN /\ s.desc = "signal_dbm" => s.value < 0
                  /\ s.desc \in {"connected_since", "wan_speed_at"} => s.value > 0
                  /\ s.desc = "tx_rate" => s.value[1] > 0
                  /\ s.desc = "wifi_channel" => s.value # "auto"
                  /\ s.desc = "lease_expiry" =>
                       \E w \in Decoded("leases") :
                          /\ s.labels = <<NormalizeMAC(w.mac), w.ip>> /\ Len(w.leasetime) = 3
                          /\ w.leasetime[2] \in 0..59 /\ w.leasetime[3] \in 0..59
                          /\ s.value \div 3600 = w.leasetime[1]
    <3> DEFINE s == Served[i]
    <3>1. s \in Range(Collected)
      <4>1. s \in Range(Served)
        BY DEF Range
      <4> QED
        BY <1>1, <4>1, ServedIs
    <3> HIDE DEF s
    <3>2. s.desc = "signal_dbm" => s.value < 0
      BY <1>1, <3>1, HeardIs, ClientRowsAre, SignalIs
    <3>3. s.desc = "tx_rate" => s.value[1] > 0
      BY <1>1, <3>1, HeardIs, ClientRowsAre, RateIs
    <3>4. s.desc = "connected_since" => s.value > 0
      BY <1>1, <3>1, SinceIs
    <3>5. (s.desc = "wan_speed_at" => s.value > 0) /\ (s.desc = "wifi_channel" => s.value # "auto")
      BY <1>1, <3>1, StampIs
    <3>6. s.desc = "lease_expiry" =>
            \E w \in Decoded("leases") :
               /\ s.labels = <<NormalizeMAC(w.mac), w.ip>> /\ Len(w.leasetime) = 3
               /\ w.leasetime[2] \in 0..59 /\ w.leasetime[3] \in 0..59
               /\ s.value \div 3600 = w.leasetime[1]
      BY <1>1, <3>1, ExpiryIs
    <3> QED
      BY <3>2, <3>3, <3>4, <3>5, <3>6 DEF s
  <2>2. \A w \in Decoded("ports") :
          w.speed = "" => ValuesOf(Served, "port_speed", <<w.name>>) # {}
    BY <1>1, DarkPortServed
  <2>3. ASSUME NEW x \in Switches
        PROVE  LET said  == Said(x[1], x[2])
                   shown == ValuesOf(Served, x[3], x[4])
                   on    == IF x[1] = "all" THEN {"on"} ELSE {"on", "true"}
               IN  (1 \in shown <=> said \cap on # {}) /\ (0 \in shown <=> said \ on # {})
    BY <1>1, SwitchesServed
  <2> QED
    BY <2>1, <2>2, <2>3 DEF NoReadingIsInvented, Said
<1> QED
  BY <1>1, CycleHolds, PTL

\* The clients that are collected: of every address that decodes, one.
LEMMA MergedIs ==
    ASSUME Cycle
    PROVE  /\ List(Merged) /\ DistinctMACs(Merged)
           /\ \A c \in Range(Merged) : \E w \in Decoded("clients") : c.MAC = NormalizeMAC(w.mac)
           /\ \A w \in Decoded("clients") : \E c \in Range(Merged) : c.MAC = NormalizeMAC(w.mac)
BY ClientRowsAre, ClientsMerged DEF Merged, Joined

\* The descs of the clients' series.
ClientDescs == {"client_info", "clients", "connected_since", "signal_dbm", "tx_rate"}

\* No two of the series collected of the clients are one.
LEMMA AllDistinct ==
    ASSUME Cycle, NEW desc \in ClientDescs
    PROVE  LET s == All(Collected, desc)
           IN  /\ List(s) /\ \A i, j \in DOMAIN s : Series(s[i]) = Series(s[j]) => i = j
               /\ \A x : x \in Range(s) <=> x \in Range(Clients) /\ x.desc = desc
<1> DEFINE good == {x \in Range(Collected) : x.desc = desc}
<1>1. Collected = Wan \o Ports \o Wireless \o Clients \o DHCP \o VPN \o Security \o Neighbours
  BY DEF Collected, Wan, Ports, Wireless, Clients, Merged, DHCP, VPN, Security, Neighbours
<1>2. \A x \in good : x.desc = desc /\ x \in Range(Collected)
  OBVIOUS
<1>3. \A x : x \in good <=> x \in Range(Clients) /\ x.desc = desc
  <2>1. ASSUME NEW x \in Range(Collected), x.desc = desc PROVE x \in Range(Clients)
    BY <2>1, CollectedIs, PartsOfDesc DEF ClientDescs
  <2> QED
    BY <2>1, CollectedIs
<1> HIDE DEF good
<1>4. DistinctIn(Clients, good)
  BY MergedIs, ClientsAre DEF Clients
<1>5. /\ Range(Wan) \cap good = {} /\ Range(Ports) \cap good = {} /\ Range(Wireless) \cap good = {}
      /\ Range(DHCP) \cap good = {} /\ Range(VPN) \cap good = {} /\ Range(Security) \cap good = {}
      /\ Range(Neighbours) \cap good = {}
  BY <1>2, PartsOfDesc DEF ClientDescs
<1>6. \A s, t : /\ List(s) /\ DistinctIn(s, good) /\ List(t) /\ Range(t) \cap good = {}
                  => List(s \o t) /\ DistinctIn(s \o t, good)
                /\ List(s) /\ Range(s) \cap good = {} /\ List(t) /\ DistinctIn(t, good)
                  => List(s \o t) /\ DistinctIn(s \o t, good)
  BY ConcatList, ConcatDistinct, NoneDistinct
<1>7. /\ DistinctIn(Wan, good) /\ List(Wan \o Ports) /\ Range(Wan \o Ports) \cap good = {}
      /\ List(Wan \o Ports \o Wireless) /\ Range(Wan \o Ports \o Wireless) \cap good = {}
  BY <1>5, PartsListed, ConcatList, NoneDistinct
<1>8. List(Wan \o Ports \o Wireless \o Clients) /\ DistinctIn(Wan \o Ports \o Wireless \o Clients, good)
  BY <1>4, <1>6, <1>7, PartsListed
<1>9. DistinctIn(Collected, good)
  <2> DEFINE u == Wan \o Ports \o Wireless \o Clients
  <2>1. List(u \o DHCP) /\ DistinctIn(u \o DHCP, good)
    BY <1>5, <1>6, <1>8, PartsListed
  <2>2. List(u \o DHCP \o VPN) /\ DistinctIn(u \o DHCP \o VPN, good)
    BY <1>5, <1>6, <2>1, PartsListed
  <2>3. List(u \o DHCP \o VPN \o Security) /\ DistinctIn(u \o DHCP \o VPN \o Security, good)
    BY <1>5, <1>6, <2>2, PartsListed
  <2>4. DistinctIn(u \o DHCP \o VPN \o Security \o Neighbours, good)
    BY <1>5, <1>6, <2>3, PartsListed
  <2> QED
    BY <1>1, <2>4
<1>10. All(Collected, desc) = kept(Collected, good) /\ List(Collected)
  BY CollectedIs DEF All, good
<1>11. List(kept(Collected, good)) /\ Range(kept(Collected, good)) = Range(Collected) \cap good
  BY <1>10, KeptIs
<1>12. \A x : x \in Range(kept(Collected, good)) <=> x \in good
  BY <1>2, <1>11
<1>13. \A i, j \in DOMAIN kept(Collected, good) :
          Series(kept(Collected, good)[i]) = Series(kept(Collected, good)[j]) => i = j
  BY <1>9, <1>10, KeptDistinct
<1> QED
  BY <1>3, <1>10, <1>11, <1>12, <1>13

\* The clients are the devices, each once.
LEMMA DevicesCounted ==
    ASSUME Cycle
    PROVE  Cardinality({{w \in Decoded("clients") : SameDevice(v, w)} : v \in Decoded("clients")})
             = Len(Merged)
<1> DEFINE D == Decoded("clients")
           n == Len(Merged)
           S == {{w \in D : SameDevice(v, w)} : v \in D}
           f == [i \in 1..n |-> {w \in D : NormalizeMAC(w.mac) = Merged[i].MAC}]
<1>1. n \in Nat /\ DOMAIN Merged = 1..n /\ \A c : c \in Range(Merged) <=> \E i \in 1..n : c = Merged[i]
  BY MergedIs, ListIs
<1>2. \A v, w \in D : NormalizeMAC(v.mac) = NormalizeMAC(w.mac) <=> SameDevice(v, w)
  BY AddressesAre, OneSpelling
<1>3. \A i \in 1..n : \E v \in D : Merged[i].MAC = NormalizeMAC(v.mac)
  BY <1>1, MergedIs
<1>4. \A v \in D : \E i \in 1..n : Merged[i].MAC = NormalizeMAC(v.mac)
  BY <1>1, MergedIs
<1>5. \A i, j \in 1..n : Merged[i].MAC = Merged[j].MAC => i = j
  BY <1>1, MergedIs DEF DistinctMACs
<1> HIDE DEF D, n
<1>6. ASSUME NEW v \in D, NEW i \in 1..n, Merged[i].MAC = NormalizeMAC(v.mac)
      PROVE  f[i] = {w \in D : SameDevice(v, w)}
  BY <1>2, <1>6
<1>7. \A i \in 1..n : f[i] \in S
  <2> TAKE i \in 1..n
  <2>1. PICK v \in D : Merged[i].MAC = NormalizeMAC(v.mac)
    BY <1>3
  <2>2. f[i] = {w \in D : SameDevice(v, w)}
    BY <1>6, <2>1
  <2> HIDE DEF f
  <2> QED
    BY <2>2
<1>8. ASSUME NEW i \in 1..n, NEW j \in 1..n, f[i] = f[j] PROVE i = j
  <2>1. PICK v \in D : Merged[i].MAC = NormalizeMAC(v.mac)
    BY <1>3
  <2>2. v \in f[i]
    BY <2>1
  <2>3. NormalizeMAC(v.mac) = Merged[j].MAC
    BY <1>8, <2>2
  <2> QED
    BY <1>5, <2>1, <2>3
<1>9. \A x \in S : \E i \in 1..n : f[i] = x
  <2> TAKE x \in S
  <2>1. PICK v \in D : x = {w \in D : SameDevice(v, w)}
    OBVIOUS
  <2>2. PICK i \in 1..n : Merged[i].MAC = NormalizeMAC(v.mac)
    BY <1>4
  <2> QED
    BY <1>6, <2>1, <2>2
<1> HIDE DEF S, f
<1>10. Cardinality(S) = n
  BY <1>1, <1>7, <1>8, <1>9, Counted
<1> QED
  BY <1>10 DEF S, n, D

\* Every client has its one info.
LEMMA InfosCounted ==
    ASSUME Cycle
    PROVE  Len(All(Collected, "client_info")) = Len(Merged)
<1> DEFINE s == All(Collected, "client_info")
           S == {Series(s[i]) : i \in DOMAIN s}
           n == Len(Merged)
           radio == parseClientRadio(replies.clients)
           f == [i \in 1..n |-> <<"client_info", <<Merged[i].MAC, Merged[i].Iface>>>>]
<1>1. n \in Nat /\ DOMAIN Merged = 1..n /\ \A c : c \in Range(Merged) <=> \E i \in 1..n : c = Merged[i]
  BY MergedIs, ListIs
<1>2. \A i, j \in 1..n : Merged[i].MAC = Merged[j].MAC => i = j
  BY <1>1, MergedIs DEF DistinctMACs
<1>3. /\ List(s) /\ \A i, j \in DOMAIN s : Series(s[i]) = Series(s[j]) => i = j
      /\ \A x : x \in Range(s) <=> x \in Range(Clients) /\ x.desc = "client_info"
  BY AllDistinct DEF ClientDescs
<1>4. \A x : x \in Range(Clients) /\ x.desc = "client_info" <=>
               \E c \in Range(Merged) : x = Gauge("client_info", <<c.MAC, c.Iface>>, 1)
  <2> TAKE x
  <2>1. x \in Range(Clients) <=>
                    \/ \E c \in Range(Merged) : x \in Range(collectClient(c, radio))
                    \/ \E iface \in Ifaces(Merged) : x = Gauge("clients", <<iface>>, On(Merged, iface))
    BY MergedIs, ClientsAre DEF Clients
  <2>2. \A c : x \in Range(collectClient(c, radio)) /\ x.desc = "client_info" <=>
                 x = Gauge("client_info", <<c.MAC, c.Iface>>, 1)
    BY ClientSent DEF IsReading, Gauge
  <2>3. \A iface : x = Gauge("clients", <<iface>>, On(Merged, iface)) => x.desc # "client_info"
    BY DEF Gauge
  <2>4. \A c : x = Gauge("client_info", <<c.MAC, c.Iface>>, 1) => x.desc = "client_info"
    BY DEF Gauge
  <2> HIDE DEF radio
  <2> QED
    BY <2>1, <2>2, <2>3, <2>4
<1> HIDE DEF s, n
<1>5. \A u : u \in S <=> \E x \in Range(s) : u = Series(x)
  BY DEF Range
<1>6. \A c : Series(Gauge("client_info", <<c.MAC, c.Iface>>, 1)) = <<"client_info", <<c.MAC, c.Iface>>>>
  BY DEF Series, Gauge
<1> HIDE DEF S
<1>7. \A u : u \in S <=> \E i \in 1..n : u = f[i]
  <2> TAKE u
  <2>1. ASSUME u \in S PROVE \E i \in 1..n : u = f[i]
    <3>1. PICK x \in Range(s) : u = Series(x)
      BY <1>5, <2>1
    <3>2. PICK c \in Range(Merged) : x = Gauge("client_info", <<c.MAC, c.Iface>>, 1)
      BY <1>3, <1>4
    <3>3. PICK i \in 1..n : c = Merged[i]
      BY <1>1
    <3>4. u = f[i]
      BY <1>6, <3>1, <3>2, <3>3
    <3> QED
      BY <3>4
  <2>2. ASSUME NEW i \in 1..n, u = f[i] PROVE u \in S
    <3> DEFINE c == Merged[i]
               x == Gauge("client_info", <<c.MAC, c.Iface>>, 1)
    <3>1. x \in Range(s)
      BY <1>1, <1>3, <1>4
    <3>2. Series(x) = f[i]
      BY <1>6
    <3> QED
      BY <1>5, <2>2, <3>1, <3>2
  <2> QED
    BY <2>1, <2>2
<1>8. ASSUME NEW i \in 1..n, NEW j \in 1..n, f[i] = f[j] PROVE i = j
  BY <1>2, <1>8
<1> HIDE DEF f
<1>9. Cardinality(S) = n
  BY <1>1, <1>7, <1>8, Counted
<1>10. Cardinality(S) = Len(s)
  BY <1>3, DistinctCounted DEF S
<1> QED
  BY <1>9, <1>10 DEF s, n

\* The sum of a list of series.
Total == INSTANCE FoldTheorems WITH op <- LAMBDA c, n, s : n + s.value

\* The sum so far, and the next value.
LEMMA TotalSteps ==
    ASSUME NEW q, List(q), \A x \in Range(q) : x.value \in Nat
    PROVE  \E f : /\ f[0] = 0 /\ \A k \in 1..Len(q) : f[k] = f[k - 1] + q[k].value
                  /\ FoldLeft(LAMBDA n, s : n + s.value, 0, q) = f[Len(q)]
<1> DEFINE X == Range(q)
           m == Len(q)
<1>1. q \in Seq(X)
  BY DEF List
<1>2. PICK f \in [0..m -> Nat] : Total!Steps(0, 0, q, f) /\ Total!Fold(0, 0, q) = f[m]
  <2>1. \A n \in Nat, x \in X : n + x.value \in Nat
    OBVIOUS
  <2> HIDE DEF X, m
  <2>2. Total!InSteps(0, Nat, 0, q, Total!Fold(0, 0, q))
    BY <1>1, <2>1, Total!FoldSteps
  <2> QED
    BY <2>2 DEF Total!InSteps, m
<1>3. Total!Fold(0, 0, q) = FoldLeft(LAMBDA n, s : n + s.value, 0, q)
  BY DEF Total!Fold, Total!FoldLeft, FoldLeft, Total!MapThenFoldSet, MapThenFoldSet,
         Total!Max, Max
<1>4. f[0] = 0 /\ \A k \in 1..m : f[k] = f[k - 1] + q[k].value
  BY <1>2 DEF Total!Steps
<1> QED
  BY <1>2, <1>3, <1>4

\* Every client is counted, on one interface.
LEMMA CountsAddUp ==
    ASSUME Cycle
    PROVE  FoldLeft(LAMBDA n, s : n + s.value, 0, All(Collected, "clients")) = Len(Merged)
<1> DEFINE q == All(Collected, "clients")
           m == Len(q)
           n == Len(Merged)
           radio == parseClientRadio(replies.clients)
           on(k) == {i \in 1..n : <<Merged[i].Iface>> = q[k].labels}
           sofar(k) == {i \in 1..n : \E j \in 1..k : <<Merged[i].Iface>> = q[j].labels}
<1>1. n \in Nat /\ DOMAIN Merged = 1..n /\ \A c : c \in Range(Merged) <=> \E i \in 1..n : c = Merged[i]
  BY MergedIs, ListIs
<1>2. /\ List(q) /\ \A i, j \in DOMAIN q : Series(q[i]) = Series(q[j]) => i = j
      /\ \A x : x \in Range(q) <=> x \in Range(Clients) /\ x.desc = "clients"
  BY AllDistinct DEF ClientDescs
<1>3. \A x : x \in Range(q) <=>
               \E iface \in Ifaces(Merged) : x = Gauge("clients", <<iface>>, On(Merged, iface))
  <2> TAKE x
  <2>1. x \in Range(Clients) <=>
                    \/ \E c \in Range(Merged) : x \in Range(collectClient(c, radio))
                    \/ \E iface \in Ifaces(Merged) : x = Gauge("clients", <<iface>>, On(Merged, iface))
    BY MergedIs, ClientsAre DEF Clients
  <2>2. \A c : x \in Range(collectClient(c, radio)) => x.desc # "clients"
    BY ClientSent DEF IsReading, Gauge
  <2>3. \A iface : x = Gauge("clients", <<iface>>, On(Merged, iface)) => x.desc = "clients"
    BY DEF Gauge
  <2> HIDE DEF radio, q
  <2> QED
    BY <1>2, <2>1, <2>2, <2>3
<1>4. m \in Nat /\ DOMAIN q = 1..m /\ \A x : x \in Range(q) <=> \E k \in 1..m : x = q[k]
  BY <1>2, ListIs
<1> HIDE DEF q, m, n
<1>5. \A k \in 1..m : IsFiniteSet(on(k)) /\ IsFiniteSet(sofar(k - 1))
  <2>1. IsFiniteSet(1..n)
    BY <1>1, FS_Interval
  <2>2. \A k : on(k) \in SUBSET (1..n) /\ sofar(k - 1) \in SUBSET (1..n)
    OBVIOUS
  <2> HIDE DEF on, sofar
  <2> QED
    BY <2>1, <2>2, FS_Subset
<1>6. ASSUME NEW k \in 1..m
      PROVE  /\ q[k].desc = "clients" /\ q[k].value = Cardinality(on(k))
             /\ Cardinality(on(k)) \in Nat
  <2>1. PICK iface : q[k] = Gauge("clients", <<iface>>, On(Merged, iface))
    BY <1>3, <1>4
  <2>2. q[k].labels = <<iface>> /\ q[k].desc = "clients" /\ q[k].value = On(Merged, iface)
    BY <2>1 DEF Gauge
  <2>3. on(k) = {i \in DOMAIN Merged : Merged[i].Iface = iface}
    BY <1>1, <2>2
  <2>4. Cardinality(on(k)) \in Nat
    BY <1>5, FS_CardinalityType
  <2> QED
    BY <2>2, <2>3, <2>4 DEF On
<1>7. \A i, j \in 1..m : q[i].labels = q[j].labels => i = j
  BY <1>2, <1>4, <1>6 DEF Series
<1>8. PICK f : /\ f[0] = 0 /\ \A k \in 1..m : f[k] = f[k - 1] + q[k].value
               /\ FoldLeft(LAMBDA v, s : v + s.value, 0, q) = f[m]
  <2>1. \A x \in Range(q) : x.value \in Nat
    <3> TAKE x \in Range(q)
    <3>1. PICK k \in 1..m : x = q[k]
      BY <1>4
    <3>2. q[k].value = Cardinality(on(k)) /\ Cardinality(on(k)) \in Nat
      BY <1>6
    <3> HIDE DEF on
    <3> QED
      BY <3>1, <3>2
  <2> QED
    BY <1>2, <2>1, TotalSteps DEF m
<1> DEFINE T == {k \in 0..m : f[k] = Cardinality(sofar(k))}
<1>9. 0 \in T
  <2>1. sofar(0) = {}
    OBVIOUS
  <2>2. Cardinality(sofar(0)) = 0
    BY <2>1, FS_EmptySet
  <2>3. 0 \in 0..m
    BY <1>4
  <2> HIDE DEF sofar
  <2> QED
    BY <1>8, <2>2, <2>3
<1>10. ASSUME NEW k \in 1..m, k - 1 \in T PROVE k \in T
  <2>1. f[k - 1] = Cardinality(sofar(k - 1)) /\ k \in 0..m
    BY <1>10
  <2>2. 1..k = (1..(k - 1)) \cup {k}
    OBVIOUS
  <2>3. sofar(k) = sofar(k - 1) \cup on(k)
    BY <2>2
  <2>4. sofar(k - 1) \cap on(k) = {}
    <3>1. \A j \in 1..(k - 1) : j \in 1..m /\ j # k
      BY <1>4
    <3> QED
      BY <1>7, <3>1
  <2> HIDE DEF sofar, on
  <2>5. Cardinality(sofar(k)) = Cardinality(sofar(k - 1)) + Cardinality(on(k)) - Cardinality({})
    BY <1>5, <2>3, <2>4, FS_Union
  <2>6. Cardinality(sofar(k - 1)) \in Nat /\ Cardinality(on(k)) \in Nat /\ Cardinality({}) = 0
    BY <1>5, FS_CardinalityType, FS_EmptySet
  <2>7. f[k] = f[k - 1] + Cardinality(on(k))
    BY <1>6, <1>8
  <2> QED
    BY <2>1, <2>5, <2>6, <2>7
<1>11. m \in T
  <2> HIDE DEF T
  <2>1. \A k \in 0..m : k \in T
    BY <1>4, <1>9, <1>10, Total!Induction
  <2> QED
    BY <1>4, <2>1
<1>12. sofar(m) = 1..n
  <2>1. ASSUME NEW i \in 1..n PROVE \E j \in 1..m : <<Merged[i].Iface>> = q[j].labels
    <3> DEFINE iface == Merged[i].Iface
               x == Gauge("clients", <<iface>>, On(Merged, iface))
    <3>1. iface \in Ifaces(Merged)
      BY <1>1 DEF Ifaces
    <3>2. x.labels = <<iface>>
      BY DEF Gauge
    <3> HIDE DEF iface
    <3>3. PICK j \in 1..m : x = q[j]
      BY <1>3, <1>4, <3>1
    <3> QED
      BY <3>2, <3>3 DEF iface
  <2> QED
    BY <2>1
<1>13. Cardinality(1..n) = n
  <2>1. Cardinality(1..n) = IF 1 > n THEN 0 ELSE n - 1 + 1
    BY <1>1, FS_Interval
  <2> QED
    BY <1>1, <2>1
<1>14. f[m] = n
  BY <1>11, <1>12, <1>13
<1> QED
  BY <1>8, <1>14 DEF q, n

\* parseClients, NormalizeMAC, collectClients: for any rows in any order and spelling, as
\* many clients are served as there are devices, the numbers on the interfaces add up to
\* as many, and no two series of clients collide.
THEOREM OneClientPerDeviceHolds == Spec => []OneClientPerDevice
<1>1. ASSUME Cycle PROVE OneClientPerDevice
  <2>1. Len(All(Collected, "client_info"))
          = Cardinality({{w \in Decoded("clients") : SameDevice(v, w)} : v \in Decoded("clients")})
    BY <1>1, InfosCounted, DevicesCounted
  <2>2. FoldLeft(LAMBDA n, s : n + s.value, 0, All(Collected, "clients"))
          = Cardinality({{w \in Decoded("clients") : SameDevice(v, w)} : v \in Decoded("clients")})
    BY <1>1, CountsAddUp, DevicesCounted
  <2>3. \A desc \in {"connected_since", "signal_dbm", "tx_rate"} :
          LET s == All(Collected, desc)
          IN Cardinality({Series(s[i]) : i \in DOMAIN s}) = Len(s)
    <3> TAKE desc \in {"connected_since", "signal_dbm", "tx_rate"}
    <3>1. desc \in ClientDescs
      BY DEF ClientDescs
    <3> QED
      BY <1>1, <3>1, AllDistinct, DistinctCounted
  <2> QED
    BY <2>1, <2>2, <2>3 DEF OneClientPerDevice
<1> QED
  BY <1>1, CycleHolds, PTL
=============================================================================
