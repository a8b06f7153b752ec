------------------------------ MODULE DataLemmas -------------------------------
(***************************************************************************)
(* The data structures of the models.  Sequences used as queues that hold  *)
(* nobody twice: what Append and Tail do to the set of those who wait, and *)
(* how long such a queue can get.  Sums over finite sets: what happens to  *)
(* them when a summand rises, and to a part of them.  Loops, which end if  *)
(* a measure falls.  Binary heaps, and what one exchange of a process with *)
(* its parent or a child does to their order.                              *)
(***************************************************************************)
EXTENDS Integers, SequencesExt, FiniteSetTheorems, WellFoundedInduction, TLAPS

\* A queue that holds nobody twice.
Distinct(s, S) == s \in Seq(S) /\ IsInjective(s)

LEMMA EmptyQueue ==
  ASSUME NEW S
  PROVE  Distinct(<< >>, S) /\ Range(<< >>) = {}
  BY DEF Distinct, IsInjective, Range

\* The queue is empty when nobody waits, and only then.
LEMMA RangeEmpty ==
  ASSUME NEW S, NEW s \in Seq(S)
  PROVE  Range(s) = {} <=> s = << >>
<1>1. CASE s = << >>
  BY <1>1 DEF Range
<1>2. CASE s # << >>
  <2>1. s[1] \in Range(s)
    BY <1>2 DEF Range
  <2> QED BY <2>1, <1>2
<1> QED BY <1>1, <1>2

LEMMA RangeInSet ==
  ASSUME NEW S, NEW s \in Seq(S)
  PROVE  Range(s) \subseteq S
  BY DEF Range

\* Somebody who does not wait joins the queue.
LEMMA AppendDistinct ==
  ASSUME NEW S, NEW s, Distinct(s, S), NEW e \in S, e \notin Range(s)
  PROVE  Distinct(Append(s, e), S) /\ Range(Append(s, e)) = Range(s) \cup {e}
<1> USE DEF Distinct
<1>1. Append(s, e) \in Seq(S) /\ Len(Append(s, e)) = Len(s) + 1
  OBVIOUS
<1>2. \A i \in 1..Len(s) : s[i] # e
  BY DEF Range
<1>3. \A i \in 1..Len(s) + 1 : Append(s, e)[i] = IF i = Len(s) + 1 THEN e ELSE s[i]
  OBVIOUS
<1>4. IsInjective(Append(s, e))
  BY <1>1, <1>2, <1>3 DEF IsInjective
<1>5. Range(Append(s, e)) \subseteq Range(s) \cup {e}
  BY <1>1, <1>3 DEF Range
<1>6. ASSUME NEW x \in Range(s)
      PROVE  x \in Range(Append(s, e))
  <2>1. PICK i \in 1..Len(s) : x = s[i]
    BY DEF Range
  <2>2. i \in DOMAIN Append(s, e) /\ Append(s, e)[i] = x
    BY <1>1, <1>3, <2>1
  <2> QED BY <2>2 DEF Range
<1>7. e \in Range(Append(s, e))
  <2>1. Len(s) + 1 \in DOMAIN Append(s, e) /\ Append(s, e)[Len(s) + 1] = e
    BY <1>1, <1>3
  <2> QED BY <2>1 DEF Range
<1> QED BY <1>1, <1>4, <1>5, <1>6, <1>7

\* The first one leaves the queue.
LEMMA TailDistinct ==
  ASSUME NEW S, NEW s, Distinct(s, S), s # << >>
  PROVE  /\ Head(s) \in S /\ Head(s) \in Range(s)
         /\ Distinct(Tail(s), S) /\ Range(Tail(s)) = Range(s) \ {Head(s)}
<1> USE DEF Distinct
<1>1. /\ Tail(s) \in Seq(S) /\ Head(s) = s[1] /\ 1 \in DOMAIN s
      /\ DOMAIN Tail(s) = 1..Len(s) - 1
      /\ \A i \in 1..Len(s) - 1 : Tail(s)[i] = s[i + 1]
  OBVIOUS
<1>2. IsInjective(Tail(s))
  BY <1>1 DEF IsInjective
<1>3. ASSUME NEW x \in Range(Tail(s))
      PROVE  x \in Range(s) \ {Head(s)}
  <2>1. PICK i \in 1..Len(s) - 1 : x = s[i + 1]
    BY <1>1 DEF Range
  <2>2. i + 1 \in DOMAIN s /\ i + 1 # 1
    BY <1>1
  <2> QED BY <1>1, <2>1, <2>2 DEF Range, IsInjective
<1>4. ASSUME NEW x \in Range(s) \ {Head(s)}
      PROVE  x \in Range(Tail(s))
  <2>1. PICK i \in 1..Len(s) : x = s[i] /\ i # 1
    BY <1>1 DEF Range
  <2>2. i - 1 \in DOMAIN Tail(s) /\ Tail(s)[i - 1] = x
    BY <1>1, <2>1
  <2> QED BY <2>2 DEF Range
<1>5. Head(s) \in S /\ Head(s) \in Range(s)
  BY <1>1 DEF Range
<1> QED BY <1>1, <1>2, <1>3, <1>4, <1>5

\* Such a queue is not longer than there are processes.
LEMMA DistinctFits ==
  ASSUME NEW S, IsFiniteSet(S), NEW s, Distinct(s, S)
  PROVE  s \in SeqOf(S, Cardinality(S))
<1>1. Len(s) \in Nat /\ s \in [1..Len(s) -> S]
  BY DEF Distinct
<1>2. s \in Injection(1..Len(s), S)
  BY <1>1 DEF Distinct, IsInjective, Injection
<1>3. Cardinality(1..Len(s)) = Len(s)
  BY <1>1, FS_Interval
<1>4. Cardinality(S) \in Nat
  BY FS_CardinalityType
<1>5. Len(s) <= Cardinality(S)
  BY <1>2, <1>3, FS_Injection
<1> QED BY <1>1, <1>4, <1>5 DEF SeqOf
--------------------------------------------------------------------------------
(***************************************************************************)
(* Induction over the subsets of a finite set, with the set T of those     *)
(* that have the property instead of an operator.                          *)
(***************************************************************************)
LEMMA SubsetInduction ==
  ASSUME NEW S, IsFiniteSet(S), NEW T,
         \A s \in SUBSET S : (\A r \in SUBSET s : r # s => r \in T) => s \in T
  PROVE  SUBSET S \subseteq T
<1> DEFINE Bad == (SUBSET S) \ T
<1>1. SUFFICES ASSUME Bad # {} PROVE FALSE
  OBVIOUS
<1>2. Bad \subseteq FiniteSubsetsOf(S)
  BY FS_Subset DEF FiniteSubsetsOf
<1>3. PICK s \in Bad : \A r \in Bad : ~(<<r, s>> \in StrictSubsetOrdering(S))
  <2> HIDE DEF Bad
  <2> QED BY <1>1, <1>2, FS_StrictSubsetOrderingWellFounded, WFMin
<1>4. ASSUME NEW r \in SUBSET s, r # s PROVE r \in T
  <2>1. r \in SUBSET S /\ (r \in Bad => <<r, s>> \in StrictSubsetOrdering(S))
    BY <1>4 DEF StrictSubsetOrdering
  <2> QED BY <1>3, <2>1
<1>5. s \in SUBSET S /\ s \notin T
  OBVIOUS
<1> HIDE DEF Bad
<1> QED BY <1>4, <1>5

(***************************************************************************)
(* Sums over a finite set.  MapThenSumSet takes out one element after the  *)
(* other, as a function h on the subsets computes it; the lemmas say that  *)
(* there is such a function, and that it does not matter which one.        *)
(***************************************************************************)
One(s) == CHOOSE x \in s : TRUE
Sums(h, g, S) == h = [s \in SUBSET S |-> IF s = {} THEN 0 ELSE g[One(s)] + h[s \ {One(s)}]]
Summed(g, S) == (CHOOSE h : Sums(h, g, S))[S]

LEMMA SumsEmpty ==
  ASSUME NEW S, NEW g, NEW h, Sums(h, g, S)
  PROVE  h[{}] = 0
  BY DEF Sums

LEMMA SumsFirst ==
  ASSUME NEW S, NEW g, NEW h, Sums(h, g, S), NEW s \in SUBSET S, s # {}
  PROVE  One(s) \in s /\ h[s] = g[One(s)] + h[s \ {One(s)}]
<1>1. h[s] = IF s = {} THEN 0 ELSE g[One(s)] + h[s \ {One(s)}]
  BY DEF Sums
<1>2. One(s) \in s
  BY DEF One
<1> QED BY <1>1, <1>2

LEMMA SumsAgree ==
  ASSUME NEW S, IsFiniteSet(S), NEW g, NEW h, Sums(h, g, S),
         NEW S2, NEW g2, NEW h2, Sums(h2, g2, S2),
         S \subseteq S2, \A p \in S : g2[p] = g[p]
  PROVE  \A s \in SUBSET S : h2[s] = h[s]
<1> DEFINE Good == {s \in SUBSET S : h2[s] = h[s]}
<1>1. ASSUME NEW s \in SUBSET S, \A r \in SUBSET s : r # s => r \in Good
      PROVE  s \in Good
  <2>1. CASE s = {}
    BY <2>1, SumsEmpty
  <2>2. CASE s # {}
    <3>1. /\ One(s) \in s /\ h[s] = g[One(s)] + h[s \ {One(s)}]
          /\ h2[s] = g2[One(s)] + h2[s \ {One(s)}]
      <4>1. s \in SUBSET S2
        OBVIOUS
      <4> HIDE DEF Good
      <4> QED BY <2>2, <4>1, SumsFirst
    <3>2. s \ {One(s)} \in Good
      BY <1>1, <3>1
    <3> QED BY <3>1, <3>2
  <2> QED BY <2>1, <2>2
<1>2. SUBSET S \subseteq Good
  <2> HIDE DEF Good
  <2> QED BY <1>1, SubsetInduction
<1> QED BY <1>2

LEMMA SumsExist ==
  ASSUME NEW S, IsFiniteSet(S), NEW g
  PROVE  \E h : Sums(h, g, S)
<1> DEFINE Good == {s \in SUBSET S : \E h : Sums(h, g, s)}
<1>1. ASSUME NEW s \in SUBSET S, \A r \in SUBSET s : r # s => r \in Good
      PROVE  s \in Good
  <2> DEFINE H(r) == CHOOSE h : Sums(h, g, r)
             V(r) == H(r)[r]
             h == [t \in SUBSET s |-> IF t = {} THEN 0 ELSE g[One(t)] + V(t \ {One(t)})]
  <2>1. ASSUME NEW r \in SUBSET s, r # s PROVE Sums(H(r), g, r) /\ IsFiniteSet(r)
    <3>1. \E f : Sums(f, g, r)
      BY <1>1, <2>1
    <3> QED BY <3>1, FS_Subset
  <2>2. ASSUME NEW r \in SUBSET s, r # s PROVE h[r] = V(r)
    <3>1. r \in SUBSET r /\ Sums(H(r), g, r)
      BY <2>1, <2>2
    <3>2. CASE r = {}
      <4>1. H(r)[r] = 0
        <5> HIDE DEF H
        <5> QED BY <3>1, <3>2, SumsEmpty
      <4> QED BY <3>2, <4>1
    <3>3. CASE r # {}
      <4> DEFINE q == r \ {One(r)}
      <4>1. One(r) \in r /\ H(r)[r] = g[One(r)] + H(r)[q]
        <5> HIDE DEF H
        <5> QED BY <3>1, <3>3, SumsFirst
      <4>2. q \in SUBSET s /\ q # s /\ q \subseteq r /\ q \in SUBSET q
        BY <4>1
      <4>3. Sums(H(q), g, q) /\ IsFiniteSet(q)
        BY <2>1, <4>2
      <4>4. H(r)[q] = H(q)[q]
        <5> HIDE DEF H, q
        <5> QED BY <3>1, <4>2, <4>3, SumsAgree
      <4>5. h[r] = g[One(r)] + H(q)[q]
        BY <3>3
      <4> QED BY <4>1, <4>4, <4>5
    <3> QED BY <3>2, <3>3
  <2>3. ASSUME NEW t \in SUBSET s, t # {} PROVE h[t \ {One(t)}] = V(t \ {One(t)})
    <3>1. One(t) \in t
      BY <2>3 DEF One
    <3> QED BY <2>2, <3>1
  <2>4. h = [t \in SUBSET s |-> IF t = {} THEN 0 ELSE g[One(t)] + h[t \ {One(t)}]]
    <3>1. \A t \in SUBSET s : (IF t = {} THEN 0 ELSE g[One(t)] + V(t \ {One(t)}))
                            = IF t = {} THEN 0 ELSE g[One(t)] + h[t \ {One(t)}]
      <4> HIDE DEF h, V
      <4> QED BY <2>3
    <3> HIDE DEF V
    <3> QED BY <3>1
  <2>5. Sums(h, g, s)
    <3> HIDE DEF h
    <3> QED BY <2>4 DEF Sums
  <2> QED BY <2>5
<1>2. SUBSET S \subseteq Good
  <2> HIDE DEF Good
  <2> QED BY <1>1, SubsetInduction
<1>3. S \in Good
  BY <1>2
<1> QED BY <1>3

LEMMA SumsTypes ==
  ASSUME NEW S, IsFiniteSet(S), NEW g, \A p \in S : g[p] \in Int, NEW h, Sums(h, g, S)
  PROVE  \A s \in SUBSET S : h[s] \in Int
<1> DEFINE Good == {s \in SUBSET S : h[s] \in Int}
<1>1. ASSUME NEW s \in SUBSET S, \A r \in SUBSET s : r # s => r \in Good
      PROVE  s \in Good
  <2>1. CASE s # {}
    <3>1. One(s) \in s /\ h[s] = g[One(s)] + h[s \ {One(s)}]
      BY <2>1, SumsFirst
    <3>2. h[s \ {One(s)}] \in Int
      BY <1>1, <3>1
    <3>3. g[One(s)] \in Int
      BY <3>1
    <3> QED BY <3>1, <3>2, <3>3
  <2> QED BY <2>1, SumsEmpty
<1>2. SUBSET S \subseteq Good
  <2> HIDE DEF Good
  <2> QED BY <1>1, SubsetInduction
<1> QED BY <1>2

LEMMA SummedBySums ==
  ASSUME NEW S, IsFiniteSet(S), NEW g, \A p \in S : g[p] \in Int
  PROVE  \E h : /\ Sums(h, g, S) /\ Summed(g, S) = h[S]
                /\ \A s \in SUBSET S : h[s] \in Int
<1> DEFINE h == CHOOSE f : Sums(f, g, S)
<1>1. Sums(h, g, S)
  BY SumsExist
<1>2. Summed(g, S) = h[S]
  BY DEF Summed
<1> HIDE DEF h
<1>3. \A s \in SUBSET S : h[s] \in Int
  BY <1>1, SumsTypes
<1> QED BY <1>1, <1>2, <1>3

LEMMA SumIsInt ==
  ASSUME NEW S, IsFiniteSet(S), NEW g, \A p \in S : g[p] \in Int
  PROVE  Summed(g, S) \in Int
<1>1. S \in SUBSET S
  OBVIOUS
<1> QED BY <1>1, SummedBySums

LEMMA SumOfZeros ==
  ASSUME NEW S, IsFiniteSet(S), NEW g, \A p \in S : g[p] = 0
  PROVE  Summed(g, S) = 0
<1>1. PICK h : Sums(h, g, S) /\ Summed(g, S) = h[S]
  BY SummedBySums
<1> DEFINE Good == {s \in SUBSET S : h[s] = 0}
<1>2. ASSUME NEW s \in SUBSET S, \A r \in SUBSET s : r # s => r \in Good
      PROVE  s \in Good
  <2>1. CASE s # {}
    <3>1. One(s) \in s /\ h[s] = g[One(s)] + h[s \ {One(s)}]
      BY <1>1, <2>1, SumsFirst
    <3>2. h[s \ {One(s)}] = 0
      BY <1>2, <3>1
    <3>3. g[One(s)] = 0
      BY <3>1
    <3> QED BY <3>1, <3>2, <3>3
  <2> QED BY <1>1, <2>1, SumsEmpty
<1>3. SUBSET S \subseteq Good
  <2> HIDE DEF Good
  <2> QED BY <1>2, SubsetInduction
<1> QED BY <1>1, <1>3

\* If one summand at most rises, and by one, the sum rises by one at most.
LEMMA SumRises ==
  ASSUME NEW S, IsFiniteSet(S), NEW c,
         NEW g, \A p \in S : g[p] \in Int, NEW g2, \A p \in S : g2[p] \in Int,
         \A p \in S : g2[p] <= IF p = c THEN g[p] + 1 ELSE g[p]
  PROVE  Summed(g2, S) <= IF c \in S THEN Summed(g, S) + 1 ELSE Summed(g, S)
<1>1. PICK h : Sums(h, g, S) /\ Summed(g, S) = h[S] /\ \A s \in SUBSET S : h[s] \in Int
  BY SummedBySums
<1>2. PICK h2 : Sums(h2, g2, S) /\ Summed(g2, S) = h2[S] /\ \A s \in SUBSET S : h2[s] \in Int
  BY SummedBySums
<1> DEFINE Good == {s \in SUBSET S : h2[s] <= IF c \in s THEN h[s] + 1 ELSE h[s]}
<1>3. ASSUME NEW s \in SUBSET S, \A r \in SUBSET s : r # s => r \in Good
      PROVE  s \in Good
  <2>1. CASE s = {}
    <3>1. h[{}] = 0 /\ h2[{}] = 0
      <4> HIDE DEF Good
      <4> QED BY <1>1, <1>2, SumsEmpty
    <3> QED BY <2>1, <3>1
  <2>2. CASE s # {}
    <3> DEFINE o == One(s)
               r == s \ {o}
    <3>1. /\ o \in s /\ h[s] = g[o] + h[r] /\ h2[s] = g2[o] + h2[r] /\ r \in SUBSET S
      <4> HIDE DEF Good
      <4>1. One(s) \in s /\ h[s] = g[One(s)] + h[s \ {One(s)}]
        BY <1>1, <2>2, SumsFirst
      <4>2. h2[s] = g2[One(s)] + h2[s \ {One(s)}]
        BY <1>2, <2>2, SumsFirst
      <4> QED BY <4>1, <4>2
    <3>2. r \in Good
      BY <1>3, <3>1
    <3>3. /\ h[r] \in Int /\ h2[r] \in Int /\ g[o] \in Int /\ g2[o] \in Int
          /\ g2[o] <= IF o = c THEN g[o] + 1 ELSE g[o]
      BY <1>1, <1>2, <3>1
    <3>4. h2[r] <= IF c \in s /\ o # c THEN h[r] + 1 ELSE h[r]
      BY <3>1, <3>2
    <3> HIDE DEF o, r
    <3>5. h2[s] <= IF c \in s THEN h[s] + 1 ELSE h[s]
      BY <3>1, <3>3, <3>4
    <3> QED BY <3>5
  <2> QED BY <2>1, <2>2
<1>4. SUBSET S \subseteq Good
  <2> HIDE DEF Good
  <2> QED BY <1>3, SubsetInduction
<1>5. S \in Good
  BY <1>4
<1> QED BY <1>1, <1>2, <1>5

\* Any element can be taken out of a sum.
LEMMA SumsTakeOut ==
  ASSUME NEW S, IsFiniteSet(S), NEW g, \A p \in S : g[p] \in Int, NEW h, Sums(h, g, S)
  PROVE  \A s \in SUBSET S : \A x \in s : h[s] = g[x] + h[s \ {x}]
<1> DEFINE Good == {s \in SUBSET S : \A x \in s : h[s] = g[x] + h[s \ {x}]}
<1>1. ASSUME NEW s \in SUBSET S, \A r \in SUBSET s : r # s => r \in Good
      PROVE  s \in Good
  <2>1. ASSUME s # {} PROVE One(s) \in s /\ h[s] = g[One(s)] + h[s \ {One(s)}]
    BY <2>1, SumsFirst
  <2> SUFFICES ASSUME NEW x \in s PROVE h[s] = g[x] + h[s \ {x}]
    OBVIOUS
  <2>2. PICK o \in s : h[s] = g[o] + h[s \ {o}]
    BY <2>1
  <2>3. CASE x # o
    <3> DEFINE r == (s \ {o}) \ {x}
    <3>1. s \ {o} \in Good /\ s \ {x} \in Good
      BY <1>1
    <3>2. h[s \ {o}] = g[x] + h[r]
      BY <2>3, <3>1
    <3>3. h[s \ {x}] = g[o] + h[(s \ {x}) \ {o}]
      BY <2>3, <3>1
    <3>4. (s \ {x}) \ {o} = r /\ r \in SUBSET S
      OBVIOUS
    <3>5. g[x] \in Int /\ g[o] \in Int /\ h[r] \in Int
      BY <3>4, SumsTypes
    <3> HIDE DEF r, Good
    <3>6. h[s] = g[o] + (g[x] + h[r]) /\ h[s \ {x}] = g[o] + h[r]
      BY <2>2, <3>2, <3>3, <3>4
    <3> QED BY <3>5, <3>6
  <2> QED BY <2>2, <2>3
<1>2. SUBSET S \subseteq Good
  <2> HIDE DEF Good
  <2> QED BY <1>1, SubsetInduction
<1> QED BY <1>2

\* A part of a sum whose other summands are not negative.
LEMMA SumOfPart ==
  ASSUME NEW S, IsFiniteSet(S), NEW g, \A p \in S : g[p] \in Nat,
         NEW T, T \subseteq S, NEW g2, \A p \in T : g2[p] = g[p]
  PROVE  Summed(g2, T) <= Summed(g, S)
<1>1. PICK h : Sums(h, g, S) /\ Summed(g, S) = h[S] /\ \A s \in SUBSET S : h[s] \in Int
  BY SummedBySums
<1>2. IsFiniteSet(T) /\ T \in SUBSET T /\ \A p \in T : g2[p] \in Int
  BY FS_Subset
<1>3. PICK h2 : Sums(h2, g2, T) /\ Summed(g2, T) = h2[T]
  BY <1>2, SummedBySums
<1>4. h2[T] = h[T] /\ h[T] \in Int
  BY <1>1, <1>2, <1>3, SumsAgree
<1> DEFINE Good == {s \in SUBSET S : T \subseteq s => h[T] <= h[s]}
<1>5. ASSUME NEW s \in SUBSET S, \A r \in SUBSET s : r # s => r \in Good
      PROVE  s \in Good
  <2>1. SUFFICES ASSUME T \subseteq s, T # s PROVE h[T] <= h[s]
    BY <1>4
  <2>2. PICK x \in s : x \notin T
    BY <2>1
  <2>3. h[s] = g[x] + h[s \ {x}] /\ h[s \ {x}] \in Int /\ g[x] \in Nat
    <3>1. \A p \in S : g[p] \in Int
      OBVIOUS
    <3>2. h[s] = g[x] + h[s \ {x}]
      <4> HIDE DEF Good
      <4> QED BY <1>1, <3>1, SumsTakeOut
    <3>3. s \ {x} \in SUBSET S /\ x \in S
      OBVIOUS
    <3> HIDE DEF Good
    <3> QED BY <1>1, <3>2, <3>3
  <2>4. s \ {x} \in Good
    BY <1>5
  <2>5. h[T] <= h[s \ {x}]
    BY <2>1, <2>2, <2>4
  <2> QED BY <1>4, <2>3, <2>5
<1>6. SUBSET S \subseteq Good
  <2> HIDE DEF Good
  <2> QED BY <1>5, SubsetInduction
<1>7. S \in Good
  BY <1>6
<1> QED BY <1>1, <1>3, <1>4, <1>7
--------------------------------------------------------------------------------
(***************************************************************************)
(* Loops.  A function that calls itself last is a loop over the set X of   *)
(* its arguments: in the set stop it returns out, elsewhere it goes on at  *)
(* next.  As long as a measure falls there is such a function, and what    *)
(* holds at the start and is kept by each round holds at the end.          *)
(***************************************************************************)
Loop(f, X, stop, next, out) ==
  f = [x \in X |-> IF x \in stop THEN out[x] ELSE f[next[x]]]

\* Every round stays in X and brings the measure m down.
Falls(m, X, stop, next) ==
  /\ m \in [X -> Nat]
  /\ \A x \in X : x \notin stop => next[x] \in X /\ m[next[x]] < m[x]

\* The set A is not left before the end.
Closed(A, stop, next) == \A x \in A : x \notin stop => next[x] \in A

\* Induction over a measure, with the set T of those that have the property.
LEMMA MeasureInduction ==
  ASSUME NEW X, NEW m \in [X -> Nat], NEW T,
         \A x \in X : (\A y \in X : m[y] < m[x] => y \in T) => x \in T
  PROVE  X \subseteq T
<1> DEFINE R == OpToRel(<, Nat)
           Bad == {m[x] : x \in X \ T}
<1>1. SUFFICES ASSUME X \ T # {} PROVE FALSE
  OBVIOUS
<1>2. Bad \subseteq Nat /\ Bad # {}
  BY <1>1
<1>3. \A i, j \in Nat : i < j => <<i, j>> \in R
  BY DEF OpToRel
<1>4. PICK n \in Bad : \A i \in Bad : ~(<<i, n>> \in R)
  <2> HIDE DEF R, Bad
  <2> QED BY <1>2, NatLessThanWellFounded, WFMin DEF R
<1>5. PICK x \in X \ T : n = m[x]
  OBVIOUS
<1>6. ASSUME NEW y \in X, m[y] < m[x] PROVE y \in T
  <2>1. m[x] \in Nat /\ m[y] \in Nat
    OBVIOUS
  <2>2. y \notin T => m[y] \in Bad
    OBVIOUS
  <2> HIDE DEF R, Bad
  <2> QED BY <1>3, <1>4, <1>5, <1>6, <2>1, <2>2
<1> HIDE DEF R, Bad
<1> QED BY <1>5, <1>6

LEMMA LoopsAgree ==
  ASSUME NEW X, NEW stop, NEW next, NEW out, NEW m, Falls(m, X, stop, next),
         NEW A, A \subseteq X, Closed(A, stop, next),
         NEW B, A \subseteq B,
         NEW f, Loop(f, A, stop, next, out), NEW g, Loop(g, B, stop, next, out)
  PROVE  \A x \in A : f[x] = g[x]
<1> DEFINE T == {x \in X : x \in A => f[x] = g[x]}
<1>1. ASSUME NEW x \in X, \A y \in X : m[y] < m[x] => y \in T
      PROVE  x \in T
  <2>1. SUFFICES ASSUME x \in A PROVE f[x] = g[x]
    OBVIOUS
  <2>2. /\ f[x] = IF x \in stop THEN out[x] ELSE f[next[x]]
        /\ g[x] = IF x \in stop THEN out[x] ELSE g[next[x]]
    <3> HIDE DEF T
    <3>1. x \in B
      BY <2>1
    <3>2. f[x] = IF x \in stop THEN out[x] ELSE f[next[x]]
      BY <2>1 DEF Loop
    <3>3. g[x] = IF x \in stop THEN out[x] ELSE g[next[x]]
      BY <3>1 DEF Loop
    <3> QED BY <3>2, <3>3
  <2>3. CASE x \notin stop
    <3>1. next[x] \in A /\ next[x] \in T
      BY <1>1, <2>1, <2>3 DEF Falls, Closed
    <3> QED BY <2>2, <2>3, <3>1
  <2> QED BY <2>2, <2>3
<1>2. X \subseteq T
  <2>1. m \in [X -> Nat]
    BY DEF Falls
  <2> HIDE DEF T
  <2> QED BY <1>1, <2>1, MeasureInduction
<1> QED BY <1>2

\* The arguments that are at most as far from the end as x.
Nearer(m, X, x) == {y \in X : m[y] <= m[x]}

\* From every place of D that is not the end a loop takes over.
GoesOn(D, X, stop, next, out, m) ==
  \A x \in D : x \notin stop =>
    next[x] \in D /\ \E f : Loop(f, Nearer(m, X, next[x]), stop, next, out)

LEMMA NearerIsClosed ==
  ASSUME NEW X, NEW stop, NEW next, NEW m, Falls(m, X, stop, next), NEW x \in X
  PROVE  /\ Nearer(m, X, x) \subseteq X /\ x \in Nearer(m, X, x)
         /\ \A y \in Nearer(m, X, x) : y \notin stop =>
              next[y] \in Nearer(m, X, x) /\ Nearer(m, X, next[y]) \subseteq Nearer(m, X, x)
<1>1. m[x] \in Nat /\ \A y \in X : m[y] \in Nat
  BY DEF Falls
<1>2. ASSUME NEW y \in X, m[y] <= m[x], y \notin stop PROVE next[y] \in X /\ m[next[y]] <= m[x]
  BY <1>1, <1>2 DEF Falls
<1>3. ASSUME NEW y \in X, m[y] <= m[x], NEW z \in X, m[z] <= m[y] PROVE m[z] <= m[x]
  BY <1>1, <1>3
<1> QED BY <1>1, <1>2, <1>3 DEF Nearer

LEMMA LoopExtends ==
  ASSUME NEW X, NEW stop, NEW next, NEW out, NEW m, Falls(m, X, stop, next),
         NEW D, D \subseteq X, GoesOn(D, X, stop, next, out, m)
  PROVE  \E f : Loop(f, D, stop, next, out)
<1> DEFINE F(x) == CHOOSE f : Loop(f, Nearer(m, X, x), stop, next, out)
           V(x) == F(x)[x]
           h == [x \in D |-> IF x \in stop THEN out[x] ELSE V(next[x])]
<1>1. ASSUME NEW x \in D, x \notin stop
      PROVE  next[x] \in D /\ Loop(F(next[x]), Nearer(m, X, next[x]), stop, next, out)
  BY <1>1 DEF GoesOn
<1>2. ASSUME NEW x \in D, x \notin stop PROVE h[next[x]] = V(next[x])
  <2> DEFINE y == next[x]
             z == next[y]
  <2>1. y \in D /\ y \in X /\ Loop(F(y), Nearer(m, X, y), stop, next, out)
    BY <1>1, <1>2
  <2>2. V(y) = IF y \in stop THEN out[y] ELSE F(y)[z]
    <3> HIDE DEF F
    <3> y \in Nearer(m, X, y)
      BY <2>1, NearerIsClosed
    <3> QED BY <2>1 DEF Loop
  <2>3. ASSUME y \notin stop PROVE F(y)[z] = F(z)[z]
    <3>1. z \in D /\ z \in X /\ Loop(F(z), Nearer(m, X, z), stop, next, out)
      BY <1>1, <2>1, <2>3
    <3> HIDE DEF F, y, z
    <3>2. /\ Nearer(m, X, z) \subseteq Nearer(m, X, y) /\ Nearer(m, X, z) \subseteq X
          /\ z \in Nearer(m, X, z)
          /\ \A u \in Nearer(m, X, z) : u \notin stop => next[u] \in Nearer(m, X, z)
      <4>1. y \in Nearer(m, X, y)
        BY <2>1, NearerIsClosed
      <4>2. Nearer(m, X, z) \subseteq Nearer(m, X, y)
        BY <2>1, <2>3, <4>1, NearerIsClosed DEF z
      <4> QED BY <3>1, <4>2, NearerIsClosed
    <3>3. \A u \in Nearer(m, X, z) : F(z)[u] = F(y)[u]
      <4> DEFINE A == Nearer(m, X, z)
                 B == Nearer(m, X, y)
                 f == F(z)
                 g == F(y)
      <4>1. /\ A \subseteq X /\ A \subseteq B /\ Loop(f, A, stop, next, out)
            /\ Loop(g, B, stop, next, out) /\ Closed(A, stop, next)
        BY <2>1, <3>1, <3>2 DEF Closed
      <4> HIDE DEF A, B, f, g
      <4>2. \A u \in A : f[u] = g[u]
        BY <4>1, LoopsAgree
      <4> QED BY <4>2 DEF A, f, g
    <3> QED BY <3>2, <3>3
  <2>4. h[y] = IF y \in stop THEN out[y] ELSE V(z)
    BY <2>1
  <2> HIDE DEF F, h, y, z
  <2>5. V(z) = F(z)[z] /\ V(y) = F(y)[y]
    OBVIOUS
  <2>6. h[y] = V(y)
    <3> HIDE DEF V
    <3> QED BY <2>2, <2>3, <2>4, <2>5
  <2> QED BY <2>6 DEF y
<1>3. \A x \in D : (IF x \in stop THEN out[x] ELSE V(next[x]))
                     = IF x \in stop THEN out[x] ELSE h[next[x]]
  <2> HIDE DEF h, V
  <2> QED BY <1>2
<1>4. h = [x \in D |-> IF x \in stop THEN out[x] ELSE h[next[x]]]
  <2> HIDE DEF V
  <2> QED BY <1>3
<1> HIDE DEF h
<1> QED BY <1>4 DEF Loop

LEMMA LoopExists ==
  ASSUME NEW X, NEW stop, NEW next, NEW out, NEW m, Falls(m, X, stop, next)
  PROVE  \E f : Loop(f, X, stop, next, out)
<1> DEFINE T == {x \in X : \E f : Loop(f, Nearer(m, X, x), stop, next, out)}
<1>1. ASSUME NEW x \in X, \A y \in X : m[y] < m[x] => y \in T
      PROVE  x \in T
  <2>1. ASSUME NEW y \in Nearer(m, X, x), y \notin stop
        PROVE  /\ next[y] \in Nearer(m, X, x)
               /\ \E f : Loop(f, Nearer(m, X, next[y]), stop, next, out)
    <3>1. y \in X /\ next[y] \in X /\ m[next[y]] < m[y] /\ m[y] <= m[x]
      BY <2>1 DEF Falls, Nearer
    <3>2. m[next[y]] < m[x]
      <4>1. m[next[y]] \in Nat /\ m[y] \in Nat /\ m[x] \in Nat
        BY <3>1 DEF Falls
      <4> QED BY <3>1, <4>1
    <3>3. next[y] \in T
      BY <1>1, <3>1, <3>2
    <3>4. next[y] \in Nearer(m, X, x)
      <4> HIDE DEF T
      <4> QED BY <2>1, NearerIsClosed
    <3> QED BY <3>3, <3>4
  <2>2. Nearer(m, X, x) \subseteq X
    BY DEF Nearer
  <2>3. GoesOn(Nearer(m, X, x), X, stop, next, out, m)
    <3> HIDE DEF T
    <3> QED BY <2>1 DEF GoesOn
  <2>4. \E f : Loop(f, Nearer(m, X, x), stop, next, out)
    <3> HIDE DEF T
    <3> QED BY <2>2, <2>3, LoopExtends
  <2> QED BY <2>4
<1>2. X \subseteq T
  <2>1. m \in [X -> Nat]
    BY DEF Falls
  <2> HIDE DEF T
  <2> QED BY <1>1, <2>1, MeasureInduction
<1>3. GoesOn(X, X, stop, next, out, m)
  <2>1. \A x \in X : x \notin stop => next[x] \in X
    BY DEF Falls
  <2> QED BY <1>2, <2>1 DEF GoesOn
<1> HIDE DEF T
<1>4. X \subseteq X
  OBVIOUS
<1> QED BY <1>3, <1>4, LoopExtends

(***************************************************************************)
(* What holds at the start, and is kept by each round, holds at the end.   *)
(***************************************************************************)
LEMMA LoopEnds ==
  ASSUME NEW X, NEW stop, NEW next, NEW out, NEW m, Falls(m, X, stop, next),
         NEW f, Loop(f, X, stop, next, out),
         NEW I, I \subseteq X, Closed(I, stop, next)
  PROVE  \A x \in I : \E y \in I : y \in stop /\ f[x] = out[y]
<1> DEFINE T == {x \in X : x \in I => \E y \in I : y \in stop /\ f[x] = out[y]}
<1>1. ASSUME NEW x \in X, \A y \in X : m[y] < m[x] => y \in T
      PROVE  x \in T
  <2>1. SUFFICES ASSUME x \in I PROVE \E y \in I : y \in stop /\ f[x] = out[y]
    OBVIOUS
  <2>2. f[x] = IF x \in stop THEN out[x] ELSE f[next[x]]
    <3> HIDE DEF T
    <3> QED BY DEF Loop
  <2>3. CASE x \notin stop
    <3>1. next[x] \in I /\ next[x] \in T
      BY <1>1, <2>1, <2>3 DEF Falls, Closed
    <3> QED BY <2>2, <2>3, <3>1
  <2> QED BY <2>1, <2>2, <2>3
<1>2. X \subseteq T
  <2>1. m \in [X -> Nat]
    BY DEF Falls
  <2> HIDE DEF T
  <2> QED BY <1>1, <2>1, MeasureInduction
<1> QED BY <1>2
--------------------------------------------------------------------------------
(***************************************************************************)
(* Binary heaps in the first n places of an array.  Of the processes in    *)
(* them only the keys v count for the order.                               *)
(***************************************************************************)
Ordered(v, n) == \A x \in 2..n : v[x \div 2] <= v[x]

\* Nothing below the place i goes before what is above it.
Bridged(v, n, i) == \A x \in 2..n : x \div 2 = i /\ i >= 2 => v[i \div 2] <= v[x]

\* In order, but for the place i and its parent: i may have to go up.
OrderedButUp(v, n, i) == Bridged(v, n, i) /\ \A x \in 2..n : x # i => v[x \div 2] <= v[x]

\* In order, but for the place i and its children: i may have to go down.
OrderedButDown(v, n, i) == Bridged(v, n, i) /\ \A x \in 2..n : x \div 2 # i => v[x \div 2] <= v[x]

\* g is h with the places i and j exchanged.
Exchanged(h, g, n, i, j) ==
  /\ g[i] = h[j] /\ g[j] = h[i]
  /\ \A x \in 1..n : x # i /\ x # j => g[x] = h[x]

LEMMA Halves ==
  ASSUME NEW x \in Nat \ {0, 1}
  PROVE  /\ x \div 2 \in Nat \ {0} /\ x \div 2 < x
         /\ x = 2 * (x \div 2) \/ x = 2 * (x \div 2) + 1
  OBVIOUS

LEMMA Doubles ==
  ASSUME NEW x \in Nat \ {0}
  PROVE  (2 * x) \div 2 = x /\ (2 * x + 1) \div 2 = x
  OBVIOUS

\* The root is the least.
LEMMA RootIsLeast ==
  ASSUME NEW n \in Nat, NEW v, \A x \in 1..n : v[x] \in Int, Ordered(v, n)
  PROVE  \A x \in 1..n : v[1] <= v[x]
<1> DEFINE X == 1..n
           m == [x \in X |-> x]
           T == {x \in X : v[1] <= v[x]}
<1>1. ASSUME NEW x \in X, \A y \in X : m[y] < m[x] => y \in T
      PROVE  x \in T
  <2>1. CASE x = 1
    BY <2>1
  <2>2. CASE x # 1
    <3>1. PICK p \in Nat \ {0} : p = x \div 2 /\ p < x
      BY <2>2, Halves
    <3>2. p \in X /\ m[p] < m[x]
      BY <3>1
    <3>3. p \in T
      BY <1>1, <3>2
    <3>4. v[p] <= v[x]
      <4>1. x \in 2..n
        BY <2>2
      <4> HIDE DEF T, X, m
      <4> QED BY <3>1, <4>1 DEF Ordered
    <3>5. v[1] \in Int /\ v[p] \in Int /\ v[x] \in Int
      BY <3>2
    <3> QED BY <3>3, <3>4, <3>5
  <2> QED BY <2>1, <2>2
<1>2. m \in [X -> Nat]
  OBVIOUS
<1>3. X \subseteq T
  <2> HIDE DEF X, m, T
  <2> QED BY <1>1, <1>2, MeasureInduction
<1> QED BY <1>3

\* One step up.
LEMMA StepUp ==
  ASSUME NEW n \in Nat, NEW v, \A x \in 1..n : v[x] \in Int,
         NEW i \in 2..n, OrderedButUp(v, n, i), v[i] < v[i \div 2],
         NEW w, Exchanged(v, w, n, i, i \div 2)
  PROVE  OrderedButUp(w, n, i \div 2)
<1>1. PICK p \in 1..n : p = i \div 2 /\ p < i
  BY Halves
<1>2. /\ w[i] = v[p] /\ w[p] = v[i]
      /\ \A x \in 1..n : x # i /\ x # p => w[x] = v[x]
  BY <1>1 DEF Exchanged
<1>3. v[i] \in Int /\ v[p] \in Int /\ v[i] < v[p]
  BY <1>1
<1>4. ASSUME NEW x \in 2..n, x # p PROVE w[x \div 2] <= w[x]
  <2>1. PICK y \in 1..n : y = x \div 2 /\ y < x
    BY Halves
  <2>2. v[x] \in Int /\ v[y] \in Int
    OBVIOUS
  <2>3. x # i => v[y] <= v[x]
    BY <2>1 DEF OrderedButUp
  <2>4. y = i => v[p] <= v[x]
    BY <1>1, <2>1 DEF OrderedButUp, Bridged
  <2>5. CASE x = i
    BY <1>1, <1>2, <1>3, <2>1, <2>5
  <2>6. CASE x # i
    <3>1. w[x] = v[x]
      BY <1>2, <1>4, <2>6
    <3>2. CASE y = p
      BY <1>2, <1>3, <2>1, <2>2, <2>3, <2>6, <3>1, <3>2
    <3>3. CASE y = i
      BY <1>2, <2>1, <2>4, <3>1, <3>3
    <3>4. CASE y # p /\ y # i
      BY <1>2, <2>1, <2>3, <2>6, <3>1, <3>4
    <3> QED BY <3>2, <3>3, <3>4
  <2> QED BY <2>5, <2>6
<1>5. ASSUME NEW x \in 2..n, x \div 2 = p, p >= 2 PROVE w[p \div 2] <= w[x]
  <2>1. PICK q \in 1..n : q = p \div 2 /\ q < p
    BY <1>5, Halves
  <2>2. w[q] = v[q] /\ v[q] \in Int
    BY <1>1, <1>2, <2>1
  <2>3. v[q] <= v[p]
    <3>1. p \in 2..n /\ p # i
      BY <1>1, <1>5
    <3> QED BY <2>1, <3>1 DEF OrderedButUp
  <2>4. CASE x = i
    BY <1>2, <2>1, <2>2, <2>3, <2>4
  <2>5. CASE x # i
    <3>1. x # p
      BY <1>5, Halves
    <3>2. w[x] = v[x] /\ v[x] \in Int
      BY <1>2, <2>5, <3>1
    <3>3. v[p] <= v[x]
      BY <1>5, <2>5 DEF OrderedButUp
    <3> QED BY <1>3, <2>1, <2>2, <2>3, <3>2, <3>3
  <2> QED BY <2>4, <2>5
<1> QED BY <1>1, <1>4, <1>5 DEF OrderedButUp, Bridged

\* One step down, to a child that is less and the least of the children.
LEMMA StepDown ==
  ASSUME NEW n \in Nat, NEW v, \A x \in 1..n : v[x] \in Int,
         NEW i \in 1..n, OrderedButDown(v, n, i),
         NEW s \in 2..n, s \div 2 = i, v[s] < v[i],
         \A x \in 2..n : x \div 2 = i => v[s] <= v[x],
         NEW w, Exchanged(v, w, n, i, s)
  PROVE  OrderedButDown(w, n, s)
<1>1. i < s
  BY Halves
<1>2. /\ w[i] = v[s] /\ w[s] = v[i]
      /\ \A x \in 1..n : x # i /\ x # s => w[x] = v[x]
  BY DEF Exchanged
<1>3. v[i] \in Int /\ v[s] \in Int /\ v[s] < v[i]
  OBVIOUS
<1>4. ASSUME NEW x \in 2..n, x \div 2 # s PROVE w[x \div 2] <= w[x]
  <2>1. PICK y \in 1..n : y = x \div 2 /\ y < x
    BY Halves
  <2>2. v[x] \in Int /\ v[y] \in Int
    OBVIOUS
  <2>3. y # i => v[y] <= v[x]
    BY <2>1 DEF OrderedButDown
  <2>4. CASE x = s
    BY <1>2, <1>3, <2>1, <2>4
  <2>5. CASE x # s /\ y = i
    <3>1. w[x] = v[x]
      BY <1>2, <2>1, <2>5
    <3>2. v[s] <= v[x]
      BY <2>1, <2>5
    <3> QED BY <1>2, <2>1, <2>5, <3>1, <3>2
  <2>6. CASE x = i
    <3>1. i >= 2 /\ y = i \div 2 /\ w[y] = v[y]
      BY <1>1, <1>2, <2>1, <2>6
    <3>2. v[y] <= v[s]
      BY <3>1 DEF OrderedButDown, Bridged
    <3> QED BY <1>2, <2>1, <2>6, <3>1, <3>2
  <2>7. CASE x # s /\ x # i /\ y # i
    BY <1>2, <1>4, <2>1, <2>3, <2>7
  <2> QED BY <2>4, <2>5, <2>6, <2>7
<1>5. ASSUME NEW x \in 2..n, x \div 2 = s PROVE w[s \div 2] <= w[x]
  <2>1. s < x
    BY <1>5, Halves
  <2>2. w[x] = v[x]
    BY <1>1, <1>2, <2>1
  <2>3. v[s] <= v[x]
    BY <1>1, <1>5 DEF OrderedButDown
  <2> QED BY <1>2, <2>2, <2>3
<1> QED BY <1>4, <1>5 DEF OrderedButDown, Bridged

\* A place that need not go up, or down, is in order.
LEMMA UpEnds ==
  ASSUME NEW n \in Nat, NEW v, NEW i \in 1..n, OrderedButUp(v, n, i),
         i >= 2 => v[i \div 2] <= v[i]
  PROVE  Ordered(v, n)
  BY DEF Ordered, OrderedButUp

LEMMA DownEnds ==
  ASSUME NEW n \in Nat, NEW v, NEW i, OrderedButDown(v, n, i),
         \A x \in 2..n : x \div 2 = i => v[i] <= v[x]
  PROVE  Ordered(v, n)
  BY DEF Ordered, OrderedButDown

LEMMA OrderedIsBridged ==
  ASSUME NEW n \in Nat, NEW v, \A x \in 1..n : v[x] \in Int, Ordered(v, n), NEW i \in 1..n
  PROVE  Bridged(v, n, i)
<1> SUFFICES ASSUME NEW x \in 2..n, x \div 2 = i, i >= 2 PROVE v[i \div 2] <= v[x]
  BY DEF Bridged
<1>1. PICK p \in 1..n : p = i \div 2
  BY Halves
<1>2. v[p] <= v[i] /\ v[i] <= v[x]
  BY <1>1 DEF Ordered
<1>3. v[p] \in Int /\ v[i] \in Int /\ v[x] \in Int
  OBVIOUS
<1> QED BY <1>1, <1>2, <1>3

\* The key of one place changes: up or down, but not both.
LEMMA OneChanges ==
  ASSUME NEW n \in Nat, NEW v, \A x \in 1..n : v[x] \in Int, Ordered(v, n),
         NEW i \in 1..n, NEW w, \A x \in 1..n : x # i => w[x] = v[x], w[i] \in Int
  PROVE  /\ i >= 2 /\ w[i] < w[i \div 2] => OrderedButUp(w, n, i)
         /\ (i >= 2 => w[i \div 2] <= w[i]) => OrderedButDown(w, n, i)
<1>1. \A x \in 2..n : x \div 2 \in 1..n /\ x \div 2 # x
  BY Halves
<1>2. Bridged(w, n, i)
  <2> SUFFICES ASSUME NEW x \in 2..n, x \div 2 = i, i >= 2 PROVE w[i \div 2] <= w[x]
    BY DEF Bridged
  <2>1. v[i \div 2] <= v[x]
    BY OrderedIsBridged DEF Bridged
  <2>2. i \div 2 \in 1..n /\ i \div 2 # i /\ x # i
    BY <1>1
  <2> QED BY <2>1, <2>2
<1>3. \A x \in 2..n : x # i /\ x \div 2 # i => w[x \div 2] <= w[x]
  <2> TAKE x \in 2..n
  <2> HAVE x # i /\ x \div 2 # i
  <2>1. v[x \div 2] <= v[x]
    BY DEF Ordered
  <2> QED BY <1>1, <2>1
<1>4. ASSUME i >= 2, w[i] < w[i \div 2] PROVE OrderedButUp(w, n, i)
  <2> SUFFICES ASSUME NEW x \in 2..n, x # i PROVE w[x \div 2] <= w[x]
    BY <1>2 DEF OrderedButUp
  <2>1. CASE x \div 2 = i
    <3>1. i \div 2 \in 1..n /\ w[i \div 2] <= w[x] /\ w[i \div 2] \in Int /\ w[x] \in Int
      <4>1. i \in 2..n /\ i \div 2 \in 1..n /\ i \div 2 # i
        BY <1>1, <1>4
      <4>2. w[i \div 2] = v[i \div 2] /\ w[x] = v[x]
        BY <4>1
      <4> QED BY <1>2, <1>4, <2>1, <4>1, <4>2 DEF Bridged
    <3> QED BY <1>4, <2>1, <3>1
  <2> QED BY <1>3, <2>1
<1>5. ASSUME i >= 2 => w[i \div 2] <= w[i] PROVE OrderedButDown(w, n, i)
  <2> SUFFICES ASSUME NEW x \in 2..n, x \div 2 # i PROVE w[x \div 2] <= w[x]
    BY <1>2 DEF OrderedButDown
  <2>1. CASE x = i
    BY <1>5, <2>1
  <2> QED BY <1>3, <2>1
<1>6. i >= 2 => w[i] \in Int /\ w[i \div 2] \in Int
  <2> HAVE i >= 2
  <2>1. i \in 2..n
    OBVIOUS
  <2>2. i \div 2 \in 1..n /\ i \div 2 # i
    BY <1>1, <2>1
  <2> QED BY <2>2
<1> QED BY <1>4, <1>5, <1>6

\* What the first n places hold, and that none holds it twice.
Held(h, n) == {h[x] : x \in 1..n}
OnceEach(h, n) == \A x, y \in 1..n : h[x] = h[y] => x = y

LEMMA ExchangeKeeps ==
  ASSUME NEW n \in Nat, NEW h, NEW g, NEW i \in 1..n, NEW j \in 1..n, Exchanged(h, g, n, i, j)
  PROVE  /\ Held(g, n) = Held(h, n)
         /\ OnceEach(h, n) => OnceEach(g, n)
<1> DEFINE t(x) == IF x = i THEN j ELSE IF x = j THEN i ELSE x
<1>1. \A x \in 1..n : t(x) \in 1..n /\ g[x] = h[t(x)] /\ h[x] = g[t(x)]
  BY DEF Exchanged
<1>2. \A x, y \in 1..n : t(x) = t(y) => x = y
  OBVIOUS
<1> HIDE DEF t
<1>3. Held(g, n) = Held(h, n)
  BY <1>1 DEF Held
<1>4. OnceEach(h, n) => OnceEach(g, n)
  BY <1>1, <1>2 DEF OnceEach
<1> QED BY <1>3, <1>4
================================================================================
