------------------------------- MODULE HeapProofs -------------------------------
(***************************************************************************)
(* Proofs about the two binary heaps: MinHeap, for any processes, keys and *)
(* capacity, and ArrivalQueue, for any input file.  Both are loops that    *)
(* exchange a process with its parent or a child; what one round does to   *)
(* the order of the array is in DataLemmas.                                *)
(***************************************************************************)
EXTENDS MinHeap, ArrivalQueue, DataLemmas

\* The keys of the first n processes of the array h.
KeysOf(k, h, n) == [x \in 1..n |-> k[h[x]]]

\* The array g holds the n processes of h, perhaps in another order.
Rearranged(g, h, n) ==
  /\ g \in Seq(Proc) /\ Len(g) = n
  /\ Held(g, n) = Held(h, n)
  /\ OnceEach(h, n) => OnceEach(g, n)

LEMMA PlacesHoldProcesses ==
  ASSUME NEW h \in Seq(Proc), NEW n, Len(h) = n
  PROVE  /\ \A x \in 1..n : h[x] \in Proc
         /\ \A k \in [Proc -> Int] : \A x \in 1..n : k[h[x]] \in Int
  OBVIOUS

LEMMA KeysAreInts ==
  ASSUME NEW k \in [Proc -> Int], NEW h \in Seq(Proc), NEW n, n = Len(h)
  PROVE  /\ n \in Nat
         /\ \A x \in 1..n : KeysOf(k, h, n)[x] = k[h[x]] /\ KeysOf(k, h, n)[x] \in Int
  BY DEF KeysOf

LEMMA SwapExchanges ==
  ASSUME NEW h \in Seq(Proc), NEW n, n = Len(h), NEW i \in 1..n, NEW j \in 1..n, i # j,
         NEW g, g = Swap(h, i, j)
  PROVE  /\ g \in Seq(Proc) /\ Len(g) = n
         /\ Exchanged(h, g, n, i, j)
         /\ \A k \in [Proc -> Int] : Exchanged(KeysOf(k, h, n), KeysOf(k, g, n), n, i, j)
<1>1. /\ n \in Nat /\ h \in [1..n -> Proc] /\ g = [x \in 1..n |->
           IF x = j THEN h[i] ELSE IF x = i THEN h[j] ELSE h[x]]
  <2>1. n \in Nat /\ h \in [1..n -> Proc]
    OBVIOUS
  <2> QED BY <2>1 DEF Swap
<1>2. g \in [1..n -> Proc]
  BY <1>1
<1>3. g \in Seq(Proc) /\ Len(g) = n
  BY <1>1, <1>2
<1>4. Exchanged(h, g, n, i, j)
  BY <1>1 DEF Exchanged
<1>5. ASSUME NEW k \in [Proc -> Int]
      PROVE  Exchanged(KeysOf(k, h, n), KeysOf(k, g, n), n, i, j)
  BY <1>4 DEF Exchanged, KeysOf
<1> QED BY <1>3, <1>4, <1>5

LEMMA SwapRearranges ==
  ASSUME NEW h \in Seq(Proc), NEW n, n = Len(h), NEW i \in 1..n, NEW j \in 1..n, i # j,
         NEW a, Rearranged(h, a, n)
  PROVE  Rearranged(Swap(h, i, j), a, n)
<1>1. PICK g : g = Swap(h, i, j)
  OBVIOUS
<1>2. g \in Seq(Proc) /\ Len(g) = n /\ Exchanged(h, g, n, i, j) /\ n \in Nat
  BY <1>1, SwapExchanges
<1>3. Held(g, n) = Held(h, n) /\ (OnceEach(h, n) => OnceEach(g, n))
  BY <1>2, ExchangeKeeps
<1> QED BY <1>1, <1>2, <1>3 DEF Rearranged
--------------------------------------------------------------------------------
(***************************************************************************)
(* heapify_up                                                              *)
(***************************************************************************)
TheArray == [m \in Moving |-> m[1]]
UpNext == [m \in Moving |-> <<Swap(m[1], m[2], parent(m[2])), parent(m[2])>>]
UpStop(k) == {m \in Moving : ~Rises(k, m[1], m[2])}
UpMeasure == [m \in Moving |-> m[2]]

LEMMA SwapIsMoving ==
  ASSUME NEW h \in Seq(Proc), NEW i \in 1..Len(h), NEW j \in 1..Len(h)
  PROVE  <<Swap(h, i, j), j>> \in Moving
<1>1. CASE i = j
  <2>1. Swap(h, i, j) = h
    BY <1>1 DEF Swap
  <2> QED BY <2>1 DEF Moving
<1>2. CASE i # j
  BY <1>2, SwapExchanges DEF Moving
<1> QED BY <1>1, <1>2

LEMMA UpFalls ==
  ASSUME NEW k \in [Proc -> Int]
  PROVE  Falls(UpMeasure, Moving, UpStop(k), UpNext)
<1>1. UpMeasure \in [Moving -> Nat]
  BY DEF UpMeasure, Moving
<1>2. ASSUME NEW m \in Moving, m \notin UpStop(k)
      PROVE  UpNext[m] \in Moving /\ UpMeasure[UpNext[m]] < UpMeasure[m]
  <2>1. PICK h \in Seq(Proc), i \in Nat \ {0} : m = <<h, i>>
    BY DEF Moving
  <2>2. i \in 2..Len(h)
    BY <1>2, <2>1 DEF UpStop, Rises
  <2>3. PICK p \in 1..Len(h) : p = parent(i) /\ p < i
    BY <2>2, Halves DEF parent
  <2>4. UpNext[m] = <<Swap(h, i, p), p>>
    BY <2>1, <2>3 DEF UpNext
  <2>5. UpNext[m] \in Moving
    BY <2>2, <2>3, <2>4, SwapIsMoving
  <2>6. UpMeasure[UpNext[m]] = p /\ UpMeasure[m] = i
    BY <2>1, <2>4, <2>5 DEF UpMeasure
  <2> QED BY <2>3, <2>5, <2>6
<1> QED BY <1>1, <1>2 DEF Falls

LEMMA UpIsLoop ==
  ASSUME NEW k \in [Proc -> Int]
  PROVE  Loop(heapify_up(k), Moving, UpStop(k), UpNext, TheArray)
<1> DEFINE Body(f) == [m \in Moving |->
             IF Rises(k, m[1], m[2])
             THEN f[<<Swap(m[1], m[2], parent(m[2])), parent(m[2])>>] ELSE m[1]]
<1>1. heapify_up(k) = CHOOSE f : f = Body(f)
  BY DEF heapify_up
<1>2. ASSUME NEW f PROVE Loop(f, Moving, UpStop(k), UpNext, TheArray) <=> f = Body(f)
  <2>1. \A m \in Moving : (IF m \in UpStop(k) THEN TheArray[m] ELSE f[UpNext[m]])
          = IF Rises(k, m[1], m[2])
            THEN f[<<Swap(m[1], m[2], parent(m[2])), parent(m[2])>>] ELSE m[1]
    BY DEF UpStop, UpNext, TheArray
  <2>2. [m \in Moving |-> IF m \in UpStop(k) THEN TheArray[m] ELSE f[UpNext[m]]] = Body(f)
    BY <2>1
  <2> HIDE DEF Body
  <2> QED BY <2>2 DEF Loop
<1>3. PICK g : Loop(g, Moving, UpStop(k), UpNext, TheArray)
  BY UpFalls, LoopExists
<1> HIDE DEF Body
<1>4. g = Body(g)
  BY <1>2, <1>3
<1>5. heapify_up(k) = Body(heapify_up(k))
  BY <1>1, <1>4
<1> QED BY <1>2, <1>5

LEMMA UpPair ==
  ASSUME NEW k, NEW h \in Seq(Proc), NEW i \in Nat \ {0}
  PROVE  /\ <<h, i>> \in Moving /\ TheArray[<<h, i>>] = h
         /\ <<h, i>> \in UpStop(k) <=> ~Rises(k, h, i)
         /\ UpNext[<<h, i>>] = <<Swap(h, i, parent(i)), parent(i)>>
<1>1. PICK m \in Moving : m = <<h, i>>
  BY DEF Moving
<1>2. m[1] = h /\ m[2] = i
  BY <1>1
<1>3. TheArray[m] = h /\ UpNext[m] = <<Swap(h, i, parent(i)), parent(i)>>
  BY <1>2 DEF TheArray, UpNext
<1>4. m \in UpStop(k) <=> ~Rises(k, h, i)
  BY <1>2 DEF UpStop
<1> QED BY <1>1, <1>3, <1>4

\* A process on its way up through the n processes of a: only it may be out of order.
Lifted(k, a, n) ==
  {m \in Moving : /\ Rearranged(m[1], a, n) /\ m[2] \in 1..n
                  /\ OrderedButUp(KeysOf(k, m[1], n), n, m[2])}

LEMMA LiftedPair ==
  ASSUME NEW k, NEW a, NEW n, NEW h \in Seq(Proc), NEW i \in Nat \ {0}
  PROVE  <<h, i>> \in Lifted(k, a, n)
           <=> Rearranged(h, a, n) /\ i \in 1..n /\ OrderedButUp(KeysOf(k, h, n), n, i)
<1>1. PICK m \in Moving : m = <<h, i>>
  BY DEF Moving
<1>2. m[1] = h /\ m[2] = i
  BY <1>1
<1> QED BY <1>1, <1>2 DEF Lifted

LEMMA UpKeeps ==
  ASSUME NEW k \in [Proc -> Int], NEW a, NEW n
  PROVE  Lifted(k, a, n) \subseteq Moving /\ Closed(Lifted(k, a, n), UpStop(k), UpNext)
<1>1. SUFFICES ASSUME NEW m \in Lifted(k, a, n), m \notin UpStop(k)
               PROVE  UpNext[m] \in Lifted(k, a, n)
  BY DEF Lifted, Closed
<1>2. PICK h \in Seq(Proc), i \in Nat \ {0} :
        m = <<h, i>> /\ Rearranged(h, a, n) /\ i \in 1..n /\ OrderedButUp(KeysOf(k, h, n), n, i)
  BY DEF Lifted, Moving
<1>3. n = Len(h) /\ n \in Nat /\ i \in 2..n /\ k[h[i]] < k[h[parent(i)]]
  <2>1. n = Len(h) /\ n \in Nat
    BY <1>2 DEF Rearranged
  <2>2. Rises(k, h, i)
    BY <1>1, <1>2, UpPair
  <2> QED BY <2>1, <2>2 DEF Rises, Less
<1>4. PICK p \in 1..n : p = i \div 2 /\ p = parent(i) /\ p < i
  BY <1>3, Halves DEF parent
<1>5. PICK g : g = Swap(h, i, p)
  OBVIOUS
<1>6. /\ g \in Seq(Proc) /\ Len(g) = n /\ Rearranged(g, a, n)
      /\ Exchanged(KeysOf(k, h, n), KeysOf(k, g, n), n, i, p)
  <2>1. i \in 1..n /\ i # p
    BY <1>3, <1>4
  <2>2. /\ g \in Seq(Proc) /\ Len(g) = n
        /\ Exchanged(KeysOf(k, h, n), KeysOf(k, g, n), n, i, p)
    BY <1>3, <1>5, <2>1, SwapExchanges
  <2>3. Rearranged(g, a, n)
    BY <1>2, <1>3, <1>5, <2>1, SwapRearranges
  <2> QED BY <2>2, <2>3
<1>7. OrderedButUp(KeysOf(k, g, n), n, p)
  <2>1. PICK v, w : v = KeysOf(k, h, n) /\ w = KeysOf(k, g, n)
    OBVIOUS
  <2>2. \A x \in 1..n : v[x] = k[h[x]] /\ v[x] \in Int
    <3>1. n = Len(h)
      BY <1>3
    <3>2. \A x \in 1..n : KeysOf(k, h, n)[x] = k[h[x]] /\ KeysOf(k, h, n)[x] \in Int
      BY <3>1, KeysAreInts
    <3> QED BY <2>1, <3>2
  <2>3. v[i] < v[p] /\ i \in 1..n
    BY <1>3, <1>4, <2>2
  <2>4. OrderedButUp(w, n, p)
    BY <1>2, <1>3, <1>4, <1>6, <2>1, <2>2, <2>3, StepUp
  <2> QED BY <2>1, <2>4
<1>8. UpNext[m] = <<g, p>>
  <2>1. UpNext[<<h, i>>] = <<Swap(h, i, parent(i)), parent(i)>>
    BY UpPair
  <2> QED BY <1>2, <1>4, <1>5, <2>1
<1>9. p \in Nat \ {0}
  BY <1>3
<1> QED BY <1>6, <1>7, <1>8, <1>9, LiftedPair

(***************************************************************************)
(* heapify_up puts an array in order in which only one process may have to *)
(* go up, and neither loses nor doubles a process.                         *)
(***************************************************************************)
LEMMA HeapifyUp ==
  ASSUME NEW k \in [Proc -> Int], NEW h \in Seq(Proc), NEW n, n = Len(h), NEW i \in 1..n,
         OrderedButUp(KeysOf(k, h, n), n, i),
         NEW g, g = heapify_up(k)[<<h, i>>]
  PROVE  Rearranged(g, h, n) /\ Ordered(KeysOf(k, g, n), n)
<1>1. n \in Nat /\ <<h, i>> \in Lifted(k, h, n)
  <2>1. n \in Nat /\ Rearranged(h, h, n)
    BY DEF Rearranged
  <2> QED BY <2>1, LiftedPair
<1>2. PICK m \in Lifted(k, h, n) : m \in UpStop(k) /\ g = TheArray[m]
  <2>1. PICK f : f = heapify_up(k)
    OBVIOUS
  <2>2. PICK I : I = Lifted(k, h, n)
    OBVIOUS
  <2>3. I \subseteq Moving /\ Closed(I, UpStop(k), UpNext)
    BY <2>2, UpKeeps
  <2>4. Falls(UpMeasure, Moving, UpStop(k), UpNext)
    BY UpFalls
  <2>5. Loop(f, Moving, UpStop(k), UpNext, TheArray)
    BY <2>1, UpIsLoop
  <2>6. \A x \in I : \E y \in I : y \in UpStop(k) /\ f[x] = TheArray[y]
    BY <2>3, <2>4, <2>5, LoopEnds
  <2> QED BY <1>1, <2>1, <2>2, <2>6
<1>3. PICK j \in 1..n : /\ m = <<g, j>> /\ Rearranged(g, h, n)
                        /\ OrderedButUp(KeysOf(k, g, n), n, j) /\ ~Rises(k, g, j)
  <2>1. PICK b \in Seq(Proc), j \in Nat \ {0} : m = <<b, j>>
    BY DEF Lifted, Moving
  <2>2. g = b /\ ~Rises(k, b, j)
    BY <1>2, <2>1, UpPair
  <2>3. Rearranged(b, h, n) /\ j \in 1..n /\ OrderedButUp(KeysOf(k, b, n), n, j)
    BY <2>1, LiftedPair
  <2> QED BY <2>1, <2>2, <2>3
<1>4. g \in Seq(Proc) /\ Len(g) = n
  BY <1>3 DEF Rearranged
<1>5. ASSUME j >= 2 PROVE KeysOf(k, g, n)[j \div 2] <= KeysOf(k, g, n)[j]
  <2>1. j \in 2..n /\ j \div 2 \in 1..n
    BY <1>1, <1>5, Halves
  <2>2. ~(k[g[j]] < k[g[j \div 2]])
    BY <1>3, <1>4, <2>1 DEF Rises, Less, parent
  <2>3. PICK x \in 1..n, y \in 1..n : x = j \div 2 /\ y = j
    BY <2>1
  <2>4. ~(k[g[y]] < k[g[x]]) /\ k[g[y]] \in Int /\ k[g[x]] \in Int
    BY <1>4, <2>2, <2>3, PlacesHoldProcesses
  <2>5. KeysOf(k, g, n)[x] <= KeysOf(k, g, n)[y]
    BY <2>4 DEF KeysOf
  <2> QED BY <2>3, <2>5
<1>6. Ordered(KeysOf(k, g, n), n)
  BY <1>1, <1>3, <1>5, UpEnds
<1> QED BY <1>3, <1>6

\* A process that need not go up stays.
LEMMA StaysUp ==
  ASSUME NEW k \in [Proc -> Int], NEW h \in Seq(Proc), NEW i \in 1..Len(h), ~Rises(k, h, i)
  PROVE  heapify_up(k)[<<h, i>>] = h
<1>1. PICK m \in Moving : m = <<h, i>> /\ m \in UpStop(k) /\ TheArray[m] = h
  <2>1. i \in Nat \ {0}
    OBVIOUS
  <2> QED BY <2>1, UpPair
<1>2. PICK f : f = heapify_up(k)
  OBVIOUS
<1>3. f = [x \in Moving |-> IF x \in UpStop(k) THEN TheArray[x] ELSE f[UpNext[x]]]
  BY <1>2, UpIsLoop DEF Loop
<1>4. f[m] = TheArray[m]
  BY <1>1, <1>3
<1> QED BY <1>1, <1>2, <1>4
--------------------------------------------------------------------------------
(***************************************************************************)
(* heapify_down                                                            *)
(***************************************************************************)
DownPlace(k, m) == Smallest(k, m[1], m[2])
DownNext(k) == [m \in Moving |-> <<Swap(m[1], m[2], DownPlace(k, m)), DownPlace(k, m)>>]
DownStop(k) == {m \in Moving : DownPlace(k, m) = m[2]}
DownMeasure == [m \in Moving |-> IF m[2] <= Len(m[1]) THEN Len(m[1]) - m[2] ELSE 0]

\* The least of a process and its children.
LEMMA SmallestIsLeast ==
  ASSUME NEW k \in [Proc -> Int], NEW h \in Seq(Proc), NEW n, n = Len(h),
         NEW i \in Nat \ {0}, NEW s, s = Smallest(k, h, i)
  PROVE  /\ s # i => i \in 1..n /\ s \in 2..n /\ s \div 2 = i /\ i < s /\ k[h[s]] < k[h[i]]
         /\ i \in 1..n => \A x \in 2..n : x \div 2 = i => k[h[s]] <= k[h[x]]
<1>1. n \in Nat /\ \A x \in 1..n : k[h[x]] \in Int
  OBVIOUS
<1>2. /\ left_child(i) = 2 * i /\ right_child(i) = 2 * i + 1
      /\ (2 * i) \div 2 = i /\ (2 * i + 1) \div 2 = i
  BY Doubles DEF left_child, right_child
<1>3. \A x \in 2..n : x \div 2 = i => x = 2 * i \/ x = 2 * i + 1
  BY <1>1, Halves
<1>4. PICK l : l = LeftOnly(k, h, i)
  OBVIOUS
<1>5. CASE 2 * i > n
  <2>1. l = i /\ s = i
    BY <1>1, <1>2, <1>4, <1>5 DEF LeftOnly, Smallest
  <2>2. \A x \in 2..n : x \div 2 # i
    BY <1>1, <1>3, <1>5
  <2> QED BY <2>1, <2>2
<1>6. CASE 2 * i <= n
  <2>1. i \in 1..n /\ 2 * i \in 2..n /\ i < 2 * i
    BY <1>1, <1>6
  <2>2. /\ l = IF k[h[2 * i]] < k[h[i]] THEN 2 * i ELSE i
        /\ s = IF 2 * i + 1 <= n /\ k[h[2 * i + 1]] < k[h[l]] THEN 2 * i + 1 ELSE l
    BY <1>2, <1>4, <1>6 DEF LeftOnly, Smallest, Less
  <2>3. PICK a \in Int, b \in Int : a = k[h[i]] /\ b = k[h[2 * i]]
    BY <1>1, <2>1
  <2>4. l = IF b < a THEN 2 * i ELSE i
    BY <2>2, <2>3
  <2>5. k[h[l]] = IF b < a THEN b ELSE a
    BY <2>3, <2>4
  <2>6. CASE 2 * i + 1 > n
    <3>1. s = l
      BY <1>1, <2>2, <2>6
    <3>2. \A x \in 2..n : x \div 2 = i => x = 2 * i
      BY <1>1, <1>3, <2>6
    <3>3. s # i => s = 2 * i /\ b < a
      BY <2>4, <3>1
    <3>4. k[h[s]] <= b
      BY <2>3, <2>5, <3>1
    <3>5. s # i => i \in 1..n /\ s \in 2..n /\ s \div 2 = i /\ i < s /\ k[h[s]] < k[h[i]]
      BY <1>2, <2>1, <2>3, <3>3
    <3>6. \A x \in 2..n : x \div 2 = i => k[h[s]] <= k[h[x]]
      BY <2>3, <3>2, <3>4
    <3> QED BY <3>5, <3>6
  <2>7. CASE 2 * i + 1 <= n
    <3>1. 2 * i + 1 \in 2..n
      BY <1>1, <2>7
    <3>2. PICK c \in Int : c = k[h[2 * i + 1]]
      BY <1>1, <3>1
    <3>3. /\ s = IF c < k[h[l]] THEN 2 * i + 1 ELSE l
          /\ k[h[s]] = IF c < k[h[l]] THEN c ELSE k[h[l]]
      BY <2>2, <2>7, <3>2
    <3>4. s # i => s \in 2..n /\ s \div 2 = i /\ i < s
      BY <1>2, <2>1, <2>2, <3>1, <3>3
    <3>5. (s # i => k[h[s]] < a) /\ k[h[s]] <= b /\ k[h[s]] <= c
      BY <2>2, <2>3, <2>5, <3>2, <3>3
    <3>6. \A x \in 2..n : x \div 2 = i => k[h[s]] <= k[h[x]]
      BY <1>3, <2>3, <3>2, <3>5
    <3> QED BY <2>1, <2>3, <3>4, <3>5, <3>6
  <2> QED BY <1>1, <2>1, <2>6, <2>7
<1> QED BY <1>1, <1>5, <1>6

LEMMA DownPair ==
  ASSUME NEW k, NEW h \in Seq(Proc), NEW i \in Nat \ {0}
  PROVE  /\ <<h, i>> \in Moving /\ TheArray[<<h, i>>] = h
         /\ <<h, i>> \in DownStop(k) <=> Smallest(k, h, i) = i
         /\ DownNext(k)[<<h, i>>] = <<Swap(h, i, Smallest(k, h, i)), Smallest(k, h, i)>>
         /\ DownMeasure[<<h, i>>] = IF i <= Len(h) THEN Len(h) - i ELSE 0
<1>1. PICK m \in Moving : m = <<h, i>>
  BY DEF Moving
<1>2. m[1] = h /\ m[2] = i
  BY <1>1
<1>3. DownPlace(k, m) = Smallest(k, h, i)
  BY <1>2 DEF DownPlace
<1>4. DownNext(k)[m] = <<Swap(h, i, Smallest(k, h, i)), Smallest(k, h, i)>>
  BY <1>2, <1>3 DEF DownNext
<1>5. m \in DownStop(k) <=> Smallest(k, h, i) = i
  BY <1>2, <1>3 DEF DownStop
<1>6. TheArray[m] = h /\ DownMeasure[m] = IF i <= Len(h) THEN Len(h) - i ELSE 0
  BY <1>2 DEF TheArray, DownMeasure
<1> QED BY <1>1, <1>4, <1>5, <1>6

LEMMA DownFalls ==
  ASSUME NEW k \in [Proc -> Int]
  PROVE  Falls(DownMeasure, Moving, DownStop(k), DownNext(k))
<1>1. DownMeasure \in [Moving -> Nat]
  <2>1. ASSUME NEW m \in Moving
        PROVE  (IF m[2] <= Len(m[1]) THEN Len(m[1]) - m[2] ELSE 0) \in Nat
    <3>1. PICK h \in Seq(Proc), i \in Nat \ {0} : m = <<h, i>>
      BY DEF Moving
    <3>2. Len(h) \in Nat /\ m[1] = h /\ m[2] = i
      BY <3>1
    <3> QED BY <3>2
  <2> QED BY <2>1 DEF DownMeasure
<1>2. ASSUME NEW m \in Moving, m \notin DownStop(k)
      PROVE  DownNext(k)[m] \in Moving /\ DownMeasure[DownNext(k)[m]] < DownMeasure[m]
  <2>1. PICK h \in Seq(Proc), i \in Nat \ {0} : m = <<h, i>>
    BY DEF Moving
  <2>2. PICK n \in Nat : n = Len(h)
    OBVIOUS
  <2>3. PICK s : s = Smallest(k, h, i)
    OBVIOUS
  <2>4. s # i
    BY <1>2, <2>1, <2>3, DownPair
  <2>5. i \in 1..n /\ s \in 2..n /\ i < s
    BY <2>2, <2>3, <2>4, SmallestIsLeast
  <2>6. PICK g : g = Swap(h, i, s)
    OBVIOUS
  <2>7. g \in Seq(Proc) /\ Len(g) = n /\ s \in Nat \ {0}
    BY <2>2, <2>5, <2>6, SwapExchanges
  <2>8. DownNext(k)[m] = <<g, s>> /\ <<g, s>> \in Moving
    BY <2>1, <2>3, <2>6, <2>7, DownPair
  <2>9. DownMeasure[<<g, s>>] = IF s <= n THEN n - s ELSE 0
    BY <2>7, DownPair
  <2>10. DownMeasure[m] = IF i <= n THEN n - i ELSE 0
    BY <2>1, <2>2, DownPair
  <2> QED BY <2>5, <2>8, <2>9, <2>10
<1> QED BY <1>1, <1>2 DEF Falls

LEMMA DownIsLoop ==
  ASSUME NEW k \in [Proc -> Int]
  PROVE  Loop(heapify_down(k), Moving, DownStop(k), DownNext(k), TheArray)
<1> DEFINE Body(f) == [m \in Moving |->
             IF Smallest(k, m[1], m[2]) # m[2]
             THEN f[<<Swap(m[1], m[2], Smallest(k, m[1], m[2])), Smallest(k, m[1], m[2])>>]
             ELSE m[1]]
<1>1. heapify_down(k) = CHOOSE f : f = Body(f)
  BY DEF heapify_down
<1>2. ASSUME NEW f PROVE Loop(f, Moving, DownStop(k), DownNext(k), TheArray) <=> f = Body(f)
  <2>1. \A m \in Moving : (IF m \in DownStop(k) THEN TheArray[m] ELSE f[DownNext(k)[m]])
          = IF Smallest(k, m[1], m[2]) # m[2]
            THEN f[<<Swap(m[1], m[2], Smallest(k, m[1], m[2])), Smallest(k, m[1], m[2])>>]
            ELSE m[1]
    BY DEF DownStop, DownNext, TheArray, DownPlace
  <2>2. [m \in Moving |-> IF m \in DownStop(k) THEN TheArray[m] ELSE f[DownNext(k)[m]]] = Body(f)
    BY <2>1
  <2> HIDE DEF Body
  <2> QED BY <2>2 DEF Loop
<1>3. PICK g : Loop(g, Moving, DownStop(k), DownNext(k), TheArray)
  BY DownFalls, LoopExists
<1> HIDE DEF Body
<1>4. g = Body(g)
  BY <1>2, <1>3
<1>5. heapify_down(k) = Body(heapify_down(k))
  BY <1>1, <1>4
<1> QED BY <1>2, <1>5

\* A process on its way down through the n processes of a.
Sunk(k, a, n) ==
  {m \in Moving : /\ Rearranged(m[1], a, n) /\ m[2] \in 1..n
                  /\ OrderedButDown(KeysOf(k, m[1], n), n, m[2])}

LEMMA SunkPair ==
  ASSUME NEW k, NEW a, NEW n, NEW h \in Seq(Proc), NEW i \in Nat \ {0}
  PROVE  <<h, i>> \in Sunk(k, a, n)
           <=> Rearranged(h, a, n) /\ i \in 1..n /\ OrderedButDown(KeysOf(k, h, n), n, i)
<1>1. PICK m \in Moving : m = <<h, i>>
  BY DEF Moving
<1>2. m[1] = h /\ m[2] = i
  BY <1>1
<1> QED BY <1>1, <1>2 DEF Sunk

LEMMA DownKeeps ==
  ASSUME NEW k \in [Proc -> Int], NEW a, NEW n
  PROVE  Sunk(k, a, n) \subseteq Moving /\ Closed(Sunk(k, a, n), DownStop(k), DownNext(k))
<1>1. SUFFICES ASSUME NEW m \in Sunk(k, a, n), m \notin DownStop(k)
               PROVE  DownNext(k)[m] \in Sunk(k, a, n)
  BY DEF Sunk, Closed
<1>2. PICK h \in Seq(Proc), i \in Nat \ {0} :
        m = <<h, i>> /\ Rearranged(h, a, n) /\ i \in 1..n /\ OrderedButDown(KeysOf(k, h, n), n, i)
  BY DEF Sunk, Moving
<1>3. n = Len(h) /\ n \in Nat
  BY <1>2 DEF Rearranged
<1>4. PICK s : s = Smallest(k, h, i)
  OBVIOUS
<1>5. s # i
  BY <1>1, <1>2, <1>4, DownPair
<1>6. /\ s \in 2..n /\ s \div 2 = i /\ i < s /\ k[h[s]] < k[h[i]]
      /\ \A x \in 2..n : x \div 2 = i => k[h[s]] <= k[h[x]]
  <2>1. s \in 2..n /\ s \div 2 = i /\ i < s /\ k[h[s]] < k[h[i]]
    BY <1>3, <1>4, <1>5, SmallestIsLeast
  <2>2. \A x \in 2..n : x \div 2 = i => k[h[s]] <= k[h[x]]
    BY <1>2, <1>3, <1>4, SmallestIsLeast
  <2> QED BY <2>1, <2>2
<1>7. PICK g : g = Swap(h, i, s)
  OBVIOUS
<1>8. /\ g \in Seq(Proc) /\ Len(g) = n /\ Rearranged(g, a, n)
      /\ Exchanged(KeysOf(k, h, n), KeysOf(k, g, n), n, i, s)
  <2>1. s \in 1..n /\ i # s
    BY <1>3, <1>6
  <2>2. /\ g \in Seq(Proc) /\ Len(g) = n
        /\ Exchanged(KeysOf(k, h, n), KeysOf(k, g, n), n, i, s)
    BY <1>2, <1>3, <1>7, <2>1, SwapExchanges
  <2>3. Rearranged(g, a, n)
    BY <1>2, <1>3, <1>7, <2>1, SwapRearranges
  <2> QED BY <2>2, <2>3
<1>9. OrderedButDown(KeysOf(k, g, n), n, s)
  <2>1. PICK v, w : v = KeysOf(k, h, n) /\ w = KeysOf(k, g, n)
    OBVIOUS
  <2>2. \A x \in 1..n : v[x] = k[h[x]] /\ v[x] \in Int
    <3>1. n = Len(h)
      BY <1>3
    <3>2. \A x \in 1..n : KeysOf(k, h, n)[x] = k[h[x]] /\ KeysOf(k, h, n)[x] \in Int
      BY <3>1, KeysAreInts
    <3> QED BY <2>1, <3>2
  <2>3. v[s] < v[i] /\ \A x \in 2..n : x \div 2 = i => v[s] <= v[x]
    BY <1>2, <1>3, <1>6, <2>2
  <2>4. OrderedButDown(w, n, s)
    BY <1>2, <1>3, <1>6, <1>8, <2>1, <2>2, <2>3, StepDown
  <2> QED BY <2>1, <2>4
<1>10. DownNext(k)[m] = <<g, s>>
  <2>1. DownNext(k)[<<h, i>>] = <<Swap(h, i, s), s>>
    BY <1>4, DownPair
  <2> QED BY <1>2, <1>7, <2>1
<1>11. s \in Nat \ {0} /\ s \in 1..n
  BY <1>3, <1>6
<1> QED BY <1>8, <1>9, <1>10, <1>11, SunkPair

(***************************************************************************)
(* heapify_down puts an array in order in which only one process may have  *)
(* to go down, and neither loses nor doubles a process.                    *)
(***************************************************************************)
LEMMA HeapifyDown ==
  ASSUME NEW k \in [Proc -> Int], NEW h \in Seq(Proc), NEW n, n = Len(h), NEW i \in 1..n,
         OrderedButDown(KeysOf(k, h, n), n, i),
         NEW g, g = heapify_down(k)[<<h, i>>]
  PROVE  Rearranged(g, h, n) /\ Ordered(KeysOf(k, g, n), n)
<1>1. n \in Nat /\ <<h, i>> \in Sunk(k, h, n)
  <2>1. n \in Nat /\ Rearranged(h, h, n)
    BY DEF Rearranged
  <2> QED BY <2>1, SunkPair
<1>2. PICK m \in Sunk(k, h, n) : m \in DownStop(k) /\ g = TheArray[m]
  <2>1. PICK f : f = heapify_down(k)
    OBVIOUS
  <2>2. PICK I : I = Sunk(k, h, n)
    OBVIOUS
  <2>3. I \subseteq Moving /\ Closed(I, DownStop(k), DownNext(k))
    BY <2>2, DownKeeps
  <2>4. Falls(DownMeasure, Moving, DownStop(k), DownNext(k))
    BY DownFalls
  <2>5. Loop(f, Moving, DownStop(k), DownNext(k), TheArray)
    BY <2>1, DownIsLoop
  <2>6. \A x \in I : \E y \in I : y \in DownStop(k) /\ f[x] = TheArray[y]
    BY <2>3, <2>4, <2>5, LoopEnds
  <2> QED BY <1>1, <2>1, <2>2, <2>6
<1>3. PICK j \in 1..n : /\ m = <<g, j>> /\ Rearranged(g, h, n)
                        /\ OrderedButDown(KeysOf(k, g, n), n, j) /\ Smallest(k, g, j) = j
  <2>1. PICK b \in Seq(Proc), j \in Nat \ {0} : m = <<b, j>>
    BY DEF Sunk, Moving
  <2>2. g = b /\ Smallest(k, b, j) = j
    BY <1>2, <2>1, DownPair
  <2>3. Rearranged(b, h, n) /\ j \in 1..n /\ OrderedButDown(KeysOf(k, b, n), n, j)
    BY <2>1, SunkPair
  <2> QED BY <2>1, <2>2, <2>3
<1>4. g \in Seq(Proc) /\ Len(g) = n
  BY <1>3 DEF Rearranged
<1>5. \A x \in 2..n : x \div 2 = j => KeysOf(k, g, n)[j] <= KeysOf(k, g, n)[x]
  <2>1. \A x \in 2..n : x \div 2 = j => k[g[j]] <= k[g[x]]
    <3>1. j \in Nat \ {0}
      BY <1>1
    <3> QED BY <1>3, <1>4, <3>1, SmallestIsLeast
  <2>2. \A x \in 1..n : KeysOf(k, g, n)[x] = k[g[x]]
    BY DEF KeysOf
  <2> TAKE x \in 2..n
  <2> HAVE x \div 2 = j
  <2>3. x \in 1..n
    BY <1>1
  <2>4. KeysOf(k, g, n)[x] = k[g[x]] /\ KeysOf(k, g, n)[j] = k[g[j]]
    BY <2>2, <2>3
  <2>5. k[g[j]] <= k[g[x]]
    BY <2>1
  <2> QED BY <2>4, <2>5
<1>6. Ordered(KeysOf(k, g, n), n)
  BY <1>1, <1>3, <1>5, DownEnds
<1> QED BY <1>3, <1>6
--------------------------------------------------------------------------------
(***************************************************************************)
(* What the operations of either heap do to the array before they sift.    *)
(***************************************************************************)
\* The array a is h with a new process in the place n, behind m = n - 1 others.
Added(a, n, h, m, p) ==
  /\ n \in Nat \ {0} /\ m = n - 1
  /\ a[n] = p /\ \A x \in 1..m : a[x] = h[x] /\ h[x] # p

LEMMA AddedLast ==
  ASSUME NEW n, NEW m, NEW a, NEW p, NEW h, Added(a, n, h, m, p)
  PROVE  /\ Held(a, n) = Held(h, m) \cup {p}
         /\ OnceEach(h, m) => OnceEach(a, n)
<1>1. /\ n \in Nat \ {0} /\ m = n - 1 /\ a[n] = p
      /\ \A x \in 1..m : a[x] = h[x] /\ h[x] # p
  BY DEF Added
<1>2. /\ \A x \in 1..n : x = n \/ x \in 1..m
      /\ n \in 1..n /\ \A x \in 1..m : x \in 1..n
  BY <1>1
<1>3. Held(a, n) = Held(h, m) \cup {p}
  <2>1. \A x \in 1..n : a[x] \in Held(h, m) \cup {p}
    BY <1>1, <1>2 DEF Held
  <2>2. \A x \in 1..m : h[x] \in Held(a, n)
    BY <1>1, <1>2 DEF Held
  <2>3. p \in Held(a, n)
    BY <1>1, <1>2 DEF Held
  <2> QED BY <2>1, <2>2, <2>3 DEF Held
<1>4. OnceEach(h, m) => OnceEach(a, n)
  BY <1>1, <1>2 DEF OnceEach
<1> QED BY <1>3, <1>4

\* Only the new process may have to go up.
LEMMA AddedMayRise ==
  ASSUME NEW n \in Nat \ {0}, NEW k, NEW h, Ordered(KeysOf(k, h, n - 1), n - 1),
         NEW k2, NEW a, \A x \in 1..(n - 1) : k2[a[x]] = k[h[x]]
  PROVE  OrderedButUp(KeysOf(k2, a, n), n, n)
<1>1. PICK v, w : v = KeysOf(k, h, n - 1) /\ w = KeysOf(k2, a, n)
  OBVIOUS
<1>2. \A x \in 1..(n - 1) : w[x] = v[x]
  BY <1>1 DEF KeysOf
<1>3. Ordered(v, n - 1)
  BY <1>1
<1>4. ASSUME NEW x \in 2..n, x # n PROVE w[x \div 2] <= w[x]
  <2>1. x \in 2..(n - 1) /\ x \in 1..(n - 1)
    BY <1>4
  <2>2. x \div 2 \in 1..(n - 1)
    BY <2>1, Halves
  <2>3. v[x \div 2] <= v[x]
    BY <1>3, <2>1 DEF Ordered
  <2> QED BY <1>2, <2>1, <2>2, <2>3
<1>5. \A x \in 2..n : x \div 2 # n
  BY Halves
<1> QED BY <1>1, <1>4, <1>5 DEF OrderedButUp, Bridged

\* The last process, in the place n, goes to the root.
LEMMA LastToRoot ==
  ASSUME NEW n \in Nat \ {0}, NEW h, OnceEach(h, n), NEW b,
         \A x \in 1..(n - 1) : b[x] = IF x = 1 THEN h[n] ELSE h[x]
  PROVE  /\ Held(b, n - 1) = Held(h, n) \ {h[1]}
         /\ OnceEach(b, n - 1)
<1>1. 1 \in 1..n /\ n \in 1..n /\ \A x \in 1..(n - 1) : x \in 1..n /\ x # n
  OBVIOUS
<1>2. Held(b, n - 1) = Held(h, n) \ {h[1]}
  <2>1. ASSUME NEW x \in 1..(n - 1) PROVE b[x] \in Held(h, n) \ {h[1]}
    <3>1. PICK y \in 1..n : b[x] = h[y] /\ y # 1
      <4>1. CASE x = 1
        BY <1>1, <2>1, <4>1
      <4>2. CASE x # 1
        BY <1>1, <2>1, <4>2
      <4> QED BY <4>1, <4>2
    <3>2. h[y] # h[1]
      BY <1>1, <3>1 DEF OnceEach
    <3> QED BY <3>1, <3>2 DEF Held
  <2>2. ASSUME NEW y \in 1..n, y # 1 PROVE h[y] \in Held(b, n - 1)
    <3>1. PICK x \in 1..(n - 1) : b[x] = h[y]
      <4>1. CASE y = n
        <5>1. 1 \in 1..(n - 1)
          BY <2>2, <4>1
        <5> QED BY <4>1, <5>1
      <4>2. CASE y # n
        <5>1. y \in 1..(n - 1)
          BY <4>2
        <5> QED BY <2>2, <5>1
      <4> QED BY <4>1, <4>2
    <3> QED BY <3>1 DEF Held
  <2>3. Held(b, n - 1) \subseteq Held(h, n) \ {h[1]}
    BY <2>1 DEF Held
  <2>4. Held(h, n) \ {h[1]} \subseteq Held(b, n - 1)
    <3> SUFFICES ASSUME NEW q \in Held(h, n), q # h[1] PROVE q \in Held(b, n - 1)
      OBVIOUS
    <3>1. PICK y \in 1..n : q = h[y]
      BY DEF Held
    <3> QED BY <2>2, <3>1
  <2> QED BY <2>3, <2>4
<1>3. OnceEach(b, n - 1)
  <2> SUFFICES ASSUME NEW x \in 1..(n - 1), NEW y \in 1..(n - 1), b[x] = b[y] PROVE x = y
    BY DEF OnceEach
  <2>1. x \in 1..n /\ y \in 1..n /\ x # n /\ y # n
    BY <1>1
  <2>2. \A i, j \in 1..n : h[i] = h[j] => i = j
    BY DEF OnceEach
  <2> QED BY <1>1, <2>1, <2>2
<1> QED BY <1>2, <1>3

\* Only the process at the root may have to go down.
LEMMA RootMaySink ==
  ASSUME NEW n \in Nat \ {0}, NEW k, NEW h, Ordered(KeysOf(k, h, n), n), NEW b,
         \A x \in 1..(n - 1) : b[x] = IF x = 1 THEN h[n] ELSE h[x]
  PROVE  OrderedButDown(KeysOf(k, b, n - 1), n - 1, 1)
<1>1. PICK w : w = KeysOf(k, b, n - 1)
  OBVIOUS
<1>2. ASSUME NEW x \in 2..(n - 1), x \div 2 # 1 PROVE w[x \div 2] <= w[x]
  <2>1. PICK y \in 1..(n - 1) : y = x \div 2 /\ y # 1 /\ x # 1 /\ x \in 1..(n - 1)
    BY <1>2, Halves
  <2>2. w[x] = k[h[x]] /\ w[y] = k[h[y]]
    BY <1>1, <2>1 DEF KeysOf
  <2>3. KeysOf(k, h, n)[x \div 2] <= KeysOf(k, h, n)[x]
    <3>1. x \in 2..n
      OBVIOUS
    <3> QED BY <3>1 DEF Ordered
  <2>4. KeysOf(k, h, n)[x] = k[h[x]] /\ KeysOf(k, h, n)[y] = k[h[y]]
    BY <2>1 DEF KeysOf
  <2> QED BY <2>1, <2>2, <2>3, <2>4
<1> QED BY <1>1, <1>2 DEF OrderedButDown, Bridged

\* The process at the root goes before all others.
LEMMA FirstIsLeast ==
  ASSUME NEW n \in Nat, NEW k, NEW h, \A x \in 1..n : k[h[x]] \in Int,
         Ordered(KeysOf(k, h, n), n)
  PROVE  \A x \in 1..n : k[h[1]] <= k[h[x]]
<1>1. PICK v : v = KeysOf(k, h, n)
  OBVIOUS
<1>2. \A x \in 1..n : v[x] = k[h[x]] /\ v[x] \in Int
  BY <1>1 DEF KeysOf
<1>3. \A x \in 1..n : v[1] <= v[x]
  BY <1>1, <1>2, RootIsLeast
<1> TAKE x \in 1..n
<1>4. 1 \in 1..n
  OBVIOUS
<1> QED BY <1>2, <1>3, <1>4
--------------------------------------------------------------------------------
(***************************************************************************)
(* The operations of the heap.                                             *)
(***************************************************************************)
LEMMA Readings ==
  ASSUME NEW k \in [Proc -> Int], NEW h \in Seq(Proc), NEW n, n = Len(h)
  PROVE  /\ Range(h) = Held(h, n)
         /\ IsInjective(h) <=> OnceEach(h, n)
         /\ (\A i \in 2..Len(h) : ~Less(k, h[i], h[parent(i)])) <=> Ordered(KeysOf(k, h, n), n)
<1>1. n \in Nat /\ DOMAIN h = 1..n
  OBVIOUS
<1>2. Range(h) = Held(h, n)
  BY <1>1 DEF Range, Held
<1>3. IsInjective(h) <=> OnceEach(h, n)
  BY <1>1 DEF IsInjective, OnceEach
<1>4. ASSUME NEW i \in 2..n
      PROVE  ~Less(k, h[i], h[parent(i)]) <=> KeysOf(k, h, n)[i \div 2] <= KeysOf(k, h, n)[i]
  <2>1. PICK x \in 1..n : x = i \div 2 /\ x = parent(i)
    BY <1>1, Halves DEF parent
  <2>2. /\ KeysOf(k, h, n)[i] = k[h[i]] /\ k[h[i]] \in Int
        /\ KeysOf(k, h, n)[x] = k[h[x]] /\ k[h[x]] \in Int
    BY <1>1, KeysAreInts
  <2> QED BY <2>1, <2>2 DEF Less
<1>5. (\A i \in 2..n : ~Less(k, h[i], h[parent(i)])) <=> Ordered(KeysOf(k, h, n), n)
  BY <1>4 DEF Ordered
<1> QED BY <1>2, <1>3, <1>5

LEMMA OrderedIsButDown ==
  ASSUME NEW n \in Nat, NEW v, \A x \in 1..n : v[x] \in Int, Ordered(v, n), NEW i \in 1..n
  PROVE  OrderedButDown(v, n, i)
  BY OrderedIsBridged DEF OrderedButDown, Ordered

\* A heap: no process twice, and in order.
Sound(k, h) == h \in Seq(Proc) /\ OnceEach(h, Len(h)) /\ Ordered(KeysOf(k, h, Len(h)), Len(h))

LEMMA RearrangedIsSound ==
  ASSUME NEW k, NEW h \in Seq(Proc), OnceEach(h, Len(h)), NEW g, Rearranged(g, h, Len(h)),
         Ordered(KeysOf(k, g, Len(h)), Len(h))
  PROVE  Sound(k, g) /\ Len(g) = Len(h) /\ Held(g, Len(g)) = Held(h, Len(h))
  BY DEF Sound, Rearranged

Inserted(k, h, p) == heapify_up(k)[<<Append(h, p), Len(h) + 1>>]

LEMMA InsertedIsSound ==
  ASSUME NEW k \in [Proc -> Int], NEW k2 \in [Proc -> Int], NEW p \in Proc,
         \A q \in Proc \ {p} : k2[q] = k[q],
         NEW h, Sound(k, h), p \notin Held(h, Len(h)),
         NEW g, g = Inserted(k2, h, p)
  PROVE  Sound(k2, g) /\ Len(g) = Len(h) + 1 /\ Held(g, Len(g)) = Held(h, Len(h)) \cup {p}
<1>1. PICK n \in Nat \ {0} : n = Len(h) + 1
  BY DEF Sound
<1>2. PICK a : a = Append(h, p)
  OBVIOUS
<1>3. /\ h \in Seq(Proc) /\ Len(h) = n - 1 /\ a \in Seq(Proc) /\ Len(a) = n
      /\ a[n] = p /\ \A x \in 1..(n - 1) : a[x] = h[x] /\ h[x] # p
  <2>1. h \in Seq(Proc) /\ Len(h) = n - 1
    BY <1>1 DEF Sound
  <2>2. a \in Seq(Proc) /\ Len(a) = n /\ a[n] = p /\ \A x \in 1..(n - 1) : a[x] = h[x]
    BY <1>1, <1>2, <2>1
  <2>3. \A x \in 1..(n - 1) : h[x] # p
    BY <2>1 DEF Held
  <2> QED BY <2>1, <2>2, <2>3
<1>4. OnceEach(h, n - 1) /\ Ordered(KeysOf(k, h, n - 1), n - 1)
  BY <1>3 DEF Sound
<1>5. Held(a, n) = Held(h, n - 1) \cup {p} /\ OnceEach(a, n)
  <2>1. PICK m : m = n - 1
    OBVIOUS
  <2>2. Added(a, n, h, m, p)
    BY <1>1, <1>3, <2>1 DEF Added
  <2>3. Held(a, n) = Held(h, m) \cup {p} /\ (OnceEach(h, m) => OnceEach(a, n))
    BY <2>2, AddedLast
  <2> QED BY <1>4, <2>1, <2>3
<1>6. \A x \in 1..(n - 1) : k2[a[x]] = k[h[x]]
  <2> TAKE x \in 1..(n - 1)
  <2>1. h[x] \in Proc
    BY <1>3
  <2> QED BY <1>3, <2>1
<1>7. OrderedButUp(KeysOf(k2, a, n), n, n)
  BY <1>4, <1>6, AddedMayRise
<1>8. Rearranged(g, a, n) /\ Ordered(KeysOf(k2, g, n), n)
  <2>1. n \in 1..n /\ g = heapify_up(k2)[<<a, n>>]
    BY <1>1, <1>2 DEF Inserted
  <2> QED BY <1>3, <1>7, <2>1, HeapifyUp
<1>9. Sound(k2, g) /\ Len(g) = n /\ Held(g, n) = Held(a, n)
  BY <1>3, <1>5, <1>8, RearrangedIsSound
<1> QED BY <1>1, <1>3, <1>5, <1>9

LEMMA ReorderedIsSound ==
  ASSUME NEW k \in [Proc -> Int], NEW k2 \in [Proc -> Int], NEW p \in Proc,
         \A q \in Proc \ {p} : k2[q] = k[q],
         NEW h, Sound(k, h), NEW i \in 1..Len(h), h[i] = p,
         NEW g, g = Reordered(k2, h, i)
  PROVE  Sound(k2, g) /\ Len(g) = Len(h) /\ Held(g, Len(g)) = Held(h, Len(h))
<1>1. PICK n : n = Len(h)
  OBVIOUS
<1>2. h \in Seq(Proc) /\ n \in Nat /\ OnceEach(h, n) /\ i \in 1..n
  BY <1>1 DEF Sound
<1>3. PICK v, w : v = KeysOf(k, h, n) /\ w = KeysOf(k2, h, n)
  OBVIOUS
<1>4. \A x \in 1..n : v[x] \in Int /\ v[x] = k[h[x]] /\ w[x] \in Int /\ w[x] = k2[h[x]]
  <2>1. \A x \in 1..n : v[x] \in Int /\ v[x] = k[h[x]]
    <3>1. \A x \in 1..n : KeysOf(k, h, n)[x] = k[h[x]] /\ KeysOf(k, h, n)[x] \in Int
      <4>1. \A x \in 1..n : k[h[x]] \in Int
        BY <1>1, <1>2, PlacesHoldProcesses
      <4> QED BY <4>1 DEF KeysOf
    <3> QED BY <1>3, <3>1
  <2>2. \A x \in 1..n : w[x] \in Int /\ w[x] = k2[h[x]]
    <3>1. \A x \in 1..n : KeysOf(k2, h, n)[x] = k2[h[x]] /\ KeysOf(k2, h, n)[x] \in Int
      <4>1. \A x \in 1..n : k2[h[x]] \in Int
        BY <1>1, <1>2, PlacesHoldProcesses
      <4> QED BY <4>1 DEF KeysOf
    <3> QED BY <1>3, <3>1
  <2> QED BY <2>1, <2>2
<1>5. Ordered(v, n) /\ \A x \in 1..n : x # i => w[x] = v[x]
  <2>1. Ordered(v, n)
    BY <1>1, <1>3 DEF Sound
  <2>2. ASSUME NEW x \in 1..n, x # i PROVE h[x] \in Proc \ {p}
    BY <1>1, <1>2, <2>2 DEF OnceEach
  <2> QED BY <1>4, <2>1, <2>2
<1>6. PICK u : u = heapify_up(k2)[<<h, i>>]
  OBVIOUS
<1>7. g = heapify_down(k2)[<<u, i>>]
  BY <1>6 DEF Reordered
<1>8. Rises(k2, h, i) <=> i >= 2 /\ w[i] < w[i \div 2]
  <2>1. ASSUME i >= 2 PROVE i \div 2 \in 1..n
    <3>1. i \in Nat \ {0, 1}
      BY <1>2, <2>1
    <3> QED BY <1>2, <3>1, Halves
  <2> QED BY <1>1, <1>2, <1>4, <2>1 DEF Rises, Less, parent
<1>9. Rearranged(u, h, n) /\ OrderedButDown(KeysOf(k2, u, n), n, i)
  <2>1. CASE Rises(k2, h, i)
    <3>1. OrderedButUp(w, n, i)
      BY <1>2, <1>4, <1>5, <1>8, <2>1, OneChanges
    <3>2. Rearranged(u, h, n) /\ Ordered(KeysOf(k2, u, n), n)
      BY <1>1, <1>2, <1>3, <1>6, <3>1, HeapifyUp
    <3>3. u \in Seq(Proc) /\ Len(u) = n
      BY <3>2 DEF Rearranged
    <3>4. \A x \in 1..n : KeysOf(k2, u, n)[x] \in Int
      BY <3>3, KeysAreInts
    <3> QED BY <1>2, <3>2, <3>4, OrderedIsButDown
  <2>2. CASE ~Rises(k2, h, i)
    <3>1. u = h
      BY <1>1, <1>2, <1>6, <2>2, StaysUp
    <3>2. i >= 2 => w[i \div 2] <= w[i]
      <4> HAVE i >= 2
      <4>1. i \in Nat \ {0, 1}
        BY <1>2
      <4>2. i \div 2 \in 1..n
        BY <1>2, <4>1, Halves
      <4> QED BY <1>2, <1>4, <1>8, <2>2, <4>2
    <3>3. OrderedButDown(w, n, i)
      BY <1>2, <1>4, <1>5, <3>2, OneChanges
    <3> QED BY <1>1, <1>2, <1>3, <3>1, <3>3 DEF Rearranged
  <2> QED BY <2>1, <2>2
<1>10. u \in Seq(Proc) /\ Len(u) = n /\ Held(u, n) = Held(h, n) /\ OnceEach(u, n)
  BY <1>2, <1>9 DEF Rearranged
<1>11. Rearranged(g, u, n) /\ Ordered(KeysOf(k2, g, n), n)
  BY <1>2, <1>7, <1>9, <1>10, HeapifyDown
<1>12. Sound(k2, g) /\ Len(g) = n /\ Held(g, n) = Held(u, n)
  BY <1>10, <1>11, RearrangedIsSound
<1> QED BY <1>1, <1>10, <1>12

\* The last process in the place of the first.
Shortened(h) == Front([h EXCEPT ![1] = Last(h)])

LEMMA ShortenedArray ==
  ASSUME NEW h \in Seq(Proc), NEW n \in Nat \ {0}, n = Len(h),
         NEW b, b = Shortened(h)
  PROVE  /\ b \in Seq(Proc) /\ Len(b) = n - 1
         /\ \A x \in 1..(n - 1) : b[x] = IF x = 1 THEN h[n] ELSE h[x]
<1>1. PICK c : c = [h EXCEPT ![1] = Last(h)]
  OBVIOUS
<1>2. c = [x \in 1..n |-> IF x = 1 THEN h[n] ELSE h[x]]
  <2>1. h \in [1..n -> Proc]
    OBVIOUS
  <2>2. Last(h) = h[n]
    BY DEF Last
  <2>3. c = [h EXCEPT ![1] = h[n]]
    BY <1>1, <2>2
  <2> HIDE DEF Last
  <2> QED BY <2>1, <2>3
<1>3. \A x \in 1..n : c[x] \in Proc
  <2>1. \A x \in 1..n : h[x] \in Proc
    BY PlacesHoldProcesses
  <2> QED BY <1>2, <2>1
<1>4. c \in Seq(Proc) /\ Len(c) = n
  BY <1>2, <1>3
<1>5. b = SubSeq(c, 1, n - 1)
  BY <1>1, <1>4 DEF Front, Shortened
<1>6. b \in Seq(Proc) /\ Len(b) = n - 1 /\ \A x \in 1..(n - 1) : b[x] = c[x]
  <2>1. n - 1 \in Nat /\ n - 1 <= Len(c)
    BY <1>4
  <2>2. SubSeq(c, 1, n - 1) \in Seq(Proc)
    BY <1>4, <2>1
  <2>3. Len(SubSeq(c, 1, n - 1)) = n - 1
    BY <1>4, <2>1
  <2>4. \A x \in 1..(n - 1) : SubSeq(c, 1, n - 1)[x] = c[x]
    BY <1>4, <2>1
  <2> QED BY <1>5, <2>2, <2>3, <2>4
<1>7. \A x \in 1..(n - 1) : b[x] = IF x = 1 THEN h[n] ELSE h[x]
  <2>1. \A x \in 1..(n - 1) : x \in 1..n
    OBVIOUS
  <2> QED BY <1>2, <1>6, <2>1
<1> QED BY <1>6, <1>7

LEMMA ExtractedIsSound ==
  ASSUME NEW k \in [Proc -> Int], NEW h, Sound(k, h), h # << >>,
         NEW g, g = Sifted(k, Shortened(h))
  PROVE  /\ Sound(k, g) /\ Len(g) = Len(h) - 1
         /\ Held(g, Len(g)) = Held(h, Len(h)) \ {Head(h)}
         /\ Head(h) \in Held(h, Len(h)) /\ Held(h, Len(h)) \subseteq Proc
         /\ \A q \in Held(h, Len(h)) : k[Head(h)] <= k[q]
<1>1. PICK n \in Nat \ {0} : n = Len(h)
  BY DEF Sound
<1>2. /\ h \in Seq(Proc) /\ OnceEach(h, n) /\ Head(h) = h[1] /\ 1 \in 1..n /\ n \in 1..n
      /\ \A x \in 1..n : h[x] \in Proc
  BY <1>1, PlacesHoldProcesses DEF Sound
<1>3. \A x \in 1..n : k[h[1]] <= k[h[x]]
  <2>1. \A x \in 1..n : k[h[x]] \in Int
    BY <1>2
  <2>2. Ordered(KeysOf(k, h, n), n)
    BY <1>1 DEF Sound
  <2> QED BY <2>1, <2>2, FirstIsLeast
<1>4. PICK b : b = Shortened(h)
  OBVIOUS
<1>5. /\ b \in Seq(Proc) /\ Len(b) = n - 1
      /\ \A x \in 1..(n - 1) : b[x] = IF x = 1 THEN h[n] ELSE h[x]
  <2>1. h \in Seq(Proc)
    BY <1>2
  <2> QED BY <1>1, <1>4, <2>1, ShortenedArray
<1>6. Held(b, n - 1) = Held(h, n) \ {h[1]}
  BY <1>2, <1>5, LastToRoot
<1>7. OnceEach(b, n - 1)
  BY <1>2, <1>5, LastToRoot
<1>8. CASE n = 1
  <2>1. b = << >> /\ g = b
    BY <1>4, <1>5, <1>8 DEF Sifted
  <2>2. Ordered(KeysOf(k, g, 0), 0)
    BY DEF Ordered
  <2>3. Sound(k, g) /\ Len(g) = n - 1
    BY <1>5, <1>7, <1>8, <2>1, <2>2 DEF Sound
  <2>4. Held(g, n - 1) = Held(h, n) \ {h[1]}
    BY <1>6, <2>1
  <2>5. \A q \in Held(h, n) : q \in Proc /\ k[h[1]] <= k[q]
    BY <1>2, <1>3 DEF Held
  <2>6. h[1] \in Held(h, n)
    BY <1>2 DEF Held
  <2> QED BY <1>1, <1>2, <2>3, <2>4, <2>5, <2>6
<1>9. CASE n # 1
  <2>1. Ordered(KeysOf(k, h, n), n)
    BY <1>1 DEF Sound
  <2>2. OrderedButDown(KeysOf(k, b, n - 1), n - 1, 1)
    BY <1>5, <2>1, RootMaySink
  <2>3. 1 \in 1..(n - 1) /\ b # << >> /\ n - 1 \in Nat
    BY <1>5, <1>9
  <2>4. g = heapify_down(k)[<<b, 1>>]
    BY <1>4, <2>3 DEF Sifted
  <2>5. Rearranged(g, b, n - 1) /\ Ordered(KeysOf(k, g, n - 1), n - 1)
    BY <1>5, <2>2, <2>3, <2>4, HeapifyDown
  <2>6. Sound(k, g) /\ Len(g) = n - 1 /\ Held(g, n - 1) = Held(b, n - 1)
    BY <1>5, <1>7, <2>5, RearrangedIsSound
  <2>7. \A q \in Held(h, n) : q \in Proc /\ k[h[1]] <= k[q]
    BY <1>2, <1>3 DEF Held
  <2>8. h[1] \in Held(h, n)
    BY <1>2 DEF Held
  <2> QED BY <1>1, <1>2, <1>6, <2>6, <2>7, <2>8
<1> QED BY <1>8, <1>9
--------------------------------------------------------------------------------
(***************************************************************************)
(* MinHeap implements ReadyHeap.                                           *)
(***************************************************************************)
HeapInv ==
  /\ Sound(key, processes)
  /\ Len(processes) <= Capacity
  /\ key \in [Proc -> Keys]
  /\ taken \in Proc \cup {None}

LEMMA HeapInvReads ==
  HeapInv => /\ HeapTypeOK /\ HeapOrdered /\ key \in [Proc -> Int]
         /\ Inside = Held(processes, Len(processes)) /\ Len(processes) \in Nat
<1> SUFFICES ASSUME HeapInv
             PROVE  /\ HeapTypeOK /\ HeapOrdered /\ key \in [Proc -> Int]
                    /\ Inside = Held(processes, Len(processes)) /\ Len(processes) \in Nat
  OBVIOUS
<1>1. key \in [Proc -> Int]
  BY KeysAssumption DEF HeapInv
<1>2. processes \in Seq(Proc) /\ Len(processes) \in Nat
  BY DEF HeapInv, Sound
<1>3. HeapOrdered
  BY <1>1, <1>2, Readings DEF HeapInv, Sound, HeapOrdered
<1>4. IsInjective(processes) /\ Inside = Held(processes, Len(processes))
  BY <1>1, <1>2, Readings DEF HeapInv, Sound, Inside
<1> QED BY <1>1, <1>2, <1>3, <1>4 DEF HeapInv, HeapTypeOK

LEMMA HeapInvInit == HeapInit => HeapInv /\ Ready!Init
<1> SUFFICES ASSUME HeapInit PROVE HeapInv /\ Ready!Init
  OBVIOUS
<1>1. processes \in Seq(Proc) /\ Len(processes) = 0 /\ 0 <= Capacity
  BY CapacityAssumption DEF HeapInit
<1>2. OnceEach(processes, 0) /\ Ordered(KeysOf(key, processes, 0), 0)
  BY DEF OnceEach, Ordered
<1>3. HeapInv
  BY <1>1, <1>2 DEF HeapInv, Sound, HeapInit
<1>4. Inside = {}
  BY DEF HeapInit, Inside, Range
<1> QED BY <1>3, <1>4 DEF HeapInit, Ready!Init

LEMMA HeapInvStep == HeapInv /\ [HeapNext]_heapVars => HeapInv' /\ [Ready!Next]_(Ready!vars)
<1> SUFFICES ASSUME HeapInv, [HeapNext]_heapVars PROVE HeapInv' /\ [Ready!Next]_(Ready!vars)
  OBVIOUS
<1>1. /\ key \in [Proc -> Int] /\ Inside = Held(processes, Len(processes))
      /\ Len(processes) \in Nat /\ Sound(key, processes) /\ processes \in Seq(Proc)
  BY HeapInvReads DEF HeapInv, Sound
<1>2. ASSUME Sound(key', processes')
      PROVE  Inside' = Held(processes', Len(processes'))
  <2>1. PICK h : h = processes'
    OBVIOUS
  <2>2. h \in Seq(Proc)
    BY <1>2, <2>1 DEF Sound
  <2>3. Range(h) = Held(h, Len(h))
    BY <1>1, <2>2, Readings
  <2> QED BY <2>1, <2>3 DEF Inside
<1>3. ASSUME NEW p \in Proc, NEW k \in Keys, Insert(p, k) PROVE HeapInv' /\ Ready!Next
  <2>1. key' = [key EXCEPT ![p] = k] /\ taken' = None /\ p \notin Inside
    BY <1>3 DEF Insert
  <2>2. key' \in [Proc -> Keys] /\ key' \in [Proc -> Int] /\ \A q \in Proc \ {p} : key'[q] = key[q]
    BY <2>1, KeysAssumption DEF HeapInv
  <2>3. PICK k2 : /\ k2 = key' /\ k2 \in [Proc -> Int]
                  /\ \A q \in Proc \ {p} : k2[q] = key[q]
    BY <2>2
  <2>4. PICK g : g = processes' /\ g = Inserted(k2, processes, p)
    BY <1>3, <2>3 DEF Insert, Inserted
  <2>5. /\ Sound(k2, g) /\ Len(g) = Len(processes) + 1
        /\ Held(g, Len(g)) = Held(processes, Len(processes)) \cup {p}
    <3>1. Sound(key, processes) /\ p \notin Held(processes, Len(processes)) /\ key \in [Proc -> Int]
      BY <1>1, <2>1
    <3>2. k2 \in [Proc -> Int] /\ \A q \in Proc \ {p} : k2[q] = key[q]
      BY <2>3
    <3>3. g = Inserted(k2, processes, p)
      BY <2>4
    <3> QED BY <3>1, <3>2, <3>3, InsertedIsSound
  <2>6. Inside' = Inside \cup {p}
    BY <1>1, <1>2, <2>3, <2>4, <2>5
  <2>7. Len(processes') <= Capacity
    BY <1>1, <1>3, <2>4, <2>5, CapacityAssumption DEF Insert
  <2>8. Ready!Insert(p, k)
    BY <2>1, <2>6 DEF Ready!Insert
  <2> QED BY <2>1, <2>2, <2>3, <2>4, <2>5, <2>7, <2>8 DEF HeapInv, Ready!Next
<1>4. ASSUME NEW p \in Proc, NEW k \in Keys, Update(p, k) PROVE HeapInv' /\ Ready!Next
  <2>1. key' = [key EXCEPT ![p] = k] /\ taken' = None /\ p \in Inside
    BY <1>4 DEF Update
  <2>2. key' \in [Proc -> Keys] /\ key' \in [Proc -> Int] /\ \A q \in Proc \ {p} : key'[q] = key[q]
    BY <2>1, KeysAssumption DEF HeapInv
  <2>3. PICK i : i = PlaceOf(p)
    OBVIOUS
  <2>4. i \in 1..Len(processes) /\ processes[i] = p
    <3>1. \E x \in DOMAIN processes : processes[x] = p
      BY <2>1 DEF Inside, Range
    <3>2. i \in DOMAIN processes /\ processes[i] = p
      BY <2>3, <3>1 DEF PlaceOf
    <3> QED BY <1>1, <3>2
  <2>5. PICK k2 : /\ k2 = key' /\ k2 \in [Proc -> Int]
                  /\ \A q \in Proc \ {p} : k2[q] = key[q]
    BY <2>2
  <2>6. PICK g : g = processes' /\ g = Reordered(k2, processes, i)
    BY <1>4, <2>3, <2>5 DEF Update
  <2>7. /\ Sound(k2, g) /\ Len(g) = Len(processes)
        /\ Held(g, Len(g)) = Held(processes, Len(processes))
    <3>1. /\ Sound(key, processes) /\ key \in [Proc -> Int]
          /\ i \in 1..Len(processes) /\ processes[i] = p
      BY <1>1, <2>4
    <3>2. k2 \in [Proc -> Int] /\ \A q \in Proc \ {p} : k2[q] = key[q]
      BY <2>5
    <3>3. g = Reordered(k2, processes, i)
      BY <2>6
    <3> QED BY <3>1, <3>2, <3>3, ReorderedIsSound
  <2>8. Inside' = Inside
    BY <1>1, <1>2, <2>5, <2>6, <2>7
  <2>9. Ready!Update(p, k)
    BY <2>1, <2>8 DEF Ready!Update
  <2> QED BY <2>1, <2>2, <2>5, <2>6, <2>7, <2>9 DEF HeapInv, Ready!Next
<1>5. CASE ExtractMin
  <2>1. PICK g : g = processes' /\ g = Sifted(key, Shortened(processes))
    BY <1>5 DEF ExtractMin, Shortened
  <2>2. processes # << >> /\ taken' = Head(processes) /\ key' = key
    BY <1>5 DEF ExtractMin
  <2>3. /\ Sound(key, g) /\ Len(g) = Len(processes) - 1
        /\ Held(g, Len(g)) = Inside \ {Head(processes)}
        /\ Head(processes) \in Inside /\ Inside \subseteq Proc
        /\ \A q \in Inside : key[Head(processes)] <= key[q]
    BY <1>1, <2>1, <2>2, ExtractedIsSound
  <2>4. Inside' = Inside \ {Head(processes)}
    BY <1>2, <2>1, <2>2, <2>3
  <2>5. Ready!ExtractMin(Head(processes)) /\ Head(processes) \in Proc
    BY <2>2, <2>3, <2>4 DEF Ready!ExtractMin
  <2>6. Len(processes') <= Capacity
    BY <1>1, <2>1, <2>3, CapacityAssumption DEF HeapInv
  <2> QED BY <2>1, <2>2, <2>3, <2>5, <2>6 DEF HeapInv, Ready!Next
<1>6. CASE ExtractFails
  <2>1. Inside = {} /\ taken' = None /\ UNCHANGED <<processes, key>> /\ Inside' = Inside
    BY <1>6 DEF ExtractFails, Inside, Range
  <2> QED BY <2>1 DEF HeapInv, Ready!Next, Ready!ExtractFails
<1>7. CASE UNCHANGED heapVars
  BY <1>7 DEF heapVars, HeapInv, Ready!vars, Inside
<1> QED BY <1>3, <1>4, <1>5, <1>6, <1>7 DEF HeapNext, InsertFails

(***************************************************************************)
(* The array of the ready heap holds each process once and is not overrun, *)
(* after any sequence of insertions, extractions and updates.              *)
(***************************************************************************)
THEOREM HeapIsSound == HeapSpec => []HeapTypeOK
<1>1. HeapInv /\ [HeapNext]_heapVars => HeapInv'
  BY HeapInvStep
<1> QED BY <1>1, HeapInvInit, HeapInvReads, PTL DEF HeapSpec

(***************************************************************************)
(* No process of the ready heap goes before its parent: insertion at the   *)
(* end, extraction at the root and a new key at any place keep the order.  *)
(***************************************************************************)
THEOREM HeapStaysOrdered == HeapSpec => []HeapOrdered
<1>1. HeapInv /\ [HeapNext]_heapVars => HeapInv'
  BY HeapInvStep
<1> QED BY <1>1, HeapInvInit, HeapInvReads, PTL DEF HeapSpec

(***************************************************************************)
(* To its user the ready heap is a set that gives out a least process:     *)
(* sifting loses and doubles none, whatever the keys and however many.     *)
(***************************************************************************)
THEOREM HeapIsAReadySet == HeapSpec => ImplementsReadyHeap
<1>1. HeapInit => HeapInv /\ Ready!Init
  BY HeapInvInit
<1>2. HeapInv /\ [HeapNext]_heapVars => HeapInv' /\ [Ready!Next]_(Ready!vars)
  BY HeapInvStep
<1> QED BY <1>1, <1>2, PTL DEF HeapSpec, ImplementsReadyHeap, Ready!Spec
--------------------------------------------------------------------------------
(***************************************************************************)
(* The array of the arrival queue, of which the first n places are used.   *)
(***************************************************************************)
Arrays == Seq(Entry \cup {Blank})

\* The first n places of g hold the entries that those of a hold.
Resorted(g, a, n) ==
  /\ g \in Arrays /\ Len(g) = Len(a)
  /\ \A x \in 1..n : g[x] \in Entry
  /\ Held(g, n) = Held(a, n)
  /\ OnceEach(a, n) => OnceEach(g, n)

Filled(d, i, e) == [d EXCEPT ![i] = e]

LEMMA FilledArray ==
  ASSUME NEW d \in Arrays, NEW i, NEW e, e \in Entry \cup {Blank} \/ i \notin 1..Len(d),
         NEW g, g = Filled(d, i, e)
  PROVE  /\ g \in Arrays /\ Len(g) = Len(d)
         /\ \A x \in 1..Len(d) : g[x] = IF x = i THEN e ELSE d[x]
<1>1. PICK n \in Nat : n = Len(d) /\ d \in [1..n -> Entry \cup {Blank}]
  BY DEF Arrays
<1>2. g = [d EXCEPT ![i] = e]
  BY DEF Filled
<1>3. \A x \in 1..n : g[x] = IF x = i THEN e ELSE d[x]
  BY <1>1, <1>2
<1>4. g \in [1..n -> Entry \cup {Blank}]
  BY <1>1, <1>2
<1>5. g \in Seq(Entry \cup {Blank}) /\ Len(g) = n
  BY <1>4
<1> QED BY <1>1, <1>3, <1>5 DEF Arrays

LEMMA KeysExchange ==
  ASSUME NEW k, NEW d, NEW g, NEW n \in Nat, NEW i \in 1..n, NEW j \in 1..n,
         Exchanged(d, g, n, i, j)
  PROVE  Exchanged(KeysOf(k, d, n), KeysOf(k, g, n), n, i, j)
  BY DEF Exchanged, KeysOf

LEMMA ExchangeResorts ==
  ASSUME NEW d, NEW a, NEW n \in Nat, Resorted(d, a, n), NEW i \in 1..n, NEW j \in 1..n,
         NEW g \in Arrays, Len(g) = Len(d), Exchanged(d, g, n, i, j)
  PROVE  Resorted(g, a, n)
<1>1. Held(g, n) = Held(d, n) /\ (OnceEach(d, n) => OnceEach(g, n))
  BY ExchangeKeeps
<1>2. \A x \in 1..n : g[x] \in Held(g, n)
  BY DEF Held
<1>3. Held(d, n) \subseteq Entry
  BY DEF Resorted, Held
<1> QED BY <1>1, <1>2, <1>3 DEF Resorted

LEMMA EntriesHaveKeys ==
  ASSUME NEW k \in [Entry -> Int], NEW d, NEW n \in Nat, \A x \in 1..n : d[x] \in Entry
  PROVE  \A x \in 1..n : KeysOf(k, d, n)[x] = k[d[x]] /\ KeysOf(k, d, n)[x] \in Int
  BY DEF KeysOf

LEMMA PlacesSplit ==
  ASSUME NEW n, NEW m \in Places(n)
  PROVE  \E d \in Arrays, i \in Nat \ {0} : m = <<d, i>> /\ n <= Len(d)
  BY DEF Places, Arrays

LEMMA PlacesPair ==
  ASSUME NEW n, NEW d \in Arrays, n <= Len(d), NEW i \in Nat \ {0}
  PROVE  <<d, i>> \in Places(n)
  BY DEF Places, Arrays
--------------------------------------------------------------------------------
(***************************************************************************)
(* pq_push: the hole goes up.                                              *)
(***************************************************************************)
Goes(k, p, d, i) == i > 1 /\ Before(k, p, d[i \div 2])
Lowered(d, i) == Filled(d, i, d[i \div 2])

HoleFilled(p) == [m \in Places(0) |-> Filled(m[1], m[2], p)]
HoleNext == [m \in Places(0) |-> <<Lowered(m[1], m[2]), m[2] \div 2>>]
HoleStop(k, p) == {m \in Places(0) : ~Goes(k, p, m[1], m[2])}
HoleMeasure == [m \in Places(0) |-> m[2]]

LEMMA HolePair ==
  ASSUME NEW k, NEW p, NEW d \in Arrays, NEW i \in Nat \ {0}
  PROVE  /\ <<d, i>> \in Places(0)
         /\ HoleFilled(p)[<<d, i>>] = Filled(d, i, p)
         /\ HoleNext[<<d, i>>] = <<Lowered(d, i), i \div 2>>
         /\ <<d, i>> \in HoleStop(k, p) <=> ~Goes(k, p, d, i)
         /\ HoleMeasure[<<d, i>>] = i
<1>1. 0 <= Len(d)
  BY DEF Arrays
<1>2. PICK m \in Places(0) : m = <<d, i>>
  BY <1>1, PlacesPair
<1>3. m[1] = d /\ m[2] = i
  BY <1>2
<1>4. HoleFilled(p)[m] = Filled(d, i, p) /\ HoleNext[m] = <<Lowered(d, i), i \div 2>>
  BY <1>3 DEF HoleFilled, HoleNext
<1>5. (m \in HoleStop(k, p) <=> ~Goes(k, p, d, i)) /\ HoleMeasure[m] = i
  BY <1>3 DEF HoleStop, HoleMeasure
<1> QED BY <1>2, <1>4, <1>5

LEMMA LoweredArray ==
  ASSUME NEW d \in Arrays, NEW i \in Nat \ {0, 1}
  PROVE  /\ Lowered(d, i) \in Arrays /\ Len(Lowered(d, i)) = Len(d)
         /\ \A x \in 1..Len(d) : Lowered(d, i)[x] = IF x = i THEN d[i \div 2] ELSE d[x]
<1>1. d[i \div 2] \in Entry \cup {Blank} \/ i \notin 1..Len(d)
  <2>1. PICK h \in Nat \ {0} : h = i \div 2 /\ h < i
    BY Halves
  <2>2. i \in 1..Len(d) => h \in 1..Len(d)
    BY <2>1 DEF Arrays
  <2>3. h \in 1..Len(d) => d[h] \in Entry \cup {Blank}
    BY DEF Arrays
  <2> QED BY <2>1, <2>2, <2>3
<1>2. PICK e : e = d[i \div 2]
  OBVIOUS
<1>3. e \in Entry \cup {Blank} \/ i \notin 1..Len(d)
  BY <1>1, <1>2
<1>4. PICK g : g = Filled(d, i, e)
  OBVIOUS
<1>5. g \in Arrays /\ Len(g) = Len(d) /\ \A x \in 1..Len(d) : g[x] = IF x = i THEN e ELSE d[x]
  BY <1>3, <1>4, FilledArray
<1>6. g = Lowered(d, i)
  BY <1>2, <1>4 DEF Lowered
<1> QED BY <1>2, <1>5, <1>6

LEMMA HoleFalls ==
  ASSUME NEW k, NEW p
  PROVE  Falls(HoleMeasure, Places(0), HoleStop(k, p), HoleNext)
<1>1. HoleMeasure \in [Places(0) -> Nat]
  BY DEF HoleMeasure, Places
<1>2. ASSUME NEW m \in Places(0), m \notin HoleStop(k, p)
      PROVE  HoleNext[m] \in Places(0) /\ HoleMeasure[HoleNext[m]] < HoleMeasure[m]
  <2>1. PICK d \in Arrays, i \in Nat \ {0} : m = <<d, i>>
    BY PlacesSplit
  <2>2. i > 1
    BY <1>2, <2>1, HolePair DEF Goes
  <2>3. PICK h \in Nat \ {0} : h = i \div 2 /\ h < i
    BY <2>2, Halves
  <2>4. PICK g \in Arrays : g = Lowered(d, i)
    BY <2>2, LoweredArray
  <2>5. HoleNext[m] = <<g, h>> /\ HoleMeasure[m] = i
    BY <2>1, <2>3, <2>4, HolePair
  <2>6. <<g, h>> \in Places(0) /\ HoleMeasure[<<g, h>>] = h
    BY HolePair
  <2> QED BY <2>3, <2>5, <2>6
<1> QED BY <1>1, <1>2 DEF Falls

LEMMA ClimbIsLoop ==
  ASSUME NEW k, NEW p
  PROVE  Loop(Climb(k, p), Places(0), HoleStop(k, p), HoleNext, HoleFilled(p))
<1> DEFINE Body(f) == [m \in Places(0) |->
             IF m[2] > 1 /\ Before(k, p, m[1][m[2] \div 2])
             THEN f[<<[m[1] EXCEPT ![m[2]] = m[1][m[2] \div 2]], m[2] \div 2>>]
             ELSE [m[1] EXCEPT ![m[2]] = p]]
<1>1. Climb(k, p) = CHOOSE f : f = Body(f)
  BY DEF Climb
<1>2. ASSUME NEW f
      PROVE  Loop(f, Places(0), HoleStop(k, p), HoleNext, HoleFilled(p)) <=> f = Body(f)
  <2>1. \A m \in Places(0) :
          (IF m \in HoleStop(k, p) THEN HoleFilled(p)[m] ELSE f[HoleNext[m]])
            = IF m[2] > 1 /\ Before(k, p, m[1][m[2] \div 2])
              THEN f[<<[m[1] EXCEPT ![m[2]] = m[1][m[2] \div 2]], m[2] \div 2>>]
              ELSE [m[1] EXCEPT ![m[2]] = p]
    BY DEF HoleStop, HoleNext, HoleFilled, Goes, Filled, Lowered
  <2>2. [m \in Places(0) |-> IF m \in HoleStop(k, p) THEN HoleFilled(p)[m] ELSE f[HoleNext[m]]]
          = Body(f)
    BY <2>1
  <2> HIDE DEF Body
  <2> QED BY <2>2 DEF Loop
<1>3. PICK g : Loop(g, Places(0), HoleStop(k, p), HoleNext, HoleFilled(p))
  BY HoleFalls, LoopExists
<1> HIDE DEF Body
<1>4. g = Body(g)
  BY <1>2, <1>3
<1>5. Climb(k, p) = Body(Climb(k, p))
  BY <1>1, <1>4
<1> QED BY <1>2, <1>5

\* An entry p on its way up through the n entries of a: only it may be out of order.
Climbing(k, p, a, n) ==
  {m \in Places(0) : /\ m[2] \in 1..n /\ n <= Len(m[1])
                     /\ Resorted(Filled(m[1], m[2], p), a, n)
                     /\ OrderedButUp(KeysOf(k, Filled(m[1], m[2], p), n), n, m[2])}

LEMMA ClimbingPair ==
  ASSUME NEW k, NEW p, NEW a, NEW n, NEW d \in Arrays, NEW i \in Nat \ {0}
  PROVE  <<d, i>> \in Climbing(k, p, a, n)
           <=> /\ i \in 1..n /\ n <= Len(d) /\ Resorted(Filled(d, i, p), a, n)
               /\ OrderedButUp(KeysOf(k, Filled(d, i, p), n), n, i)
<1>1. PICK m \in Places(0) : m = <<d, i>>
  BY HolePair
<1>2. m[1] = d /\ m[2] = i
  BY <1>1
<1> QED BY <1>1, <1>2 DEF Climbing

\* The hole and the entry above it change places.
LEMMA LoweredExchanges ==
  ASSUME NEW d \in Arrays, NEW p \in Entry, NEW n \in 1..Len(d), NEW i \in 2..n,
         NEW j, j = i \div 2
  PROVE  /\ j \in 1..n /\ j < i
         /\ Filled(Lowered(d, i), j, p) \in Arrays
         /\ Len(Filled(Lowered(d, i), j, p)) = Len(d) /\ Len(Filled(d, i, p)) = Len(d)
         /\ Filled(d, i, p)[i] = p /\ Filled(d, i, p)[j] = d[j]
         /\ Exchanged(Filled(d, i, p), Filled(Lowered(d, i), j, p), n, i, j)
<1>1. Len(d) \in Nat /\ n \in Nat /\ i \in Nat \ {0, 1} /\ i \in 1..Len(d)
  BY DEF Arrays
<1>2. j \in 1..n /\ j \in 1..Len(d) /\ j < i
  BY <1>1, Halves
<1>3. PICK e \in Arrays : e = Lowered(d, i)
  BY <1>1, LoweredArray
<1>4. Len(e) = Len(d) /\ \A x \in 1..Len(d) : e[x] = IF x = i THEN d[j] ELSE d[x]
  BY <1>1, <1>3, LoweredArray
<1>5. PICK g : g = Filled(d, i, p)
  OBVIOUS
<1>6. g \in Arrays /\ Len(g) = Len(d) /\ \A x \in 1..Len(d) : g[x] = IF x = i THEN p ELSE d[x]
  BY <1>5, FilledArray
<1>7. PICK f : f = Filled(e, j, p)
  OBVIOUS
<1>8. f \in Arrays /\ Len(f) = Len(e) /\ \A x \in 1..Len(e) : f[x] = IF x = j THEN p ELSE e[x]
  BY <1>7, FilledArray
<1>9. g[i] = p /\ g[j] = d[j] /\ f[i] = d[j] /\ f[j] = p
  BY <1>1, <1>2, <1>4, <1>6, <1>8
<1>10. ASSUME NEW x \in 1..n, x # i, x # j PROVE f[x] = g[x]
  <2>1. x \in 1..Len(d)
    BY <1>1
  <2> QED BY <1>4, <1>6, <1>8, <1>10, <2>1
<1>11. Exchanged(g, f, n, i, j)
  BY <1>9, <1>10 DEF Exchanged
<1> QED BY <1>2, <1>3, <1>4, <1>5, <1>6, <1>7, <1>8, <1>9, <1>11

LEMMA ClimbKeeps ==
  ASSUME NEW k \in [Entry -> Int], NEW p \in Entry, NEW a, NEW n \in Nat
  PROVE  /\ Climbing(k, p, a, n) \subseteq Places(0)
         /\ Closed(Climbing(k, p, a, n), HoleStop(k, p), HoleNext)
<1>1. SUFFICES ASSUME NEW m \in Climbing(k, p, a, n), m \notin HoleStop(k, p)
               PROVE  HoleNext[m] \in Climbing(k, p, a, n)
  BY DEF Climbing, Closed
<1>2. PICK d \in Arrays, i \in Nat \ {0} : m = <<d, i>>
  <2>1. m \in Places(0)
    BY DEF Climbing
  <2> QED BY <2>1, PlacesSplit
<1>3. /\ i \in 1..n /\ n <= Len(d) /\ Resorted(Filled(d, i, p), a, n)
      /\ OrderedButUp(KeysOf(k, Filled(d, i, p), n), n, i)
  BY <1>2, ClimbingPair
<1>4. PICK j : j = i \div 2
  OBVIOUS
<1>5. i > 1 /\ k[p] < k[d[j]]
  BY <1>1, <1>2, <1>4, HolePair DEF Goes, Before
<1>6. n \in 1..Len(d) /\ i \in 2..n
  BY <1>3, <1>5 DEF Arrays
<1>7. PICK g, f : g = Filled(d, i, p) /\ f = Filled(Lowered(d, i), j, p)
  OBVIOUS
<1>8. /\ j \in 1..n /\ j < i /\ f \in Arrays /\ Len(f) = Len(d) /\ Len(g) = Len(d)
      /\ g[i] = p /\ g[j] = d[j] /\ Exchanged(g, f, n, i, j)
  BY <1>4, <1>6, <1>7, LoweredExchanges
<1>9. Resorted(g, a, n) /\ \A x \in 1..n : g[x] \in Entry
  BY <1>3, <1>7 DEF Resorted
<1>10. Resorted(f, a, n)
  BY <1>3, <1>8, <1>9, ExchangeResorts
<1>11. OrderedButUp(KeysOf(k, f, n), n, j)
  <2>1. PICK v, w : v = KeysOf(k, g, n) /\ w = KeysOf(k, f, n)
    OBVIOUS
  <2>2. \A x \in 1..n : v[x] = k[g[x]] /\ v[x] \in Int
    BY <1>9, <2>1, EntriesHaveKeys
  <2>3. v[i] < v[j]
    BY <1>3, <1>5, <1>8, <2>2
  <2>4. Exchanged(v, w, n, i, j)
    BY <1>3, <1>8, <2>1, KeysExchange
  <2>5. OrderedButUp(v, n, i)
    BY <1>3, <1>7, <2>1
  <2>6. OrderedButUp(w, n, j)
    BY <1>4, <1>6, <2>2, <2>3, <2>4, <2>5, StepUp
  <2> QED BY <2>1, <2>6
<1>12. PICK e \in Arrays : e = Lowered(d, i) /\ Len(e) = Len(d)
  <2>1. i \in Nat \ {0, 1}
    BY <1>5
  <2> QED BY <2>1, LoweredArray
<1>13. HoleNext[<<d, i>>] = <<Lowered(d, i), i \div 2>>
  BY HolePair
<1>14. HoleNext[m] = <<e, j>> /\ j \in Nat \ {0}
  BY <1>2, <1>4, <1>8, <1>12, <1>13
<1> QED BY <1>3, <1>7, <1>8, <1>10, <1>11, <1>12, <1>14, ClimbingPair

(***************************************************************************)
(* pq_push puts an array in order in which only the new entry may have to  *)
(* go up; a is the array with the new entry in the hole.                   *)
(***************************************************************************)
LEMMA ClimbSorts ==
  ASSUME NEW k \in [Entry -> Int], NEW p \in Entry, NEW d \in Arrays, NEW n \in 1..Len(d),
         NEW a, a = Filled(d, n, p), \A x \in 1..n : a[x] \in Entry,
         OrderedButUp(KeysOf(k, a, n), n, n),
         NEW g, g = Climb(k, p)[<<d, n>>]
  PROVE  Resorted(g, a, n) /\ Ordered(KeysOf(k, g, n), n)
<1>1. n \in Nat \ {0} /\ n \in 1..n /\ n <= Len(d) /\ Len(d) \in Nat
  BY DEF Arrays
<1>2. Resorted(a, a, n)
  BY FilledArray DEF Resorted
<1>3. <<d, n>> \in Climbing(k, p, a, n)
  BY <1>1, <1>2, ClimbingPair
<1>4. PICK m \in Climbing(k, p, a, n) : m \in HoleStop(k, p) /\ g = HoleFilled(p)[m]
  <2>1. PICK f : f = Climb(k, p)
    OBVIOUS
  <2>2. PICK I : I = Climbing(k, p, a, n)
    OBVIOUS
  <2>3. I \subseteq Places(0) /\ Closed(I, HoleStop(k, p), HoleNext)
    BY <1>1, <2>2, ClimbKeeps
  <2>4. Falls(HoleMeasure, Places(0), HoleStop(k, p), HoleNext)
    BY HoleFalls
  <2>5. Loop(f, Places(0), HoleStop(k, p), HoleNext, HoleFilled(p))
    BY <2>1, ClimbIsLoop
  <2>6. \A x \in I : \E y \in I : y \in HoleStop(k, p) /\ f[x] = HoleFilled(p)[y]
    BY <2>3, <2>4, <2>5, LoopEnds
  <2> QED BY <1>3, <2>1, <2>2, <2>6
<1>5. PICK b \in Arrays, i \in Nat \ {0} : m = <<b, i>>
  <2>1. m \in Places(0)
    BY DEF Climbing
  <2> QED BY <2>1, PlacesSplit
<1>6. /\ g = Filled(b, i, p) /\ ~Goes(k, p, b, i) /\ i \in 1..n /\ n <= Len(b)
      /\ Resorted(g, a, n) /\ OrderedButUp(KeysOf(k, g, n), n, i)
  <2>1. HoleFilled(p)[<<b, i>>] = Filled(b, i, p)
    BY HolePair
  <2>2. <<b, i>> \in HoleStop(k, p) <=> ~Goes(k, p, b, i)
    BY HolePair
  <2>3. g = Filled(b, i, p) /\ ~Goes(k, p, b, i)
    BY <1>4, <1>5, <2>1, <2>2
  <2>4. <<b, i>> \in Climbing(k, p, a, n)
    BY <1>4, <1>5
  <2> QED BY <2>3, <2>4, ClimbingPair
<1>7. ASSUME i >= 2 PROVE KeysOf(k, g, n)[i \div 2] <= KeysOf(k, g, n)[i]
  <2>1. PICK j \in 1..n : j = i \div 2 /\ j < i
    BY <1>1, <1>6, <1>7, Halves
  <2>2. i \in 1..Len(b) /\ j \in 1..Len(b)
    BY <1>6, <2>1 DEF Arrays
  <2>3. g[i] = p /\ g[j] = b[j]
    BY <1>6, <2>1, <2>2, FilledArray
  <2>4. ~(k[p] < k[b[j]])
    BY <1>6, <1>7, <2>1 DEF Goes, Before
  <2>5. \A x \in 1..n : KeysOf(k, g, n)[x] = k[g[x]] /\ KeysOf(k, g, n)[x] \in Int
    <3>1. \A x \in 1..n : g[x] \in Entry
      BY <1>6 DEF Resorted
    <3>2. n \in Nat
      BY <1>1
    <3>3. \A h : (\A x \in 1..n : h[x] \in Entry)
               => \A x \in 1..n : KeysOf(k, h, n)[x] = k[h[x]] /\ KeysOf(k, h, n)[x] \in Int
      BY <3>2, EntriesHaveKeys
    <3> QED BY <3>1, <3>3
  <2> QED BY <1>6, <2>1, <2>3, <2>4, <2>5
<1>8. Ordered(KeysOf(k, g, n), n)
  BY <1>1, <1>6, <1>7, UpEnds
<1> QED BY <1>6, <1>8
--------------------------------------------------------------------------------
(***************************************************************************)
(* pq_pop: the process at the root goes down.                              *)
(***************************************************************************)
Traded(d, i, j) == [d EXCEPT ![i] = d[j], ![j] = d[i]]

LEMMA TradedArray ==
  ASSUME NEW d \in Arrays, NEW n \in Nat, n <= Len(d),
         NEW i \in 1..n, NEW j \in 1..n, i # j, NEW g, g = Traded(d, i, j)
  PROVE  g \in Arrays /\ Len(g) = Len(d) /\ Exchanged(d, g, n, i, j)
<1>1. PICK l \in Nat : l = Len(d) /\ d \in [1..l -> Entry \cup {Blank}]
  BY DEF Arrays
<1>2. i \in 1..l /\ j \in 1..l
  BY <1>1
<1>3. g = [x \in 1..l |-> IF x = j THEN d[i] ELSE IF x = i THEN d[j] ELSE d[x]]
  BY <1>1, <1>2 DEF Traded
<1>4. g \in [1..l -> Entry \cup {Blank}]
  BY <1>1, <1>2, <1>3
<1>5. g \in Seq(Entry \cup {Blank}) /\ Len(g) = l
  BY <1>1, <1>4
<1>6. \A x \in 1..n : x \in 1..l
  BY <1>1
<1>7. Exchanged(d, g, n, i, j)
  BY <1>2, <1>3, <1>6 DEF Exchanged
<1> QED BY <1>1, <1>5, <1>7 DEF Arrays

\* Where a process goes on its way down.
LEMMA LeastIsChild ==
  ASSUME NEW k, NEW d, NEW n \in Nat, NEW i \in Nat \ {0}, NEW s, s = Least(k, d, n, i)
  PROVE  s # i => i \in 1..n /\ s \in 2..n /\ s \div 2 = i /\ i < s
<1>1. (2 * i) \div 2 = i /\ (2 * i + 1) \div 2 = i
  BY Doubles
<1>2. s = i \/ (s = 2 * i /\ 2 * i <= n) \/ (s = 2 * i + 1 /\ 2 * i + 1 <= n)
  BY DEF Least, LeftChild, left, right
<1> QED BY <1>1, <1>2

LEMMA LeastIsLeast ==
  ASSUME NEW k \in [Entry -> Int], NEW d, NEW n \in Nat, \A x \in 1..n : d[x] \in Entry,
         NEW i \in 1..n, NEW s, s = Least(k, d, n, i)
  PROVE  /\ s # i => k[d[s]] < k[d[i]]
         /\ \A x \in 2..n : x \div 2 = i => k[d[s]] <= k[d[x]]
<1>1. \A x \in 1..n : k[d[x]] \in Int
  OBVIOUS
<1>2. /\ left(i) = 2 * i /\ right(i) = 2 * i + 1
      /\ \A x \in 2..n : x \div 2 = i => x = 2 * i \/ x = 2 * i + 1
  <2>1. \A x \in 2..n : x \div 2 = i => x = 2 * i \/ x = 2 * i + 1
    BY Halves
  <2> QED BY <2>1 DEF left, right
<1>3. PICK l : l = LeftChild(k, d, n, i)
  OBVIOUS
<1>4. CASE 2 * i > n
  <2>1. l = i /\ s = i
    BY <1>2, <1>3, <1>4 DEF LeftChild, Least
  <2>2. \A x \in 2..n : x \div 2 # i
    BY <1>2, <1>4
  <2> QED BY <2>1, <2>2
<1>5. CASE 2 * i <= n
  <2>1. 2 * i \in 1..n
    BY <1>5
  <2>2. /\ l = IF k[d[2 * i]] < k[d[i]] THEN 2 * i ELSE i
        /\ s = IF 2 * i + 1 <= n /\ k[d[2 * i + 1]] < k[d[l]] THEN 2 * i + 1 ELSE l
    BY <1>2, <1>3, <1>5 DEF LeftChild, Least, Before
  <2>3. PICK a \in Int, b \in Int : a = k[d[i]] /\ b = k[d[2 * i]]
    BY <1>1, <2>1
  <2>4. k[d[l]] = IF b < a THEN b ELSE a
    BY <2>2, <2>3
  <2>5. CASE 2 * i + 1 > n
    <3>1. s = l
      BY <2>2, <2>5
    <3>2. \A x \in 2..n : x \div 2 = i => x = 2 * i
      BY <1>2, <2>5
    <3>3. (s # i => k[d[s]] < a) /\ k[d[s]] <= b
      BY <2>2, <2>3, <2>4, <3>1
    <3> QED BY <2>3, <3>2, <3>3
  <2>6. CASE 2 * i + 1 <= n
    <3>1. 2 * i + 1 \in 1..n
      BY <2>6
    <3>2. PICK c \in Int : c = k[d[2 * i + 1]]
      BY <1>1, <3>1
    <3>3. k[d[s]] = IF c < k[d[l]] THEN c ELSE k[d[l]]
      BY <2>2, <2>6, <3>2
    <3>4. (s # i => k[d[s]] < a) /\ k[d[s]] <= b /\ k[d[s]] <= c
      BY <2>2, <2>3, <2>4, <3>2, <3>3
    <3>5. \A x \in 2..n : x \div 2 = i => k[d[s]] <= k[d[x]]
      BY <1>2, <2>3, <3>2, <3>4
    <3> QED BY <2>3, <3>4, <3>5
  <2> QED BY <2>1, <2>5, <2>6
<1> QED BY <1>4, <1>5

SinkPlace(k, n, m) == Least(k, m[1], n, m[2])
SinkNext(k, n) ==
  [m \in Places(n) |-> <<Traded(m[1], m[2], SinkPlace(k, n, m)), SinkPlace(k, n, m)>>]
SinkStop(k, n) == {m \in Places(n) : SinkPlace(k, n, m) = m[2]}
SinkMeasure(n) == [m \in Places(n) |-> IF m[2] <= n THEN n - m[2] ELSE 0]
SinkArray(n) == [m \in Places(n) |-> m[1]]

LEMMA SinkPair ==
  ASSUME NEW n, NEW d \in Arrays, n <= Len(d), NEW i \in Nat \ {0},
         NEW k, NEW s, s = Least(k, d, n, i)
  PROVE  /\ <<d, i>> \in Places(n) /\ SinkArray(n)[<<d, i>>] = d
         /\ <<d, i>> \in SinkStop(k, n) <=> s = i
         /\ SinkNext(k, n)[<<d, i>>] = <<Traded(d, i, s), s>>
         /\ SinkMeasure(n)[<<d, i>>] = IF i <= n THEN n - i ELSE 0
<1>1. PICK m \in Places(n) : m = <<d, i>>
  BY PlacesPair
<1>2. m[1] = d /\ m[2] = i
  BY <1>1
<1>3. SinkPlace(k, n, m) = s
  BY <1>2 DEF SinkPlace
<1>4. SinkNext(k, n)[m] = <<Traded(d, i, s), s>>
  BY <1>2, <1>3 DEF SinkNext
<1>5. m \in SinkStop(k, n) <=> s = i
  BY <1>2, <1>3 DEF SinkStop
<1>6. SinkArray(n)[m] = d /\ SinkMeasure(n)[m] = IF i <= n THEN n - i ELSE 0
  BY <1>2 DEF SinkArray, SinkMeasure
<1> QED BY <1>1, <1>4, <1>5, <1>6

LEMMA SinkFalls ==
  ASSUME NEW k, NEW n \in Nat
  PROVE  Falls(SinkMeasure(n), Places(n), SinkStop(k, n), SinkNext(k, n))
<1>1. SinkMeasure(n) \in [Places(n) -> Nat]
  <2>1. ASSUME NEW m \in Places(n)
        PROVE  (IF m[2] <= n THEN n - m[2] ELSE 0) \in Nat
    <3>1. PICK d \in Arrays, i \in Nat \ {0} : m = <<d, i>>
      BY PlacesSplit
    <3>2. m[2] = i
      BY <3>1
    <3> QED BY <3>2
  <2> QED BY <2>1 DEF SinkMeasure
<1>2. ASSUME NEW m \in Places(n), m \notin SinkStop(k, n)
      PROVE  /\ SinkNext(k, n)[m] \in Places(n)
             /\ SinkMeasure(n)[SinkNext(k, n)[m]] < SinkMeasure(n)[m]
  <2>1. PICK d \in Arrays, i \in Nat \ {0} : m = <<d, i>> /\ n <= Len(d)
    BY PlacesSplit
  <2>2. PICK s : s = Least(k, d, n, i)
    OBVIOUS
  <2>3. s # i
    BY <1>2, <2>1, <2>2, SinkPair
  <2>4. i \in 1..n /\ s \in 2..n /\ i < s
    BY <2>2, <2>3, LeastIsChild
  <2>5. PICK g : g = Traded(d, i, s)
    OBVIOUS
  <2>6. g \in Arrays /\ Len(g) = Len(d) /\ s \in Nat \ {0}
    <3>1. s \in 1..n
      BY <2>4
    <3> QED BY <2>1, <2>3, <2>4, <2>5, <3>1, TradedArray
  <2>7. SinkNext(k, n)[<<d, i>>] = <<Traded(d, i, s), s>>
    BY <2>1, <2>2, SinkPair
  <2>8. <<g, s>> \in Places(n)
    BY <2>1, <2>6, PlacesPair
  <2>9. SinkMeasure(n)[<<g, s>>] = IF s <= n THEN n - s ELSE 0
    <3>1. n <= Len(g)
      BY <2>1, <2>6
    <3>2. PICK r : r = Least(k, g, n, s)
      OBVIOUS
    <3> QED BY <2>6, <3>1, <3>2, SinkPair
  <2>10. SinkMeasure(n)[<<d, i>>] = IF i <= n THEN n - i ELSE 0
    BY <2>1, <2>2, SinkPair
  <2> QED BY <2>1, <2>4, <2>5, <2>7, <2>8, <2>9, <2>10
<1> QED BY <1>1, <1>2 DEF Falls

LEMMA SinkIsLoop ==
  ASSUME NEW k, NEW n \in Nat
  PROVE  Loop(Sink(k, n), Places(n), SinkStop(k, n), SinkNext(k, n), SinkArray(n))
<1> DEFINE Body(f) == [m \in Places(n) |->
             IF Least(k, m[1], n, m[2]) = m[2] THEN m[1]
             ELSE f[<<[m[1] EXCEPT ![m[2]] = m[1][Least(k, m[1], n, m[2])],
                                   ![Least(k, m[1], n, m[2])] = m[1][m[2]]],
                      Least(k, m[1], n, m[2])>>]]
<1>1. Sink(k, n) = CHOOSE f : f = Body(f)
  BY DEF Sink
<1>2. ASSUME NEW f
      PROVE  Loop(f, Places(n), SinkStop(k, n), SinkNext(k, n), SinkArray(n)) <=> f = Body(f)
  <2>1. \A m \in Places(n) :
          (IF m \in SinkStop(k, n) THEN SinkArray(n)[m] ELSE f[SinkNext(k, n)[m]])
            = IF Least(k, m[1], n, m[2]) = m[2] THEN m[1]
              ELSE f[<<[m[1] EXCEPT ![m[2]] = m[1][Least(k, m[1], n, m[2])],
                                    ![Least(k, m[1], n, m[2])] = m[1][m[2]]],
                       Least(k, m[1], n, m[2])>>]
    BY DEF SinkStop, SinkNext, SinkArray, SinkPlace, Traded
  <2>2. [m \in Places(n) |-> IF m \in SinkStop(k, n) THEN SinkArray(n)[m]
                             ELSE f[SinkNext(k, n)[m]]] = Body(f)
    BY <2>1
  <2> HIDE DEF Body
  <2> QED BY <2>2 DEF Loop
<1>3. PICK g : Loop(g, Places(n), SinkStop(k, n), SinkNext(k, n), SinkArray(n))
  BY SinkFalls, LoopExists
<1> HIDE DEF Body
<1>4. g = Body(g)
  BY <1>2, <1>3
<1>5. Sink(k, n) = Body(Sink(k, n))
  BY <1>1, <1>4
<1> QED BY <1>2, <1>5

\* A process on its way down through the n entries of a: only it may be out of order.
Sinking(k, a, n) ==
  {m \in Places(n) : /\ m[2] \in 1..n /\ Resorted(m[1], a, n)
                     /\ OrderedButDown(KeysOf(k, m[1], n), n, m[2])}

LEMMA SinkingPair ==
  ASSUME NEW n, NEW d \in Arrays, n <= Len(d), NEW i \in Nat \ {0}, NEW k, NEW a
  PROVE  <<d, i>> \in Sinking(k, a, n)
           <=> i \in 1..n /\ Resorted(d, a, n) /\ OrderedButDown(KeysOf(k, d, n), n, i)
<1>1. PICK m \in Places(n) : m = <<d, i>>
  BY PlacesPair
<1>2. m[1] = d /\ m[2] = i
  BY <1>1
<1> QED BY <1>1, <1>2 DEF Sinking

LEMMA SinkKeeps ==
  ASSUME NEW k \in [Entry -> Int], NEW a, NEW n \in Nat
  PROVE  /\ Sinking(k, a, n) \subseteq Places(n)
         /\ Closed(Sinking(k, a, n), SinkStop(k, n), SinkNext(k, n))
<1>1. SUFFICES ASSUME NEW m \in Sinking(k, a, n), m \notin SinkStop(k, n)
               PROVE  SinkNext(k, n)[m] \in Sinking(k, a, n)
  BY DEF Sinking, Closed
<1>2. PICK d \in Arrays, i \in Nat \ {0} : m = <<d, i>> /\ n <= Len(d)
  <2>1. m \in Places(n)
    BY DEF Sinking
  <2> QED BY <2>1, PlacesSplit
<1>3. i \in 1..n /\ Resorted(d, a, n) /\ OrderedButDown(KeysOf(k, d, n), n, i)
  BY <1>2, SinkingPair
<1>4. PICK s : s = Least(k, d, n, i)
  OBVIOUS
<1>5. s # i
  BY <1>1, <1>2, <1>4, SinkPair
<1>6. s \in 2..n /\ s \div 2 = i /\ i < s
  BY <1>4, <1>5, LeastIsChild
<1>7. \A x \in 1..n : d[x] \in Entry
  BY <1>3 DEF Resorted
<1>8. k[d[s]] < k[d[i]] /\ \A x \in 2..n : x \div 2 = i => k[d[s]] <= k[d[x]]
  BY <1>3, <1>4, <1>5, <1>7, LeastIsLeast
<1>9. PICK g : g = Traded(d, i, s)
  OBVIOUS
<1>10. s \in 1..n /\ s \in Nat \ {0}
  BY <1>6
<1>11. g \in Arrays /\ Len(g) = Len(d) /\ Exchanged(d, g, n, i, s)
  BY <1>2, <1>3, <1>5, <1>9, <1>10, TradedArray
<1>12. Resorted(g, a, n)
  BY <1>3, <1>10, <1>11, ExchangeResorts
<1>13. OrderedButDown(KeysOf(k, g, n), n, s)
  <2>1. PICK v, w : v = KeysOf(k, d, n) /\ w = KeysOf(k, g, n)
    OBVIOUS
  <2>2. \A x \in 1..n : v[x] = k[d[x]] /\ v[x] \in Int
    BY <1>7, <2>1, EntriesHaveKeys
  <2>3. v[s] < v[i] /\ \A x \in 2..n : x \div 2 = i => v[s] <= v[x]
    <3>1. \A x \in 2..n : x \in 1..n
      OBVIOUS
    <3> QED BY <1>3, <1>8, <1>10, <2>2, <3>1
  <2>4. Exchanged(v, w, n, i, s)
    BY <1>3, <1>10, <1>11, <2>1, KeysExchange
  <2>5. OrderedButDown(v, n, i)
    BY <1>3, <2>1
  <2>6. OrderedButDown(w, n, s)
    BY <1>3, <1>6, <2>2, <2>3, <2>4, <2>5, StepDown
  <2> QED BY <2>1, <2>6
<1>14. SinkNext(k, n)[<<d, i>>] = <<Traded(d, i, s), s>>
  BY <1>2, <1>4, SinkPair
<1>15. n <= Len(g)
  BY <1>2, <1>11
<1>16. <<g, s>> \in Sinking(k, a, n)
  BY <1>10, <1>11, <1>12, <1>13, <1>15, SinkingPair
<1> QED BY <1>2, <1>9, <1>14, <1>16

(***************************************************************************)
(* pq_pop puts the first n places of an array in order if only one entry   *)
(* may have to go down.                                                    *)
(***************************************************************************)
LEMMA SinkSorts ==
  ASSUME NEW k \in [Entry -> Int], NEW n \in Nat, NEW d \in Arrays, n <= Len(d),
         \A x \in 1..n : d[x] \in Entry, NEW i \in 1..n,
         OrderedButDown(KeysOf(k, d, n), n, i),
         NEW g, g = Sink(k, n)[<<d, i>>]
  PROVE  Resorted(g, d, n) /\ Ordered(KeysOf(k, g, n), n)
<1>1. i \in Nat \ {0} /\ Resorted(d, d, n)
  BY DEF Resorted
<1>2. <<d, i>> \in Sinking(k, d, n)
  BY <1>1, SinkingPair
<1>3. PICK m \in Sinking(k, d, n) : m \in SinkStop(k, n) /\ g = SinkArray(n)[m]
  <2>1. PICK f : f = Sink(k, n)
    OBVIOUS
  <2>2. PICK I : I = Sinking(k, d, n)
    OBVIOUS
  <2>3. I \subseteq Places(n) /\ Closed(I, SinkStop(k, n), SinkNext(k, n))
    BY <2>2, SinkKeeps
  <2>4. Falls(SinkMeasure(n), Places(n), SinkStop(k, n), SinkNext(k, n))
    BY SinkFalls
  <2>5. Loop(f, Places(n), SinkStop(k, n), SinkNext(k, n), SinkArray(n))
    BY <2>1, SinkIsLoop
  <2>6. \A x \in I : \E y \in I : y \in SinkStop(k, n) /\ f[x] = SinkArray(n)[y]
    BY <2>3, <2>4, <2>5, LoopEnds
  <2> QED BY <1>2, <2>1, <2>2, <2>6
<1>4. PICK b \in Arrays, j \in Nat \ {0} : m = <<b, j>> /\ n <= Len(b)
  <2>1. m \in Places(n)
    BY DEF Sinking
  <2> QED BY <2>1, PlacesSplit
<1>5. PICK s : s = Least(k, b, n, j)
  OBVIOUS
<1>6. SinkArray(n)[<<b, j>>] = b /\ (<<b, j>> \in SinkStop(k, n) <=> s = j)
  BY <1>4, <1>5, SinkPair
<1>7. g = b /\ s = j
  BY <1>3, <1>4, <1>6
<1>8. <<b, j>> \in Sinking(k, d, n)
  BY <1>3, <1>4
<1>9. j \in 1..n /\ Resorted(g, d, n) /\ OrderedButDown(KeysOf(k, g, n), n, j)
  BY <1>4, <1>7, <1>8, SinkingPair
<1>10. \A x \in 1..n : g[x] \in Entry
  BY <1>9 DEF Resorted
<1>11. \A x \in 2..n : x \div 2 = j => k[g[j]] <= k[g[x]]
  BY <1>5, <1>7, <1>9, <1>10, LeastIsLeast
<1>12. \A x \in 2..n : x \div 2 = j => KeysOf(k, g, n)[j] <= KeysOf(k, g, n)[x]
  <2>1. \A x \in 1..n : KeysOf(k, g, n)[x] = k[g[x]]
    BY DEF KeysOf
  <2>2. \A x \in 2..n : x \in 1..n
    OBVIOUS
  <2> QED BY <1>9, <1>11, <2>1, <2>2
<1>13. Ordered(KeysOf(k, g, n), n)
  BY <1>9, <1>12, DownEnds
<1> QED BY <1>9, <1>13

LEMMA SinkStays ==
  ASSUME NEW k, NEW d \in Arrays, NEW n \in Nat, n = 0
  PROVE  Sink(k, n)[<<d, 1>>] = d
<1>1. PICK i \in Nat \ {0} : i = 1
  OBVIOUS
<1>2. PICK s : s = Least(k, d, n, i)
  OBVIOUS
<1>3. s = i
  BY <1>1, <1>2, LeastIsChild
<1>4. n <= Len(d)
  BY DEF Arrays
<1>5. PICK m : m = <<d, i>>
  OBVIOUS
<1>6. m \in Places(n) /\ SinkArray(n)[m] = d
  BY <1>2, <1>4, <1>5, SinkPair
<1>7. m \in SinkStop(k, n)
  BY <1>2, <1>3, <1>4, <1>5, SinkPair
<1>8. PICK f : f = Sink(k, n) /\ Loop(f, Places(n), SinkStop(k, n), SinkNext(k, n), SinkArray(n))
  BY SinkIsLoop
<1>9. f[m] = d
  BY <1>6, <1>7, <1>8 DEF Loop
<1> QED BY <1>1, <1>5, <1>8, <1>9
--------------------------------------------------------------------------------
(***************************************************************************)
(* The operations of the arrival queue.                                    *)
(***************************************************************************)
\* The first n places of the array are used: no entry twice, and in order.
Packed(k, d, n) ==
  /\ d \in Arrays /\ n \in 0..Len(d)
  /\ \A x \in 1..n : d[x] \in Entry
  /\ OnceEach(d, n) /\ Ordered(KeysOf(k, d, n), n)

\* There is room for one more entry than n.
Grown(d, n) == IF n >= Len(d) THEN pq_resize(d, 2 * Len(d)) ELSE d

LEMMA Joined ==
  ASSUME NEW S, NEW d \in Seq(S), NEW b \in Seq(S), NEW e, e = d \o b
  PROVE  e \in Seq(S) /\ Len(e) = Len(d) + Len(b) /\ \A x \in 1..Len(d) : e[x] = d[x]
  OBVIOUS

LEMMA GrownArray ==
  ASSUME NEW d \in Arrays, Len(d) >= 1, NEW n \in 0..Len(d), NEW e, e = Grown(d, n)
  PROVE  e \in Arrays /\ n + 1 \in 1..Len(e) /\ \A x \in 1..n : e[x] = d[x]
<1>1. PICK l \in Nat \ {0} : l = Len(d)
  BY DEF Arrays
<1>2. CASE n < l
  <2>1. e = d
    BY <1>1, <1>2 DEF Grown
  <2> QED BY <1>1, <1>2, <2>1
<1>3. CASE n >= l
  <2>1. PICK b : b = [i \in 1..(2 * l - l) |-> Blank]
    OBVIOUS
  <2>2. b \in Seq(Entry \cup {Blank}) /\ Len(b) = l
    BY <1>1, <2>1
  <2>3. e = d \o b
    BY <1>1, <1>3, <2>1 DEF Grown, pq_resize
  <2>4. d \in Seq(Entry \cup {Blank})
    BY DEF Arrays
  <2>5. PICK S : S = Entry \cup {Blank}
    OBVIOUS
  <2>6. d \in Seq(S) /\ b \in Seq(S)
    BY <2>2, <2>4, <2>5
  <2>7. e \in Seq(S) /\ Len(e) = l + l /\ \A x \in 1..l : e[x] = d[x]
    <3>1. Len(e) = Len(d) + Len(b) /\ \A x \in 1..Len(d) : e[x] = d[x]
      BY <2>3, <2>6, Joined
    <3> QED BY <1>1, <2>2, <2>3, <2>6, <3>1
  <2> QED BY <1>1, <1>3, <2>5, <2>7 DEF Arrays
<1> QED BY <1>1, <1>2, <1>3

LEMMA PushedIsPacked ==
  ASSUME NEW k \in [Entry -> Int], NEW k2 \in [Entry -> Int], NEW p \in Entry,
         \A q \in Entry \ {p} : k2[q] = k[q],
         NEW d, NEW m, Packed(k, d, m), Len(d) >= 1, p \notin Held(d, m),
         NEW g, g = Climb(k2, p)[<<Grown(d, m), m + 1>>]
  PROVE  Packed(k2, g, m + 1) /\ Len(g) >= 1 /\ Held(g, m + 1) = Held(d, m) \cup {p}
<1>1. /\ d \in Arrays /\ m \in 0..Len(d) /\ \A x \in 1..m : d[x] \in Entry
      /\ OnceEach(d, m) /\ Ordered(KeysOf(k, d, m), m)
  BY DEF Packed
<1>2. PICK n \in Nat \ {0} : n = m + 1 /\ m = n - 1
  BY <1>1
<1>3. PICK e : e = Grown(d, m)
  OBVIOUS
<1>4. e \in Arrays /\ n \in 1..Len(e) /\ \A x \in 1..m : e[x] = d[x]
  BY <1>1, <1>2, <1>3, GrownArray
<1>5. PICK a : a = Filled(e, n, p)
  OBVIOUS
<1>6. Len(a) = Len(e) /\ a[n] = p /\ \A x \in 1..m : a[x] = d[x]
  <2>1. Len(a) = Len(e) /\ \A x \in 1..Len(e) : a[x] = IF x = n THEN p ELSE e[x]
    BY <1>4, <1>5, FilledArray
  <2>2. Len(e) \in Nat
    BY <1>4 DEF Arrays
  <2>3. \A x \in 1..m : x \in 1..Len(e) /\ x # n
    BY <1>2, <1>4, <2>2
  <2> QED BY <1>4, <2>1, <2>3
<1>7. \A x \in 1..m : d[x] # p
  BY DEF Held
<1>8. Held(a, n) = Held(d, m) \cup {p} /\ OnceEach(a, n)
  <2>1. Added(a, n, d, m, p)
    BY <1>2, <1>6, <1>7 DEF Added
  <2>2. Held(a, n) = Held(d, m) \cup {p} /\ (OnceEach(d, m) => OnceEach(a, n))
    BY <2>1, AddedLast
  <2> QED BY <1>1, <2>2
<1>9. \A x \in 1..n : a[x] \in Entry
  <2>1. \A x \in 1..n : x = n \/ x \in 1..m
    BY <1>2
  <2> QED BY <1>1, <1>6, <2>1
<1>10. OrderedButUp(KeysOf(k2, a, n), n, n)
  <2>1. ASSUME NEW x \in 1..m PROVE k2[a[x]] = k[d[x]]
    <3>1. d[x] \in Entry \ {p} /\ a[x] = d[x]
      BY <1>1, <1>6, <1>7
    <3> QED BY <3>1
  <2>2. \A x \in 1..(n - 1) : k2[a[x]] = k[d[x]]
    BY <1>2, <2>1
  <2>3. Ordered(KeysOf(k, d, n - 1), n - 1)
    BY <1>1, <1>2
  <2> QED BY <1>2, <2>2, <2>3, AddedMayRise
<1>11. g = Climb(k2, p)[<<e, n>>]
  BY <1>2, <1>3
<1>12. Resorted(g, a, n) /\ Ordered(KeysOf(k2, g, n), n)
  BY <1>4, <1>5, <1>9, <1>10, <1>11, ClimbSorts
<1>13. /\ g \in Arrays /\ Len(g) = Len(e) /\ \A x \in 1..n : g[x] \in Entry
       /\ Held(g, n) = Held(a, n) /\ OnceEach(g, n)
  BY <1>6, <1>8, <1>12 DEF Resorted
<1>14. n \in 0..Len(g) /\ Len(g) >= 1
  <2>1. Len(e) \in Nat
    BY <1>4 DEF Arrays
  <2> QED BY <1>2, <1>4, <1>13, <2>1
<1>15. Packed(k2, g, n)
  BY <1>12, <1>13, <1>14 DEF Packed
<1> QED BY <1>2, <1>8, <1>13, <1>14, <1>15

LEMMA PoppedIsPacked ==
  ASSUME NEW k \in [Entry -> Int], NEW d, NEW n \in Nat \ {0}, Packed(k, d, n),
         NEW m, m = n - 1,
         NEW g, g = Sink(k, m)[<<Filled(d, 1, d[n]), 1>>]
  PROVE  /\ Packed(k, g, m) /\ Len(g) = Len(d)
         /\ Held(g, m) = Held(d, n) \ {d[1]}
         /\ d[1] \in Held(d, n) /\ d[1] \in Entry
         /\ \A q \in Held(d, n) : k[d[1]] <= k[q]
<1>1. /\ d \in Arrays /\ n \in 0..Len(d) /\ \A x \in 1..n : d[x] \in Entry
      /\ OnceEach(d, n) /\ Ordered(KeysOf(k, d, n), n)
  BY DEF Packed
<1>2. PICK l \in Nat : l = Len(d) /\ n \in 1..l /\ 1 \in 1..n /\ m \in Nat /\ m \in 0..l
  BY <1>1 DEF Arrays
<1>3. d[1] \in Held(d, n) /\ d[1] \in Entry /\ \A q \in Held(d, n) : k[d[1]] <= k[q]
  <2>1. \A x \in 1..n : k[d[x]] \in Int
    BY <1>1
  <2>2. \A x \in 1..n : k[d[1]] <= k[d[x]]
    BY <1>1, <2>1, FirstIsLeast
  <2> QED BY <1>1, <1>2, <2>2 DEF Held
<1>4. PICK b : b = Filled(d, 1, d[n])
  OBVIOUS
<1>5. /\ b \in Arrays /\ Len(b) = l
      /\ \A x \in 1..m : b[x] = IF x = 1 THEN d[n] ELSE d[x]
  <2>1. PICK e : e = d[n] /\ e \in Entry \cup {Blank}
    BY <1>1, <1>2
  <2>2. b = Filled(d, 1, e)
    BY <1>4, <2>1
  <2>3. b \in Arrays /\ Len(b) = Len(d) /\ \A x \in 1..Len(d) : b[x] = IF x = 1 THEN e ELSE d[x]
    BY <1>1, <2>1, <2>2, FilledArray
  <2>4. \A x \in 1..m : x \in 1..Len(d)
    BY <1>2
  <2> QED BY <1>2, <2>1, <2>3, <2>4
<1>6. Held(b, m) = Held(d, n) \ {d[1]} /\ OnceEach(b, m)
  <2>1. \A x \in 1..(n - 1) : b[x] = IF x = 1 THEN d[n] ELSE d[x]
    BY <1>5
  <2>2. Held(b, n - 1) = Held(d, n) \ {d[1]}
    BY <1>1, <2>1, LastToRoot
  <2>3. OnceEach(b, n - 1)
    BY <1>1, <2>1, LastToRoot
  <2> QED BY <2>2, <2>3
<1>7. OrderedButDown(KeysOf(k, b, m), m, 1)
  <2>1. \A x \in 1..(n - 1) : b[x] = IF x = 1 THEN d[n] ELSE d[x]
    BY <1>5
  <2>2. OrderedButDown(KeysOf(k, b, n - 1), n - 1, 1)
    BY <1>1, <2>1, RootMaySink
  <2> QED BY <2>2
<1>8. \A x \in 1..m : b[x] \in Entry
  <2>1. \A x \in 1..m : x \in 1..n /\ n \in 1..n
    OBVIOUS
  <2> QED BY <1>1, <1>5, <2>1
<1>9. g = Sink(k, m)[<<b, 1>>]
  BY <1>4
<1>10. Resorted(g, b, m) /\ Ordered(KeysOf(k, g, m), m)
  <2>1. CASE m = 0
    <3>1. g = b
      BY <1>5, <1>9, <2>1, SinkStays
    <3> QED BY <1>5, <1>8, <2>1, <3>1 DEF Resorted, Ordered
  <2>2. CASE m # 0
    <3>1. 1 \in 1..m /\ m <= Len(b)
      BY <1>2, <1>5, <2>2
    <3> QED BY <1>2, <1>5, <1>7, <1>8, <1>9, <3>1, SinkSorts
  <2> QED BY <2>1, <2>2
<1>11. /\ g \in Arrays /\ Len(g) = l /\ \A x \in 1..m : g[x] \in Entry
       /\ Held(g, m) = Held(b, m) /\ OnceEach(g, m)
  BY <1>5, <1>6, <1>10 DEF Resorted
<1>12. Packed(k, g, m)
  BY <1>2, <1>10, <1>11 DEF Packed
<1> QED BY <1>2, <1>3, <1>6, <1>11, <1>12
--------------------------------------------------------------------------------
(***************************************************************************)
(* ArrivalQueue implements ReadyHeap.                                      *)
(***************************************************************************)
ArrivalsInv ==
  /\ Packed(arrival_time, data, size) /\ Len(data) >= 1
  /\ arrival_time \in [Entry -> Times]
  /\ popped \in Entry \cup {Blank}
  /\ loading \in BOOLEAN /\ (loading => popped = Blank)

LEMMA HeldOnce ==
  ASSUME NEW h, NEW n \in Nat, OnceEach(h, n)
  PROVE  Cardinality(Held(h, n)) = n
<1>1. PICK S : S = 1..n
  OBVIOUS
<1>2. IsFiniteSet(S) /\ Cardinality(S) = n
  BY <1>1, FS_Interval
<1>3. PICK T : T = Held(h, n)
  OBVIOUS
<1>4. PICK f : f = [x \in S |-> h[x]]
  OBVIOUS
<1>5. f \in [S -> T] /\ \A t \in T : \E x \in S : f[x] = t
  BY <1>1, <1>3, <1>4 DEF Held
<1>6. IsInjective(f)
  BY <1>1, <1>4 DEF OnceEach, IsInjective
<1>7. f \in Surjection(S, T) /\ f \in Injection(S, T)
  BY <1>5, <1>6 DEF Surjection, Injection
<1>8. Cardinality(T) = Cardinality(S)
  BY <1>2, <1>7, FS_Surjection
<1> QED BY <1>2, <1>3, <1>8

LEMMA ArrivalsInvReads ==
  ArrivalsInv => /\ ArrivalsTypeOK /\ arrival_time \in [Entry -> Int]
                 /\ Pushed = Held(data, size) /\ size \in Nat
<1> SUFFICES ASSUME ArrivalsInv
             PROVE  /\ ArrivalsTypeOK /\ arrival_time \in [Entry -> Int]
                    /\ Pushed = Held(data, size) /\ size \in Nat
  OBVIOUS
<1>1. /\ size \in 0..Len(data) /\ size \in Nat /\ OnceEach(data, size)
      /\ \A x \in 1..size : data[x] \in Entry
  BY DEF ArrivalsInv, Packed
<1>2. Pushed = Held(data, size)
  BY DEF Pushed, Held
<1>3. Cardinality(Pushed) = size
  BY <1>1, <1>2, HeldOnce
<1>4. arrival_time \in [Entry -> Int]
  BY TimesAssumption DEF ArrivalsInv
<1> QED BY <1>1, <1>2, <1>3, <1>4 DEF ArrivalsInv, ArrivalsTypeOK, capacity

LEMMA ArrivalsInvInit == ArrivalsInit => ArrivalsInv /\ Arrivals!Init
<1> SUFFICES ASSUME ArrivalsInit PROVE ArrivalsInv /\ Arrivals!Init
  OBVIOUS
<1>1. data \in Seq(Entry \cup {Blank}) /\ Len(data) = PqCapacity /\ PqCapacity >= 1
  BY PqCapacityAssumption DEF ArrivalsInit
<1>2. size = 0 /\ popped = Blank /\ loading = TRUE
  BY DEF ArrivalsInit
<1>3. arrival_time \in [Entry -> Times]
  <2>1. PICK c : c = CHOOSE k \in Times : TRUE
    OBVIOUS
  <2>2. c \in Times
    BY <2>1, TimesAssumption
  <2>3. arrival_time = [p \in Entry |-> c]
    BY <2>1 DEF ArrivalsInit
  <2> QED BY <2>2, <2>3
<1>4. Packed(arrival_time, data, size)
  BY <1>1, <1>2, PqCapacityAssumption DEF Packed, Arrays, OnceEach, Ordered
<1>5. Pushed = {}
  BY <1>2 DEF Pushed
<1> QED BY <1>1, <1>2, <1>3, <1>4, <1>5 DEF ArrivalsInv, Arrivals!Init

LEMMA ArrivalsInvStep ==
  ArrivalsInv /\ [ArrivalsNext]_arrivalsVars
    => ArrivalsInv' /\ [Arrivals!Next]_(Arrivals!vars)
<1> SUFFICES ASSUME ArrivalsInv, [ArrivalsNext]_arrivalsVars
             PROVE  ArrivalsInv' /\ [Arrivals!Next]_(Arrivals!vars)
  OBVIOUS
<1>1. /\ arrival_time \in [Entry -> Int] /\ Pushed = Held(data, size) /\ size \in Nat
      /\ Packed(arrival_time, data, size) /\ Len(data) >= 1
      /\ arrival_time \in [Entry -> Times]
  BY ArrivalsInvReads DEF ArrivalsInv
<1>2. Pushed' = Held(data', size')
  BY DEF Pushed, Held
<1>3. ASSUME NEW p \in Entry, NEW k \in Times, Push(p, k) PROVE ArrivalsInv' /\ Arrivals!Next
  <2>1. /\ arrival_time' = [arrival_time EXCEPT ![p] = k] /\ p \notin Pushed
        /\ size' = size + 1 /\ loading /\ UNCHANGED <<popped, loading>>
    BY <1>3 DEF Push
  <2>2. /\ arrival_time' \in [Entry -> Times] /\ arrival_time' \in [Entry -> Int]
        /\ \A q \in Entry \ {p} : arrival_time'[q] = arrival_time[q]
    BY <1>1, <2>1, TimesAssumption
  <2>3. PICK k2 : /\ k2 = arrival_time' /\ k2 \in [Entry -> Int]
                  /\ \A q \in Entry \ {p} : k2[q] = arrival_time[q]
    BY <2>2
  <2>4. PICK g : g = data' /\ g = Climb(k2, p)[<<Grown(data, size), size + 1>>]
    BY <1>3, <2>3 DEF Push, Grown, capacity
  <2>5. p \notin Held(data, size)
    BY <1>1, <2>1
  <2>6. /\ Packed(k2, g, size + 1) /\ Len(g) >= 1
        /\ Held(g, size + 1) = Held(data, size) \cup {p}
    <3>1. PICK k1, d, m : k1 = arrival_time /\ d = data /\ m = size
      OBVIOUS
    <3>2. /\ k1 \in [Entry -> Int] /\ Packed(k1, d, m) /\ Len(d) >= 1 /\ p \notin Held(d, m)
          /\ k2 \in [Entry -> Int] /\ \A q \in Entry \ {p} : k2[q] = k1[q]
      BY <1>1, <2>3, <2>5, <3>1
    <3>3. g = Climb(k2, p)[<<Grown(d, m), m + 1>>]
      BY <2>4, <3>1
    <3>4. Packed(k2, g, m + 1) /\ Len(g) >= 1 /\ Held(g, m + 1) = Held(d, m) \cup {p}
      BY <3>2, <3>3, PushedIsPacked
    <3> QED BY <3>1, <3>4
  <2>7. Pushed' = Pushed \cup {p}
    BY <1>1, <1>2, <2>1, <2>4, <2>6
  <2>8. popped' = Blank
    BY <2>1 DEF ArrivalsInv
  <2>9. Arrivals!Insert(p, k)
    BY <2>1, <2>7, <2>8 DEF Arrivals!Insert
  <2>10. ArrivalsInv'
    BY <2>1, <2>2, <2>3, <2>4, <2>6, <2>8 DEF ArrivalsInv
  <2> QED BY <2>9, <2>10 DEF Arrivals!Next
<1>4. CASE Loaded
  <2>1. UNCHANGED <<data, size, arrival_time, popped>> /\ loading' = FALSE
    BY <1>4 DEF Loaded
  <2>2. ArrivalsInv'
    BY <2>1 DEF ArrivalsInv
  <2>3. UNCHANGED Arrivals!vars
    BY <1>1, <1>2, <2>1 DEF Arrivals!vars
  <2> QED BY <2>2, <2>3
<1>5. CASE Pop
  <2>1. /\ ~loading /\ size > 0 /\ popped' = data[1] /\ size' = size - 1
        /\ UNCHANGED <<arrival_time, loading>>
    BY <1>5 DEF Pop, Shrunk
  <2>2. PICK g : /\ g = data'
                 /\ g = Sink(arrival_time, size - 1)[<<Filled(data, 1, data[size]), 1>>]
    BY <1>5 DEF Pop, Shrunk, Filled
  <2>3. /\ Packed(arrival_time, g, size - 1) /\ Len(g) = Len(data)
        /\ Held(g, size - 1) = Held(data, size) \ {data[1]}
        /\ data[1] \in Held(data, size) /\ data[1] \in Entry
        /\ \A q \in Held(data, size) : arrival_time[data[1]] <= arrival_time[q]
    <3>1. PICK k1, d, n, m : k1 = arrival_time /\ d = data /\ n = size /\ m = n - 1
      OBVIOUS
    <3>2. k1 \in [Entry -> Int] /\ Packed(k1, d, n) /\ n \in Nat \ {0}
      BY <1>1, <2>1, <3>1
    <3>3. g = Sink(k1, m)[<<Filled(d, 1, d[n]), 1>>]
      BY <2>2, <3>1
    <3>4. /\ Packed(k1, g, m) /\ Len(g) = Len(d)
          /\ Held(g, m) = Held(d, n) \ {d[1]}
          /\ d[1] \in Held(d, n) /\ d[1] \in Entry
          /\ \A q \in Held(d, n) : k1[d[1]] <= k1[q]
      <4>1. m = n - 1
        BY <3>1
      <4>2. Packed(k1, g, m) /\ Len(g) = Len(d) /\ Held(g, m) = Held(d, n) \ {d[1]}
        BY <3>2, <3>3, <4>1, PoppedIsPacked
      <4>3. /\ d[1] \in Held(d, n) /\ d[1] \in Entry
            /\ \A q \in Held(d, n) : k1[d[1]] <= k1[q]
        BY <3>2, <3>3, <4>1, PoppedIsPacked
      <4> QED BY <4>2, <4>3
    <3> QED BY <3>1, <3>4
  <2>4. Pushed' = Pushed \ {data[1]}
    BY <1>1, <1>2, <2>1, <2>2, <2>3
  <2>5. Arrivals!ExtractMin(data[1])
    BY <1>1, <2>1, <2>3, <2>4 DEF Arrivals!ExtractMin
  <2>6. ArrivalsInv'
    BY <1>1, <2>1, <2>2, <2>3 DEF ArrivalsInv
  <2> QED BY <2>3, <2>5, <2>6 DEF Arrivals!Next
<1>6. CASE UNCHANGED arrivalsVars
  BY <1>6 DEF arrivalsVars, ArrivalsInv, Arrivals!vars, Pushed
<1> QED BY <1>3, <1>4, <1>5, <1>6 DEF ArrivalsNext

(***************************************************************************)
(* The used part of the arrival queue holds each process once and is never *)
(* longer than the array, however often pq_resize doubles it.              *)
(***************************************************************************)
THEOREM ArrivalsAreSound == ArrivalsSpec => []ArrivalsTypeOK
<1>1. ArrivalsInv /\ [ArrivalsNext]_arrivalsVars => ArrivalsInv'
  BY ArrivalsInvStep
<1> QED BY <1>1, ArrivalsInvInit, ArrivalsInvReads, PTL DEF ArrivalsSpec

(***************************************************************************)
(* The generator gets the lines of the input file by their arrival times   *)
(* and gets each of them, whatever the file and the first capacity.        *)
(***************************************************************************)
THEOREM ArrivalsAreAReadySet == ArrivalsSpec => ArrivalsImplementReadyHeap
<1>1. ArrivalsInit => ArrivalsInv /\ Arrivals!Init
  BY ArrivalsInvInit
<1>2. ArrivalsInv /\ [ArrivalsNext]_arrivalsVars
        => ArrivalsInv' /\ [Arrivals!Next]_(Arrivals!vars)
  BY ArrivalsInvStep
<1> QED BY <1>1, <1>2, PTL DEF ArrivalsSpec, ArrivalsImplementReadyHeap, Arrivals!Spec
================================================================================
