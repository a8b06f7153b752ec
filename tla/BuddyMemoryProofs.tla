--------------------------- MODULE BuddyMemoryProofs ---------------------------
(***************************************************************************)
(* Proofs about BuddyMemory, for a memory of any size, any processes and   *)
(* any requests.  In order: paths, the search and the merge as operations  *)
(* on trees, and three inductive invariants that build on each other:      *)
(*   TypeOK     the memory is a tree of blocks;                            *)
(*   OwnersInv  live blocks and processes correspond one to one, and what  *)
(*              nobody owns is free, so that the search finds it;          *)
(*   SafeInv    live blocks do not overlap and are not lost, provided the  *)
(*              requested sizes are narrow (see NarrowSizes).              *)
(***************************************************************************)
EXTENDS BuddyMemory, WellFoundedInduction, TLAPS

\* A set of naturals that is not empty has a least member.
LEMMA LeastNat ==
  ASSUME NEW T, T \subseteq Nat, T # {}
  PROVE  \E x \in T : \A y \in T : x <= y
<1> DEFINE R == OpToRel(<, Nat)
<1>1. \A x, y \in Nat : y < x => <<y, x>> \in R
  BY DEF OpToRel
<1>2. IsWellFoundedOn(R, Nat)
  BY NatLessThanWellFounded
<1> HIDE DEF R
<1>3. PICK x \in T : \A y \in T : ~(<<y, x>> \in R)
  BY <1>2, WFMin
<1>4. ASSUME NEW y \in T
      PROVE  x <= y
  <2>1. x \in Nat /\ y \in Nat
    OBVIOUS
  <2>2. ~(y < x)
    BY <1>1, <1>3, <2>1
  <2> QED BY <2>1, <2>2
<1> QED BY <1>4

\* A block is a path: a sequence of at most Depth bits.
LEMMA NodeIsSeq ==
  ASSUME NEW n \in Node
  PROVE  /\ n \in Seq({0, 1})
         /\ Len(n) \in 0..Depth
         /\ DOMAIN n = 1..Len(n)
  BY DepthAssumption DEF Node, SeqOf

\* Every sequence of at most Depth bits is a block.
LEMMA SeqIsNode ==
  ASSUME NEW n \in Seq({0, 1}), Len(n) <= Depth
  PROVE  n \in Node
<1>1. n \in [1..Len(n) -> {0, 1}] /\ Len(n) \in 0..Depth
  BY DepthAssumption
<1> QED BY <1>1 DEF Node, SeqOf

\* IsPrefix, bit by bit.
LEMMA PrefixPointwise ==
  ASSUME NEW s \in Node, NEW t \in Node
  PROVE  IsPrefix(s, t) <=> /\ Len(s) <= Len(t)
                            /\ \A i \in 1..Len(s) : s[i] = t[i]
<1>1. /\ s \in Seq({0, 1}) /\ t \in Seq({0, 1})
      /\ Len(s) \in Nat /\ Len(t) \in Nat
  BY NodeIsSeq, DepthAssumption
<1>2. SubSeq(s, 1, Len(s)) = s
  BY <1>1
<1>3. ASSUME Len(s) <= Len(t)
      PROVE  SubSeq(t, 1, Len(s)) = s <=> \A i \in 1..Len(s) : s[i] = t[i]
  <2>1. /\ SubSeq(t, 1, Len(s)) \in Seq({0, 1})
        /\ Len(SubSeq(t, 1, Len(s))) = Len(s)
        /\ \A i \in 1..Len(s) : SubSeq(t, 1, Len(s))[i] = t[i]
    BY <1>1, <1>3
  <2> QED BY <1>1, <2>1
<1> QED BY <1>2, <1>3 DEF IsPrefix

\* Blocks with the same bits are the same.
LEMMA NodeEqual ==
  ASSUME NEW s \in Node, NEW t \in Node, Len(s) = Len(t),
         \A i \in 1..Len(s) : s[i] = t[i]
  PROVE  s = t
  BY NodeIsSeq

\* A strict ancestor has a shorter path: it is the larger block.
LEMMA StrictPrefixShorter ==
  ASSUME NEW s \in Node, NEW t \in Node, IsStrictPrefix(s, t)
  PROVE  Len(s) < Len(t)
<1>1. Len(s) <= Len(t) /\ \A i \in 1..Len(s) : s[i] = t[i]
  BY PrefixPointwise DEF IsStrictPrefix
<1>2. Len(s) # Len(t)
  BY <1>1, NodeEqual DEF IsStrictPrefix
<1> QED BY <1>1, <1>2, NodeIsSeq

\* IsPrefix and IsStrictPrefix order the blocks.
LEMMA PrefixReflexive ==
  ASSUME NEW s \in Node
  PROVE  IsPrefix(s, s)
  BY PrefixPointwise, NodeIsSeq

\* An ancestor of an ancestor is an ancestor.
LEMMA PrefixTransitive ==
  ASSUME NEW s \in Node, NEW t \in Node, NEW u \in Node, IsPrefix(s, t), IsPrefix(t, u)
  PROVE  IsPrefix(s, u)
<1>1. /\ Len(s) \in Nat /\ Len(t) \in Nat /\ Len(u) \in Nat
      /\ Len(s) <= Len(t) /\ Len(t) <= Len(u)
      /\ \A i \in 1..Len(s) : s[i] = t[i]
      /\ \A i \in 1..Len(t) : t[i] = u[i]
  BY PrefixPointwise, NodeIsSeq
<1> QED BY <1>1, PrefixPointwise

\* A strict ancestor of an ancestor is a strict ancestor.
LEMMA StrictThenPrefix ==
  ASSUME NEW s \in Node, NEW t \in Node, NEW u \in Node,
         IsStrictPrefix(s, t), IsPrefix(t, u)
  PROVE  IsStrictPrefix(s, u)
<1>1. IsPrefix(s, u) /\ Len(s) < Len(t)
  BY PrefixTransitive, StrictPrefixShorter DEF IsStrictPrefix
<1>2. Len(t) <= Len(u)
  BY PrefixPointwise
<1>3. Len(s) # Len(u)
  BY <1>1, <1>2, NodeIsSeq
<1> QED BY <1>1, <1>3 DEF IsStrictPrefix

\* An ancestor of a strict ancestor is a strict ancestor.
LEMMA PrefixThenStrict ==
  ASSUME NEW s \in Node, NEW t \in Node, NEW u \in Node,
         IsPrefix(s, t), IsStrictPrefix(t, u)
  PROVE  IsStrictPrefix(s, u)
<1>1. IsPrefix(s, u) /\ Len(t) < Len(u) /\ Len(s) <= Len(t)
  BY PrefixTransitive, StrictPrefixShorter, PrefixPointwise DEF IsStrictPrefix
<1>2. Len(s) # Len(u)
  BY <1>1, NodeIsSeq
<1> QED BY <1>1, <1>2 DEF IsStrictPrefix

(***************************************************************************)
(* Two blocks on the way to the same block: one lies on the way to the     *)
(* other.                                                                  *)
(***************************************************************************)
LEMMA PrefixesComparable ==
  ASSUME NEW s \in Node, NEW t \in Node, NEW u \in Node,
         IsPrefix(s, u), IsPrefix(t, u), Len(s) <= Len(t)
  PROVE  IsPrefix(s, t)
<1>1. /\ Len(s) \in Nat /\ Len(t) \in Nat
      /\ \A i \in 1..Len(s) : s[i] = u[i]
      /\ \A i \in 1..Len(t) : t[i] = u[i]
  BY PrefixPointwise, NodeIsSeq
<1> QED BY <1>1, PrefixPointwise

(***************************************************************************)
(* Where two paths part: they agree up to some bit and differ there.       *)
(***************************************************************************)
LEMMA PathsPart ==
  ASSUME NEW s \in Node, NEW t \in Node, ~IsPrefix(s, t), ~IsPrefix(t, s)
  PROVE  \E i \in 1..Len(s) : /\ i \in 1..Len(t)
                              /\ s[i] # t[i]
                              /\ \A j \in 1..i - 1 : s[j] = t[j]
<1> DEFINE T == {i \in 1..Len(s) : i \in 1..Len(t) /\ s[i] # t[i]}
<1>1. Len(s) \in Nat /\ Len(t) \in Nat
  BY NodeIsSeq
<1>2. T # {} /\ T \subseteq Nat
  <2>1. CASE Len(s) <= Len(t)
    BY <1>1, <2>1, PrefixPointwise
  <2>2. CASE Len(t) <= Len(s)
    BY <1>1, <2>2, PrefixPointwise
  <2> QED BY <1>1, <2>1, <2>2
<1>3. PICK i \in T : \A j \in T : i <= j
  <2> HIDE DEF T
  <2> QED BY <1>2, LeastNat
<1>4. ASSUME NEW j \in 1..i - 1
      PROVE  s[j] = t[j]
  <2>1. j \in 1..Len(s) /\ j \in 1..Len(t) /\ ~(i <= j)
    BY <1>1
  <2> QED BY <2>1, <1>3
<1> QED BY <1>3, <1>4

\* Every path can be cut at any length: a block has an ancestor at each level.
LEMMA CutPath ==
  ASSUME NEW s \in Node, NEW i \in 1..Len(s)
  PROVE  \E n \in Node : /\ Len(n) = i
                         /\ \A j \in 1..i : n[j] = s[j]
                         /\ IsPrefix(n, s)
<1>1. s \in Seq({0, 1}) /\ Len(s) \in 0..Depth
  BY NodeIsSeq
<1> DEFINE n == SubSeq(s, 1, i)
<1>2. n \in Seq({0, 1}) /\ Len(n) = i /\ \A j \in 1..i : n[j] = s[j]
  BY <1>1
<1> HIDE DEF n
<1>3. n \in Node
  BY <1>1, <1>2, SeqIsNode, DepthAssumption
<1> QED BY <1>1, <1>2, <1>3, PrefixPointwise

\* The buddy of a block is a block of the same size, and another one.
LEMMA BuddyIsNode ==
  ASSUME NEW n \in Node, n # Root
  PROVE  /\ Buddy(n) \in Node
         /\ Len(Buddy(n)) = Len(n)
         /\ Len(n) \in 1..Len(n)
         /\ Buddy(n)[Len(n)] = 1 - n[Len(n)]
         /\ \A j \in 1..Len(n) - 1 : Buddy(n)[j] = n[j]
<1>1. n \in Seq({0, 1}) /\ Len(n) \in 1..Depth
  BY NodeIsSeq DEF Root
<1>2. Buddy(n) \in Seq({0, 1}) /\ Len(Buddy(n)) = Len(n)
  BY <1>1 DEF Buddy
<1>3. Buddy(n) \in Node
  BY <1>1, <1>2, SeqIsNode, DepthAssumption
<1>4. Len(n) \in DOMAIN n /\ \A j \in 1..Len(n) - 1 : j \in DOMAIN n /\ j # Len(n)
  BY <1>1
<1>5. Buddy(n)[Len(n)] = 1 - n[Len(n)] /\ \A j \in 1..Len(n) - 1 : Buddy(n)[j] = n[j]
  BY <1>4 DEF Buddy
<1> QED BY <1>1, <1>2, <1>3, <1>5

(***************************************************************************)
(* Below a common ancestor, two blocks that do not contain each other hang *)
(* from buddies.                                                           *)
(***************************************************************************)
LEMMA BuddiesPart ==
  ASSUME NEW a \in Node, NEW s \in Node, NEW t \in Node,
         IsPrefix(a, s), IsPrefix(a, t), ~IsPrefix(s, t), ~IsPrefix(t, s)
  PROVE  \E n \in Node : /\ IsStrictPrefix(a, n)
                         /\ IsPrefix(n, s)
                         /\ Buddy(n) \in Node
                         /\ IsPrefix(Buddy(n), t)
<1>1. /\ Len(a) \in Nat /\ Len(s) \in Nat /\ Len(t) \in Nat
      /\ Len(a) <= Len(s) /\ Len(a) <= Len(t)
      /\ \A j \in 1..Len(a) : a[j] = s[j] /\ a[j] = t[j]
  BY NodeIsSeq, PrefixPointwise
<1>2. PICK i \in 1..Len(s) : /\ i \in 1..Len(t)
                             /\ s[i] # t[i]
                             /\ \A j \in 1..i - 1 : s[j] = t[j]
  BY PathsPart
<1>3. Len(a) < i
  BY <1>1, <1>2
<1>4. PICK n \in Node : /\ Len(n) = i
                        /\ \A j \in 1..i : n[j] = s[j]
                        /\ IsPrefix(n, s)
  BY CutPath
<1>5. IsStrictPrefix(a, n)
  <2>1. IsPrefix(a, n)
    BY <1>1, <1>3, <1>4, PrefixPointwise
  <2> QED BY <2>1, <1>1, <1>3, <1>4 DEF IsStrictPrefix
<1>6. n # Root
  BY <1>4 DEF Root
<1>7. s[i] \in {0, 1} /\ t[i] \in {0, 1}
  BY <1>2, NodeIsSeq
<1>8. \A j \in 1..i : Buddy(n)[j] = t[j]
  <2>1. Buddy(n)[i] = t[i]
    BY <1>2, <1>4, <1>6, <1>7, BuddyIsNode
  <2>2. \A j \in 1..i - 1 : Buddy(n)[j] = t[j]
    BY <1>2, <1>4, <1>6, BuddyIsNode
  <2> QED BY <2>1, <2>2, <1>1
<1>9. Buddy(n) \in Node /\ IsPrefix(Buddy(n), t)
  BY <1>1, <1>2, <1>4, <1>6, <1>8, BuddyIsNode, PrefixPointwise
<1> QED BY <1>4, <1>5, <1>9
--------------------------------------------------------------------------------
\* The search visits two different blocks of one level one after the other.
LEMMA BeforeOrEqual ==
  ASSUME NEW s \in Node, NEW t \in Node, Len(s) = Len(t), ~Before(s, t), ~Before(t, s)
  PROVE  s = t
<1> SUFFICES ASSUME s # t PROVE FALSE
  OBVIOUS
<1>1. Len(s) \in Nat /\ DOMAIN s = 1..Len(s) /\ DOMAIN t = 1..Len(s)
  BY NodeIsSeq
<1>2. ~IsPrefix(s, t) /\ ~IsPrefix(t, s)
  BY <1>1, PrefixPointwise, NodeEqual
<1>3. PICK i \in 1..Len(s) : s[i] # t[i] /\ \A j \in 1..i - 1 : s[j] = t[j]
  BY <1>2, PathsPart
<1>4. s[i] \in {0, 1} /\ t[i] \in {0, 1}
  BY <1>1, NodeIsSeq
<1>5. s[i] < t[i] \/ t[i] < s[i]
  BY <1>3, <1>4
<1> QED BY <1>1, <1>3, <1>5 DEF Before

\* The search reaches a block only through its ancestors: Visited is closed
\* under them.
LEMMA PrefixOfVisited ==
  ASSUME NEW m, IsTree(m), NEW level \in Int,
         NEW n \in Visited(m, level), NEW a \in Node, IsPrefix(a, n), a # Root
  PROVE  a \in Visited(m, level)
<1>1. n \in Node /\ n # Root
  BY DEF Visited
<1>2. Reached(m, a)
  BY <1>1, StrictThenPrefix DEF Visited, Reached, IsTree
<1>3. Len(a) <= level \/ (Len(a) = level + 1 /\ ~Fits(m, Front(a), level))
  <2>1. CASE a = n
    BY <2>1 DEF Visited
  <2>2. CASE a # n
    <3>1. Len(a) < Len(n)
      BY <1>1, <2>2, StrictPrefixShorter DEF IsStrictPrefix
    <3>2. Len(n) <= level + 1
      BY <1>1, NodeIsSeq DEF Visited
    <3> QED BY <1>1, <3>1, <3>2, NodeIsSeq
  <2> QED BY <2>1, <2>2
<1>4. ASSUME NEW f \in Found(m, level)
      PROVE  IsPrefix(a, f) \/ Before(a, f)
  <2>1. f \in Node
    BY DEF Found, Candidates
  <2>2. CASE IsPrefix(n, f)
    BY <1>1, <2>1, <2>2, PrefixTransitive
  <2>3. CASE Before(n, f)
    <3>1. PICK i \in DOMAIN n \cap DOMAIN f :
                 n[i] < f[i] /\ \A j \in 1..i - 1 : n[j] = f[j]
      BY <2>3 DEF Before
    <3>2. /\ Len(a) \in Nat /\ Len(n) \in Nat /\ Len(f) \in Nat
          /\ DOMAIN a = 1..Len(a) /\ i \in 1..Len(n) /\ i \in 1..Len(f)
          /\ Len(a) <= Len(n) /\ \A j \in 1..Len(a) : a[j] = n[j]
      BY <1>1, <2>1, NodeIsSeq, PrefixPointwise
    <3>3. CASE i <= Len(a)
      <4>1. i \in DOMAIN a \cap DOMAIN f /\ a[i] < f[i]
        BY <3>1, <3>2, <3>3
      <4>2. \A j \in 1..i - 1 : a[j] = f[j]
        BY <3>1, <3>2, <3>3
      <4> QED BY <4>1, <4>2 DEF Before
    <3>4. CASE Len(a) < i
      <4>1. Len(a) <= Len(f) /\ \A j \in 1..Len(a) : j \in 1..i - 1
        BY <3>2, <3>4
      <4>2. \A j \in 1..Len(a) : a[j] = f[j]
        BY <3>1, <3>2, <4>1
      <4> QED BY <2>1, <4>1, <4>2, PrefixPointwise
    <3> QED BY <3>2, <3>3, <3>4
  <2> QED BY <2>2, <2>3 DEF Visited
<1> QED BY <1>2, <1>3, <1>4 DEF Visited

(***************************************************************************)
(* A search leaves a tree, and touches no block that was there.            *)
(***************************************************************************)
LEMMA SearchKeepsTree ==
  ASSUME NEW m, IsTree(m), NEW level \in Int
  PROVE  LET t == traverse_MemorySegment(m, level) IN
         /\ IsTree(t)
         /\ DOMAIN m \subseteq DOMAIN t
         /\ \A n \in DOMAIN m : t[n] = m[n]
         /\ \A n \in DOMAIN t \ DOMAIN m : t[n] = FreeBlock
<1> DEFINE t == traverse_MemorySegment(m, level)
<1>1. DOMAIN t = DOMAIN m \cup Visited(m, level)
  BY DEF traverse_MemorySegment
<1>2. \A n \in DOMAIN t : t[n] = IF n \in DOMAIN m THEN m[n] ELSE FreeBlock
  BY <1>1 DEF traverse_MemorySegment
<1>3. DOMAIN t \subseteq Node
  BY <1>1 DEF Visited, IsTree
<1>4. FreeBlock \in Block
  BY DEF FreeBlock, Block
<1>5. t \in [DOMAIN t -> Block]
  <2>1. \A n \in DOMAIN m : m[n] \in Block
    BY DEF IsTree
  <2>2. \A n \in DOMAIN t : t[n] \in Block
    BY <1>2, <1>4, <2>1
  <2>3. t = [n \in DOMAIN t |-> t[n]]
    BY DEF traverse_MemorySegment
  <2> QED BY <2>2, <2>3
<1>6. ASSUME NEW n \in DOMAIN t, NEW a \in Node, IsPrefix(a, n)
      PROVE  a \in DOMAIN t
  BY <1>1, <1>6, PrefixOfVisited DEF IsTree
<1>7. Root \in DOMAIN t
  BY <1>1 DEF IsTree
<1>8. IsTree(t)
  BY <1>3, <1>5, <1>6, <1>7 DEF IsTree
<1> HIDE DEF t
<1> QED BY <1>1, <1>2, <1>8 DEF t

\* What traverse_MemorySegment returns is linked after the search, has the
\* level asked for, and is free as far as the search can see.
LEMMA FoundIsLinked ==
  ASSUME NEW m, IsTree(m), NEW level \in Int, NEW n \in Found(m, level)
  PROVE  /\ n \in DOMAIN traverse_MemorySegment(m, level)
         /\ n \in Node
         /\ Len(n) = level
         /\ Reached(m, n)
         /\ ~HasPid(m, n)
         /\ ~get_used_space(m, n)
<1>1. n \in Node /\ Reached(m, n) /\ Fits(m, n, level)
  BY DEF Found, Candidates
<1>2. ASSUME NEW f \in Found(m, level)
      PROVE  IsPrefix(n, f)
  <2>1. f \in Node /\ Fits(m, f, level)
    BY DEF Found, Candidates
  <2>2. Len(n) = Len(f) /\ ~Before(n, f) /\ ~Before(f, n)
    BY <1>1, <2>1 DEF Found, Fits
  <2>3. n = f
    BY <1>1, <2>1, <2>2, BeforeOrEqual
  <2> QED BY <1>1, <2>3, PrefixReflexive
<1>3. n = Root \/ n \in Visited(m, level)
  BY <1>1, <1>2 DEF Visited, Fits
<1> QED BY <1>1, <1>3 DEF traverse_MemorySegment, IsTree, Fits

(***************************************************************************)
(* A merge leaves a tree, and touches no block that it does not unlink.    *)
(***************************************************************************)
LEMMA MergeKeepsTree ==
  ASSUME NEW m, IsTree(m), NEW b \in DOMAIN m
  PROVE  LET t == merge_buddy_blocks(m, b) IN
         /\ IsTree(t)
         /\ DOMAIN t \subseteq DOMAIN m
         /\ \A n \in DOMAIN t : t[n] = m[n]
<1> DEFINE t == merge_buddy_blocks(m, b)
<1>1. DOMAIN t = {x \in DOMAIN m : \A a \in MergedInto(m, b) : ~IsStrictPrefix(a, x)}
  BY DEF merge_buddy_blocks, Restrict
<1>2. \A n \in DOMAIN t : t[n] = m[n]
  BY <1>1 DEF merge_buddy_blocks, Restrict
<1>3. t \in [DOMAIN t -> Block]
  BY <1>1, <1>2 DEF merge_buddy_blocks, Restrict, IsTree
<1>4. MergedInto(m, b) \subseteq Node
  BY DEF MergedInto, IsTree
<1>5. Root \in DOMAIN t
  <2>1. Root \in Node /\ Len(Root) = 0
    BY DEF IsTree, Root
  <2>2. \A a \in MergedInto(m, b) : ~IsStrictPrefix(a, Root)
    BY <1>4, <2>1, StrictPrefixShorter, NodeIsSeq
  <2> QED BY <1>1, <2>2 DEF IsTree
<1>6. ASSUME NEW n \in DOMAIN t, NEW x \in Node, IsPrefix(x, n)
      PROVE  x \in DOMAIN t
  <2>1. n \in Node /\ x \in DOMAIN m
    BY <1>1, <1>6 DEF IsTree
  <2>2. \A a \in MergedInto(m, b) : IsStrictPrefix(a, x) => IsStrictPrefix(a, n)
    BY <1>4, <1>6, <2>1, StrictThenPrefix
  <2> QED BY <1>1, <2>1, <2>2
<1>7. DOMAIN t \subseteq DOMAIN m /\ DOMAIN m \subseteq Node
  BY <1>1 DEF IsTree
<1>8. IsTree(t)
  BY <1>3, <1>5, <1>6, <1>7 DEF IsTree
<1> HIDE DEF t
<1> QED BY <1>2, <1>7, <1>8 DEF t
--------------------------------------------------------------------------------
\* highestPowerOf2 rounds up: the request fits into a block of its level.
LEMMA LevelType ==
  ASSUME NEW s \in Sizes
  PROVE  /\ BlockLevel(s) \in Int
         /\ BlockLevel(s) >= 0 => s <= 2 ^ (Depth - BlockLevel(s))
<1>1. CASE s <= 2 ^ Depth
  <2> DEFINE T == {k \in 0..Depth : s <= 2 ^ k}
  <2>1. Depth \in T /\ T \subseteq Nat
    BY <1>1, DepthAssumption
  <2>2. PICK k \in T : \A j \in T : k <= j
    <3> HIDE DEF T
    <3> QED BY <2>1, LeastNat
  <2>3. k \in 0..Depth /\ s <= 2 ^ k /\ \A j \in 0..k - 1 : ~(s <= 2 ^ j)
    <3>1. \A j \in 0..k - 1 : j \in 0..Depth /\ ~(k <= j)
      BY DepthAssumption
    <3> QED BY <2>2, <3>1
  <2>4. Order(s) \in 0..Depth /\ s <= 2 ^ Order(s)
    BY <2>3 DEF Order
  <2>5. BlockLevel(s) = Depth - Order(s)
    BY <1>1 DEF BlockLevel
  <2>6. Depth - BlockLevel(s) = Order(s)
    BY <2>4, <2>5, DepthAssumption
  <2> QED BY <2>4, <2>5, <2>6, DepthAssumption
<1>2. CASE ~(s <= 2 ^ Depth)
  BY <1>2 DEF BlockLevel
<1> QED BY <1>1, <1>2

\* A fresh memory segment is a tree.
LEMMA TypeInit == Init => TypeOK
<1> SUFFICES ASSUME Init PROVE TypeOK
  OBVIOUS
<1>1. DOMAIN mem = {Root} /\ mem[Root] = FreeBlock /\ mem = [n \in DOMAIN mem |-> mem[n]]
  BY DEF Init
<1>2. Root \in Seq({0, 1}) /\ Len(Root) = 0 /\ Len(Root) <= Depth
  BY DepthAssumption DEF Root
<1>3. Root \in Node
  BY <1>2, SeqIsNode
<1>4. \A a \in Node : IsPrefix(a, Root) => a = Root
  BY <1>2, <1>3, StrictPrefixShorter, NodeIsSeq DEF IsStrictPrefix
<1>5. mem \in [DOMAIN mem -> Block]
  BY <1>1 DEF FreeBlock, Block
<1>6. IsTree(mem)
  BY <1>1, <1>3, <1>4, <1>5 DEF IsTree
<1> QED BY <1>6 DEF Init, TypeOK

\* Changing the fields of blocks keeps the tree.
LEMMA SameShapeIsTree ==
  ASSUME NEW m, IsTree(m), NEW t, DOMAIN t = DOMAIN m, t \in [DOMAIN t -> Block]
  PROVE  IsTree(t)
  BY DEF IsTree

(***************************************************************************)
(* What each action does to the tree, in the terms the invariants use.     *)
(***************************************************************************)
LEMMA AllocateStep ==
  ASSUME TypeOK, NEW p \in Proc, NEW size \in Sizes, AllocateMemory(p, size)
  PROVE  \E n \in DOMAIN mem' :
           /\ IsTree(mem')
           /\ Len(n) = BlockLevel(size)
           /\ Reached(mem, n) /\ ~HasPid(mem, n) /\ ~get_used_space(mem, n)
           /\ mem'[n].id_from_file = p /\ mem'[n].process_pid = None
           /\ mem'[n].allocated = size
           /\ DOMAIN mem \subseteq DOMAIN mem'
           /\ \A x \in DOMAIN mem : x # n => mem'[x] = mem[x]
           /\ \A x \in DOMAIN mem' \ DOMAIN mem : x # n => mem'[x] = FreeBlock
<1>1. IsTree(mem) /\ BlockLevel(size) \in Int
  BY LevelType DEF TypeOK
<1> DEFINE t == traverse_MemorySegment(mem, BlockLevel(size))
<1>2. PICK n \in Found(mem, BlockLevel(size)) :
        mem' = [t EXCEPT ![n].id_from_file = p, ![n].allocated = size]
  BY DEF AllocateMemory
<1>3. /\ IsTree(t)
      /\ DOMAIN mem \subseteq DOMAIN t
      /\ \A x \in DOMAIN mem : t[x] = mem[x]
      /\ \A x \in DOMAIN t \ DOMAIN mem : t[x] = FreeBlock
  BY <1>1, SearchKeepsTree
<1>4. /\ n \in DOMAIN t /\ Len(n) = BlockLevel(size)
      /\ Reached(mem, n) /\ ~HasPid(mem, n) /\ ~get_used_space(mem, n)
  BY <1>1, FoundIsLinked
<1> HIDE DEF t
<1>5. t \in [DOMAIN t -> Block] /\ size \in Nat
  BY <1>3, SizesAssumption DEF IsTree
<1>6. DOMAIN mem' = DOMAIN t /\ \A x \in DOMAIN t : x # n => mem'[x] = t[x]
  BY <1>2
<1>7. mem'[n] = [t[n] EXCEPT !.id_from_file = p, !.allocated = size]
  BY <1>2, <1>4
<1>8. t[n] \in Block /\ t[n].process_pid = None
  BY <1>3, <1>4, <1>5 DEF HasPid, FreeBlock
<1>9. mem'[n] = [process_pid |-> None, id_from_file |-> p, allocated |-> size]
  BY <1>7, <1>8 DEF Block
<1>10. mem' \in [DOMAIN mem' -> Block]
  <2>1. mem'[n] \in Block
    BY <1>5, <1>9 DEF Block
  <2>2. \A x \in DOMAIN mem' : mem'[x] \in Block
    BY <1>5, <1>6, <2>1
  <2>3. mem' = [x \in DOMAIN mem' |-> mem'[x]]
    BY <1>2
  <2> QED BY <2>2, <2>3
<1>11. IsTree(mem')
  BY <1>3, <1>6, <1>10, SameShapeIsTree
<1> QED BY <1>3, <1>4, <1>6, <1>9, <1>11

\* update_id changes nothing but the pid of the blocks of one process.
LEMMA UpdateIdStep ==
  ASSUME TypeOK, NEW p \in Proc, UpdateId(p)
  PROVE  /\ IsTree(mem')
         /\ DOMAIN mem' = DOMAIN mem
         /\ \A x \in DOMAIN mem :
              /\ mem'[x].id_from_file = mem[x].id_from_file
              /\ mem'[x].allocated = mem[x].allocated
              /\ mem[x].id_from_file = p => mem'[x].process_pid = p
              /\ mem[x].id_from_file # p => mem'[x] = mem[x]
<1>1. mem' = [n \in DOMAIN mem |->
                IF n \in BlocksOfId(mem, p) THEN [mem[n] EXCEPT !.process_pid = p]
                                            ELSE mem[n]]
  BY DEF UpdateId
<1>2. \A x \in DOMAIN mem : mem[x] \in Block
  BY DEF TypeOK, IsTree
<1>3. \A x \in DOMAIN mem :
         mem'[x] = IF mem[x].id_from_file = p THEN [mem[x] EXCEPT !.process_pid = p]
                                              ELSE mem[x]
  BY <1>1 DEF BlocksOfId
<1>4. \A x \in DOMAIN mem :
        /\ mem'[x] \in Block
        /\ mem'[x].id_from_file = mem[x].id_from_file
        /\ mem'[x].allocated = mem[x].allocated
        /\ mem[x].id_from_file = p => mem'[x].process_pid = p
        /\ mem[x].id_from_file # p => mem'[x] = mem[x]
  BY <1>2, <1>3 DEF Block
<1>5. DOMAIN mem' = DOMAIN mem
  BY <1>1
<1>6. mem' \in [DOMAIN mem' -> Block]
  <2>1. mem' = [x \in DOMAIN mem' |-> mem'[x]]
    BY <1>1
  <2> QED BY <1>4, <1>5, <2>1
<1> QED BY <1>4, <1>5, <1>6, SameShapeIsTree DEF TypeOK

\* Freeing a block before any merge.
Freed(n) == [mem EXCEPT ![n] = Released(@)]

\* Resetting the fields of one block keeps the tree and the other blocks.
LEMMA FreedStep ==
  ASSUME TypeOK, NEW n \in DOMAIN mem
  PROVE  /\ IsTree(Freed(n))
         /\ DOMAIN Freed(n) = DOMAIN mem
         /\ Freed(n)[n] = FreeBlock
         /\ \A x \in DOMAIN mem : x # n => Freed(n)[x] = mem[x]
<1>1. mem \in [DOMAIN mem -> Block] /\ FreeBlock \in Block
  BY DEF TypeOK, IsTree, FreeBlock, Block
<1>2. Freed(n) \in [DOMAIN mem -> Block]
  BY <1>1 DEF Freed, Released
<1>3. /\ DOMAIN Freed(n) = DOMAIN mem
      /\ Freed(n)[n] = FreeBlock
      /\ \A x \in DOMAIN mem : x # n => Freed(n)[x] = mem[x]
  BY <1>1 DEF Freed, Released
<1> QED BY <1>2, <1>3, SameShapeIsTree DEF TypeOK

\* The two outcomes of deallocate_memory.
FreesBlock(p) == DeallocateMemory(p) /\ BlocksOfPid(mem, p) # {}
FreesNothing(p) == DeallocateMemory(p) /\ BlocksOfPid(mem, p) = {}

\* deallocate_memory frees a block with the pid and merges from there: blocks
\* may go, and those that stay are as they were.
LEMMA DeallocateStep ==
  ASSUME TypeOK, NEW p \in Proc, FreesBlock(p)
  PROVE  \E n \in DOMAIN mem :
           /\ mem[n].process_pid = p
           /\ mem' = merge_buddy_blocks(Freed(n), n)
           /\ IsTree(mem')
           /\ DOMAIN mem' \subseteq DOMAIN mem
           /\ \A x \in DOMAIN mem' :
                mem'[x] = IF x = n THEN FreeBlock ELSE mem[x]
<1>1. PICK n \in DOMAIN mem : /\ mem[n].process_pid = p
                              /\ mem' = merge_buddy_blocks(Freed(n), n)
  BY DEF FreesBlock, DeallocateMemory, BlocksOfPid, Freed
<1>2. /\ IsTree(Freed(n))
      /\ DOMAIN Freed(n) = DOMAIN mem
      /\ Freed(n)[n] = FreeBlock
      /\ \A x \in DOMAIN mem : x # n => Freed(n)[x] = mem[x]
  BY FreedStep
<1>3. /\ IsTree(mem')
      /\ DOMAIN mem' \subseteq DOMAIN mem
      /\ \A x \in DOMAIN mem' : mem'[x] = Freed(n)[x]
  BY <1>1, <1>2, MergeKeepsTree
<1> QED BY <1>1, <1>2, <1>3

\* Every step keeps the tree.
LEMMA TypeStep ==
  ASSUME TypeOK, [Next]_vars
  PROVE  TypeOK'
<1>1. ASSUME NEW p \in Proc, NEW size \in Sizes, AllocateMemory(p, size)
      PROVE  TypeOK'
  BY <1>1, AllocateStep DEF TypeOK, AllocateMemory
<1>2. ASSUME NEW p \in Proc, NEW size \in Sizes, AllocateFails(p, size)
      PROVE  TypeOK'
  BY <1>2, SearchKeepsTree, LevelType DEF TypeOK, AllocateFails
<1>3. ASSUME NEW p \in Proc, UpdateId(p)
      PROVE  TypeOK'
  BY <1>3, UpdateIdStep DEF TypeOK, UpdateId
<1>4. ASSUME NEW p \in Proc, FreesBlock(p)
      PROVE  TypeOK'
  BY <1>4, DeallocateStep DEF TypeOK, FreesBlock, DeallocateMemory
<1>5. ASSUME NEW p \in Proc, FreesNothing(p)
      PROVE  TypeOK'
  BY <1>5 DEF TypeOK, FreesNothing, DeallocateMemory, IsTree
<1>6. CASE UNCHANGED vars
  BY <1>6 DEF TypeOK, vars, IsTree
<1> QED BY <1>1, <1>2, <1>3, <1>4, <1>5, <1>6 DEF Next, FreesBlock, FreesNothing

(***************************************************************************)
(* Splitting and merging keep the tree a tree, for every memory size, set  *)
(* of requests and interleaving of the handler with the main loop.         *)
(***************************************************************************)
THEOREM TypeCorrect == Spec => []TypeOK
  BY TypeInit, TypeStep, PTL DEF Spec
--------------------------------------------------------------------------------
(***************************************************************************)
(* Ownership of the blocks, for any sizes.  It needs that no two blocks    *)
(* have the same owner, or freeing one would leave the other behind, and   *)
(* that a block without an owner has no pid left.                          *)
(***************************************************************************)
OneBlockEach ==
  \A x, y \in Live(mem) : mem[x].id_from_file = mem[y].id_from_file => x = y

UnownedAreFree == \A x \in DOMAIN mem : x \notin Live(mem) => mem[x] = FreeBlock

OwnersInv == TypeOK /\ BlocksHaveOwners /\ OneBlockEach /\ UnownedAreFree

\* No block has an owner at first.
LEMMA OwnersInit == Init => OwnersInv
<1> SUFFICES ASSUME Init PROVE OwnersInv
  OBVIOUS
<1>1. DOMAIN mem = {Root} /\ mem[Root] = FreeBlock
  BY DEF Init
<1>2. Live(mem) = {}
  BY <1>1 DEF Live, FreeBlock
<1> QED BY <1>1, <1>2, TypeInit
        DEF OwnersInv, BlocksHaveOwners, OneBlockEach, UnownedAreFree

\* The owner of a block, when the block is live.
LEMMA OwnerOfLive ==
  ASSUME OwnersInv, NEW x \in Live(mem)
  PROVE  /\ x \in DOMAIN mem
         /\ mem[x].id_from_file \in Proc
         /\ \/ mem[x].id_from_file \in resident /\ mem[x].process_pid = mem[x].id_from_file
            \/ mem[x].id_from_file = booked /\ mem[x].process_pid = None
<1>1. x \in DOMAIN mem /\ mem[x] \in Block /\ mem[x].id_from_file # None
  BY DEF OwnersInv, TypeOK, IsTree, Live
<1> QED BY <1>1 DEF OwnersInv, BlocksHaveOwners, Block

\* Booking a block: the owner is new, so it has no other block.
LEMMA OwnersAllocate ==
  ASSUME OwnersInv, NEW p \in Proc, NEW size \in Sizes, AllocateMemory(p, size)
  PROVE  OwnersInv'
<1>1. PICK n \in DOMAIN mem' :
        /\ ~HasPid(mem, n)
        /\ mem'[n].id_from_file = p /\ mem'[n].process_pid = None
        /\ DOMAIN mem \subseteq DOMAIN mem'
        /\ \A x \in DOMAIN mem : x # n => mem'[x] = mem[x]
        /\ \A x \in DOMAIN mem' \ DOMAIN mem : x # n => mem'[x] = FreeBlock
  BY AllocateStep DEF OwnersInv
<1>2. booked = None /\ p \notin resident /\ booked' = p /\ resident' = resident
  BY DEF AllocateMemory
<1>3. TypeOK'
  BY TypeStep DEF Next, OwnersInv
<1>4. ASSUME NEW x \in Live(mem'), x # n
      PROVE  /\ x \in Live(mem) /\ mem'[x] = mem[x]
             /\ mem[x].id_from_file \in resident
             /\ mem[x].process_pid = mem[x].id_from_file
  <2>1. x \in DOMAIN mem' /\ mem'[x].id_from_file # None
    BY DEF Live
  <2>2. mem'[x] # FreeBlock
    BY <2>1 DEF FreeBlock
  <2>3. x \in DOMAIN mem /\ mem'[x] = mem[x]
    BY <1>1, <1>4, <2>1, <2>2
  <2>4. x \in Live(mem)
    BY <2>1, <2>3 DEF Live
  <2> QED BY <1>2, <2>3, <2>4, OwnerOfLive, NoneAssumption
<1>5. BlocksHaveOwners'
  BY <1>1, <1>2, <1>4 DEF BlocksHaveOwners
<1>6. OneBlockEach'
  BY <1>1, <1>2, <1>4 DEF OneBlockEach, OwnersInv
<1>7. UnownedAreFree'
  <2>1. n \in Live(mem')
    BY <1>1, NoneAssumption DEF Live
  <2>2. ASSUME NEW x \in DOMAIN mem', x \notin Live(mem')
        PROVE  mem'[x] = FreeBlock
    <3>1. x # n
      BY <2>1, <2>2
    <3>2. CASE x \in DOMAIN mem
      BY <1>1, <2>2, <3>1, <3>2 DEF Live, UnownedAreFree, OwnersInv
    <3> QED BY <1>1, <3>1, <3>2
  <2> QED BY <2>2 DEF UnownedAreFree
<1> QED BY <1>3, <1>5, <1>6, <1>7 DEF OwnersInv

\* A failed search only adds free blocks.
LEMMA OwnersAllocateFails ==
  ASSUME OwnersInv, NEW p \in Proc, NEW size \in Sizes, AllocateFails(p, size)
  PROVE  OwnersInv'
<1>1. TypeOK'
  BY TypeStep DEF Next, OwnersInv
<1>2. /\ DOMAIN mem \subseteq DOMAIN mem'
      /\ \A x \in DOMAIN mem : mem'[x] = mem[x]
      /\ \A x \in DOMAIN mem' \ DOMAIN mem : mem'[x] = FreeBlock
  BY SearchKeepsTree, LevelType DEF AllocateFails, OwnersInv, TypeOK
<1>3. booked' = booked /\ resident' = resident
  BY DEF AllocateFails
<1>4. Live(mem') = Live(mem)
  BY <1>2 DEF Live, FreeBlock
<1>5. Live(mem) \subseteq DOMAIN mem
  BY DEF Live
<1>6. BlocksHaveOwners' /\ OneBlockEach'
  BY <1>2, <1>3, <1>4, <1>5 DEF BlocksHaveOwners, OneBlockEach, OwnersInv
<1>7. UnownedAreFree'
  BY <1>2, <1>4 DEF UnownedAreFree, OwnersInv
<1> QED BY <1>1, <1>6, <1>7 DEF OwnersInv

\* update_id turns the booked block into that of a resident process.
LEMMA OwnersUpdateId ==
  ASSUME OwnersInv, NEW p \in Proc, UpdateId(p)
  PROVE  OwnersInv'
<1>1. TypeOK'
  BY TypeStep DEF Next, OwnersInv
<1>2. /\ DOMAIN mem' = DOMAIN mem
      /\ \A x \in DOMAIN mem :
           /\ mem'[x].id_from_file = mem[x].id_from_file
           /\ mem[x].id_from_file = p => mem'[x].process_pid = p
           /\ mem[x].id_from_file # p => mem'[x] = mem[x]
  BY UpdateIdStep DEF OwnersInv
<1>3. booked = p /\ booked' = None /\ resident' = resident \cup {p} /\ p # None
  BY NoneAssumption DEF UpdateId
<1>4. Live(mem') = Live(mem) /\ Live(mem) \subseteq DOMAIN mem
  BY <1>2 DEF Live
<1>5. ASSUME NEW x \in Live(mem)
      PROVE  mem'[x].id_from_file \in resident' /\ mem'[x].process_pid = mem'[x].id_from_file
  <2>1. CASE mem[x].id_from_file = p
    BY <1>2, <1>3, <1>4, <2>1
  <2>2. CASE mem[x].id_from_file # p
    BY <1>2, <1>3, <1>4, <2>2, OwnerOfLive
  <2> QED BY <2>1, <2>2
<1>6. BlocksHaveOwners'
  BY <1>4, <1>5 DEF BlocksHaveOwners
<1>7. OneBlockEach'
  BY <1>2, <1>4 DEF OneBlockEach, OwnersInv
<1>8. UnownedAreFree'
  <2>1. ASSUME NEW x \in DOMAIN mem, x \notin Live(mem)
        PROVE  mem'[x] = FreeBlock
    BY <1>2, <1>3, <2>1 DEF UnownedAreFree, OwnersInv, Live
  <2> QED BY <1>2, <1>4, <2>1 DEF UnownedAreFree
<1> QED BY <1>1, <1>6, <1>7, <1>8 DEF OwnersInv

\* Freeing leaves no block to the process that is gone; merging gives none to
\* anyone.
LEMMA OwnersDeallocate ==
  ASSUME OwnersInv, NEW p \in Proc, FreesBlock(p)
  PROVE  OwnersInv'
<1>1. TypeOK'
  BY TypeStep DEF Next, OwnersInv, FreesBlock
<1>2. PICK n \in DOMAIN mem :
        /\ mem[n].process_pid = p
        /\ DOMAIN mem' \subseteq DOMAIN mem
        /\ \A x \in DOMAIN mem' : mem'[x] = IF x = n THEN FreeBlock ELSE mem[x]
  BY DeallocateStep DEF OwnersInv
<1>3. booked' = booked /\ resident' = resident \ {p} /\ p # None
  BY NoneAssumption DEF FreesBlock, DeallocateMemory
<1>4. n \in Live(mem) /\ mem[n].id_from_file = p
  <2>1. mem[n] # FreeBlock
    BY <1>2, <1>3 DEF FreeBlock
  <2>2. n \in Live(mem)
    BY <2>1 DEF UnownedAreFree, OwnersInv
  <2> QED BY <1>2, <1>3, <2>2, OwnerOfLive
<1>5. ASSUME NEW x \in Live(mem')
      PROVE  x # n /\ x \in Live(mem) /\ mem'[x] = mem[x]
  BY <1>2 DEF Live, FreeBlock
<1>6. ASSUME NEW x \in Live(mem')
      PROVE  mem[x].id_from_file # p
  BY <1>4, <1>5 DEF OneBlockEach, OwnersInv
<1>7. BlocksHaveOwners'
  <2>1. ASSUME NEW x \in Live(mem')
        PROVE  \/ mem'[x].id_from_file \in resident'
                    /\ mem'[x].process_pid = mem'[x].id_from_file
               \/ mem'[x].id_from_file = booked' /\ mem'[x].process_pid = None
    BY <1>3, <1>5, <1>6, OwnerOfLive
  <2> QED BY <2>1 DEF BlocksHaveOwners
<1>8. OneBlockEach'
  BY <1>5 DEF OneBlockEach, OwnersInv
<1>9. UnownedAreFree'
  BY <1>2 DEF UnownedAreFree, OwnersInv, Live
<1> QED BY <1>1, <1>7, <1>8, <1>9 DEF OwnersInv

\* Every step preserves the ownership invariant.
LEMMA OwnersStep ==
  ASSUME OwnersInv, [Next]_vars
  PROVE  OwnersInv'
<1>1. ASSUME NEW p \in Proc, FreesNothing(p)
      PROVE  OwnersInv'
  <2>1. /\ TypeOK' /\ mem' = mem /\ booked' = booked /\ resident' = resident \ {p}
        /\ BlocksOfPid(mem, p) = {} /\ p # None
    BY <1>1, TypeStep, NoneAssumption DEF Next, OwnersInv, FreesNothing, DeallocateMemory
  <2>2. \A x \in Live(mem) : mem[x].process_pid # p
    BY <2>1 DEF BlocksOfPid, Live
  <2>3. BlocksHaveOwners'
    <3>1. \A x \in Live(mem) :
            \/ mem[x].id_from_file \in resident' /\ mem[x].process_pid = mem[x].id_from_file
            \/ mem[x].id_from_file = booked' /\ mem[x].process_pid = None
      BY <2>1, <2>2, OwnerOfLive
    <3> QED BY <2>1, <3>1 DEF BlocksHaveOwners
  <2>4. OneBlockEach' /\ UnownedAreFree'
    BY <2>1 DEF OneBlockEach, UnownedAreFree, OwnersInv, Live
  <2> QED BY <2>1, <2>3, <2>4 DEF OwnersInv
<1>2. CASE UNCHANGED vars
  <2>1. mem' = mem /\ booked' = booked /\ resident' = resident /\ TypeOK'
    BY <1>2, TypeStep DEF vars, OwnersInv
  <2> QED BY <2>1
          DEF OwnersInv, BlocksHaveOwners, OneBlockEach, UnownedAreFree, Live
<1> QED BY <1>1, <1>2, OwnersAllocate, OwnersAllocateFails, OwnersUpdateId,
           OwnersDeallocate DEF Next, FreesBlock, FreesNothing

(***************************************************************************)
(* No block is leaked, whatever the sizes: a block is marked as allocated  *)
(* only for a process that the main loop is creating or that the handler   *)
(* still has to reap.                                                      *)
(***************************************************************************)
THEOREM OwnersCorrect == Spec => []BlocksHaveOwners
<1>1. OwnersInv => BlocksHaveOwners
  BY DEF OwnersInv
<1> QED BY <1>1, OwnersInit, OwnersStep, PTL DEF Spec
--------------------------------------------------------------------------------
(***************************************************************************)
(* The search: among the candidates of one level, one comes first, since   *)
(* the lexicographic order of paths of the same length is well-founded.    *)
(***************************************************************************)
LeftOf == {<<0, 1>>}

LEMMA BitsWellFounded == IsWellFoundedOn(LeftOf, {0, 1})
<1> SUFFICES ASSUME NEW f \in [Nat -> {0, 1}], \A n \in Nat : <<f[n + 1], f[n]>> \in LeftOf
             PROVE  FALSE
  BY DEF IsWellFoundedOn
<1>1. <<f[0 + 1], f[0]>> = <<0, 1>> /\ <<f[1 + 1], f[1]>> = <<0, 1>>
  BY DEF LeftOf
<1>2. f[1] = 0 /\ f[1] = 1
  BY <1>1
<1> QED BY <1>2

LEMMA FirstCandidate ==
  ASSUME NEW level \in Int, NEW T, T \subseteq {n \in Node : Len(n) = level}, T # {}
  PROVE  \E n \in T : \A c \in T : ~Before(c, n)
<1>1. \A n \in T : n \in Node /\ Len(n) = level /\ level \in Nat /\ n \in [1..level -> {0, 1}]
  BY NodeIsSeq
<1>2. level \in Nat /\ T \subseteq [1..level -> {0, 1}]
  BY <1>1
<1>3. IsWellFoundedOn(LexProductOrdering(LeftOf, {0, 1}, level), [1..level -> {0, 1}])
  BY <1>2, BitsWellFounded, WFLexProductOrdering
<1>4. PICK n \in T : \A c \in T : ~(<<c, n>> \in LexProductOrdering(LeftOf, {0, 1}, level))
  BY <1>2, <1>3, WFMin
<1>5. ASSUME NEW c \in T, Before(c, n)
      PROVE  <<c, n>> \in LexProductOrdering(LeftOf, {0, 1}, level)
  <2>1. c \in [1..level -> {0, 1}] /\ n \in [1..level -> {0, 1}]
    BY <1>2
  <2>2. PICK i \in 1..level : c[i] < n[i] /\ \A j \in 1..i - 1 : c[j] = n[j]
    BY <1>5, <2>1 DEF Before
  <2>3. c[i] = 0 /\ n[i] = 1
    BY <2>1, <2>2
  <2>4. <<c[i], n[i]>> \in LeftOf
    BY <2>3 DEF LeftOf
  <2> QED BY <2>1, <2>2, <2>4 DEF LexProductOrdering
<1> QED BY <1>4, <1>5

LEMMA SearchFinds ==
  ASSUME NEW level \in Int, Candidates(mem, level) # {}
  PROVE  Found(mem, level) # {}
<1>1. Candidates(mem, level) \subseteq {n \in Node : Len(n) = level}
  BY DEF Candidates, Fits
<1>2. \E n \in Candidates(mem, level) : \A c \in Candidates(mem, level) : ~Before(c, n)
  BY <1>1, FirstCandidate
<1> QED BY <1>2 DEF Found

LEMMA FreeIsFound == OwnersInv => FreeBlockIsFound
<1> SUFFICES ASSUME OwnersInv, NEW size \in Sizes, NEW n \in Node, Len(n) = BlockLevel(size),
                    \A b \in Live(mem) : ~IsPrefix(n, b) /\ ~IsPrefix(b, n)
             PROVE  Found(mem, BlockLevel(size)) # {}
  BY DEF FreeBlockIsFound
<1>1. IsTree(mem) /\ UnownedAreFree
  BY DEF OwnersInv, TypeOK
<1>2. \A x \in DOMAIN mem : x \in Node /\ (x \notin Live(mem) => mem[x].process_pid = None)
  BY <1>1 DEF IsTree, UnownedAreFree, Live, FreeBlock
<1>3. Reached(mem, n)
  BY <1>2 DEF Reached, IsStrictPrefix
<1>4. ~HasPid(mem, n)
  BY <1>2, PrefixReflexive DEF HasPid
<1>5. ~get_used_space(mem, n)
  BY <1>2 DEF get_used_space, Spine, IsStrictPrefix
<1>6. n \in Candidates(mem, BlockLevel(size))
  BY <1>3, <1>4, <1>5 DEF Candidates, Fits
<1>7. BlockLevel(size) \in Int
  BY NodeIsSeq
<1> QED BY <1>6, <1>7, SearchFinds

(***************************************************************************)
(* Whatever is requested, an allocation is refused only if every aligned   *)
(* block of the size it needs is in use, contains one or lies in one.      *)
(***************************************************************************)
THEOREM FreeBlockCorrect == Spec => []FreeBlockIsFound
<1>1. OwnersInv => FreeBlockIsFound
  BY FreeIsFound
<1> QED BY <1>1, OwnersInit, OwnersStep, PTL DEF Spec
--------------------------------------------------------------------------------
(***************************************************************************)
(* Safety, for requests whose block sizes differ by a factor of two at     *)
(* most.  Every live block has the size its request was rounded to, so the *)
(* levels of the live blocks differ by one at most; then whatever lies     *)
(* below a block the search considers is one of its two children, which    *)
(* get_used_space does see.                                                *)
(***************************************************************************)
LevelsFit ==
  \A x \in Live(mem) :
    mem[x].allocated \in Sizes /\ Len(x) = BlockLevel(mem[x].allocated)

BookedIsNew == booked \notin resident

SafeInv == OwnersInv /\ LevelsFit /\ NoOverlap /\ HolderHasItsBlock /\ BookedIsNew

\* The fresh memory has no live block.
LEMMA SafeInit == Init => SafeInv
<1> SUFFICES ASSUME Init PROVE SafeInv
  OBVIOUS
<1>1. DOMAIN mem = {Root} /\ mem[Root] = FreeBlock /\ booked = None /\ resident = {}
  BY DEF Init
<1>2. Live(mem) = {}
  BY <1>1 DEF Live, FreeBlock
<1>3. HolderHasItsBlock
  BY <1>1 DEF HolderHasItsBlock
<1> QED BY <1>1, <1>2, <1>3, OwnersInit DEF SafeInv, LevelsFit, NoOverlap, BookedIsNew

\* A child that is allocated and has a pid is seen by get_used_space.
LEMMA ChildIsSeen ==
  ASSUME NEW m, IsTree(m), NEW n \in Node, NEW x \in DOMAIN m,
         IsStrictPrefix(n, x), Len(x) = Len(n) + 1,
         m[x].process_pid # None, m[x].allocated > 0
  PROVE  get_used_space(m, n)
<1>1. x \in Node /\ Len(n) \in Nat /\ x[Len(x)] \in {0, 1}
  <2>1. x \in Node
    BY DEF IsTree
  <2>2. Len(n) \in Nat /\ Len(x) \in 1..Len(x)
    BY <2>1, NodeIsSeq
  <2> QED BY <2>1, <2>2, NodeIsSeq
<1>2. \A i \in Len(n) + 1..Len(x) : i = Len(x)
  BY <1>1
<1>3. x \in Spine(m, n, 0) \cup Spine(m, n, 1)
  BY <1>1, <1>2 DEF Spine
<1> QED BY <1>3 DEF get_used_space

\* With narrow sizes, a live block below a candidate would be a child of it,
\* and those get_used_space sees: what the search returns overlaps no live
\* block.
LEMMA FoundIsClear ==
  ASSUME NarrowSizes, SafeInv, booked = None, NEW size \in Sizes,
         NEW n \in Node, Len(n) = BlockLevel(size),
         Reached(mem, n), ~HasPid(mem, n), ~get_used_space(mem, n),
         NEW x \in Live(mem)
  PROVE  ~IsPrefix(n, x) /\ ~IsPrefix(x, n)
<1>1. IsTree(mem) /\ x \in DOMAIN mem /\ x \in Node
  BY DEF SafeInv, OwnersInv, TypeOK, IsTree, Live
<1>2. mem[x].process_pid # None
  <2>1. mem[x].id_from_file \in Proc
    BY OwnerOfLive DEF SafeInv
  <2> QED BY <2>1, OwnerOfLive, NoneAssumption DEF SafeInv
<1>3. ~IsPrefix(x, n)
  BY <1>1, <1>2 DEF Reached, HasPid, IsStrictPrefix
<1>4. ASSUME IsPrefix(n, x)
      PROVE  FALSE
  <2>1. IsStrictPrefix(n, x)
    BY <1>1, <1>3, <1>4, PrefixReflexive DEF IsStrictPrefix
  <2>2. Len(n) < Len(x) /\ Len(n) \in Nat /\ Len(x) \in Nat
    BY <1>1, <2>1, StrictPrefixShorter, NodeIsSeq
  <2>3. mem[x].allocated \in Sizes /\ Len(x) = BlockLevel(mem[x].allocated)
    BY DEF SafeInv, LevelsFit
  <2>4. Len(x) <= Len(n) + 1
    BY <2>3 DEF NarrowSizes
  <2>5. Len(x) = Len(n) + 1
    BY <2>2, <2>4
  <2>6. mem[x].allocated > 0
    BY <2>3 DEF NarrowSizes
  <2> QED BY <1>1, <1>2, <2>1, <2>5, <2>6, ChildIsSeen
<1> QED BY <1>3, <1>4

\* Booking a block that overlaps no live block keeps the live blocks apart.
LEMMA SafeAllocate ==
  ASSUME NarrowSizes, SafeInv, NEW p \in Proc, NEW size \in Sizes, AllocateMemory(p, size)
  PROVE  SafeInv'
<1>1. PICK n \in DOMAIN mem' :
        /\ IsTree(mem') /\ Len(n) = BlockLevel(size)
        /\ Reached(mem, n) /\ ~HasPid(mem, n) /\ ~get_used_space(mem, n)
        /\ mem'[n].id_from_file = p
        /\ mem'[n].allocated = size
        /\ DOMAIN mem \subseteq DOMAIN mem'
        /\ \A x \in DOMAIN mem : x # n => mem'[x] = mem[x]
        /\ \A x \in DOMAIN mem' \ DOMAIN mem : x # n => mem'[x] = FreeBlock
  BY AllocateStep DEF SafeInv, OwnersInv
<1>2. booked = None /\ p \notin resident /\ booked' = p /\ resident' = resident
  BY DEF AllocateMemory
<1>3. OwnersInv'
  BY OwnersAllocate DEF SafeInv
<1>4. n \in Node
  BY <1>1 DEF IsTree
<1>5. ASSUME NEW x \in Live(mem'), x # n
      PROVE  /\ x \in Live(mem) /\ mem'[x] = mem[x]
             /\ ~IsPrefix(n, x) /\ ~IsPrefix(x, n)
  <2>1. x \in DOMAIN mem /\ mem'[x] = mem[x] /\ x \in Live(mem)
    BY <1>1, <1>5 DEF Live, FreeBlock
  <2> QED BY <1>1, <1>2, <1>4, <2>1, FoundIsClear
<1>6. ASSUME NEW x \in Live(mem)
      PROVE  x # n /\ x \in DOMAIN mem'
  <2>1. ~IsPrefix(n, x)
    BY <1>1, <1>2, <1>4, FoundIsClear
  <2> QED BY <1>1, <1>4, <2>1, PrefixReflexive DEF Live
<1>7. LevelsFit'
  BY <1>1, <1>5 DEF LevelsFit, SafeInv
<1>8. NoOverlap'
  BY <1>5 DEF NoOverlap, SafeInv
<1>9. HolderHasItsBlock'
  <2>1. BlocksOfId(mem', p) = {n}
    <3>1. ASSUME NEW x \in DOMAIN mem', x # n, mem'[x].id_from_file = p
          PROVE  FALSE
      <4>1. x \in Live(mem) /\ mem[x].id_from_file = p
        BY <1>5, <3>1, NoneAssumption DEF Live
      <4> QED BY <1>2, <4>1, OwnerOfLive, NoneAssumption DEF SafeInv
    <3> QED BY <1>1, <3>1 DEF BlocksOfId
  <2>2. mem'[n].allocated <= BlockSize(n)
    <3>1. Len(n) >= 0
      BY <1>4, NodeIsSeq
    <3> QED BY <1>1, <3>1, LevelType DEF BlockSize
  <2>3. ASSUME NEW q \in resident
        PROVE  \E x \in DOMAIN mem' :
                 BlocksOfId(mem', q) = {x} /\ mem'[x].allocated <= BlockSize(x)
    <3>1. PICK x \in DOMAIN mem :
            BlocksOfId(mem, q) = {x} /\ mem[x].allocated <= BlockSize(x)
      BY DEF HolderHasItsBlock, SafeInv
    <3>2. q \in Proc /\ q # p /\ q # None
      BY <1>2, NoneAssumption DEF SafeInv, OwnersInv, TypeOK
    <3>3. x \in Live(mem) /\ mem[x].id_from_file = q
      BY <3>1, <3>2 DEF Live, BlocksOfId
    <3>4. x # n /\ x \in DOMAIN mem' /\ mem'[x] = mem[x]
      BY <1>1, <1>6, <3>3
    <3>5. ASSUME NEW y \in BlocksOfId(mem', q)
          PROVE  y = x
      <4>1. y \in Live(mem') /\ y # n
        BY <1>1, <3>2 DEF BlocksOfId, Live
      <4>2. y \in DOMAIN mem /\ mem[y].id_from_file = q
        BY <1>5, <4>1 DEF BlocksOfId, Live
      <4> QED BY <3>1, <4>2 DEF BlocksOfId
    <3>6. BlocksOfId(mem', q) = {x}
      BY <3>3, <3>4, <3>5 DEF BlocksOfId
    <3> QED BY <3>1, <3>4, <3>6
  <2>4. resident' \cup ({booked'} \ {None}) = resident \cup {p}
    BY <1>2, NoneAssumption
  <2> QED BY <1>1, <2>1, <2>2, <2>3, <2>4 DEF HolderHasItsBlock
<1> QED BY <1>2, <1>3, <1>7, <1>8, <1>9 DEF SafeInv, BookedIsNew

\* A step that leaves every live block as it is, and makes no other block live.
LEMMA SafeWhenLiveUnchanged ==
  ASSUME SafeInv, OwnersInv',
         Live(mem') = Live(mem),
         \A x \in Live(mem) : /\ mem'[x].id_from_file = mem[x].id_from_file
                              /\ mem'[x].allocated = mem[x].allocated,
         resident' \cup ({booked'} \ {None}) \subseteq resident \cup ({booked} \ {None}),
         BookedIsNew'
  PROVE  SafeInv'
<1>1. LevelsFit' /\ NoOverlap'
  BY DEF SafeInv, LevelsFit, NoOverlap
<1>2. ASSUME NEW q \in resident' \cup ({booked'} \ {None})
      PROVE  \E x \in DOMAIN mem' :
               BlocksOfId(mem', q) = {x} /\ mem'[x].allocated <= BlockSize(x)
  <2>1. PICK x \in DOMAIN mem : BlocksOfId(mem, q) = {x} /\ mem[x].allocated <= BlockSize(x)
    BY DEF SafeInv, HolderHasItsBlock
  <2>2. q # None
    BY NoneAssumption DEF SafeInv, OwnersInv, TypeOK
  <2>3. BlocksOfId(mem, q) \subseteq Live(mem) /\ BlocksOfId(mem', q) \subseteq Live(mem')
    BY <2>2 DEF BlocksOfId, Live
  <2>4. Live(mem) \subseteq DOMAIN mem /\ Live(mem') \subseteq DOMAIN mem'
    BY DEF Live
  <2>5. BlocksOfId(mem', q) = BlocksOfId(mem, q)
    BY <2>3, <2>4 DEF BlocksOfId
  <2>6. x \in Live(mem)
    BY <2>1, <2>3
  <2> QED BY <2>1, <2>4, <2>5, <2>6
<1>3. HolderHasItsBlock'
  BY <1>2 DEF HolderHasItsBlock
<1> QED BY <1>1, <1>3 DEF SafeInv

\* A failed search makes no block live.
LEMMA SafeAllocateFails ==
  ASSUME SafeInv, NEW p \in Proc, NEW size \in Sizes, AllocateFails(p, size)
  PROVE  SafeInv'
<1>1. /\ DOMAIN mem \subseteq DOMAIN mem'
      /\ \A x \in DOMAIN mem : mem'[x] = mem[x]
      /\ \A x \in DOMAIN mem' \ DOMAIN mem : mem'[x] = FreeBlock
  BY SearchKeepsTree, LevelType DEF AllocateFails, SafeInv, OwnersInv, TypeOK
<1>2. Live(mem') = Live(mem) /\ Live(mem) \subseteq DOMAIN mem
  BY <1>1 DEF Live, FreeBlock
<1>3. booked' = booked /\ resident' = resident
  BY DEF AllocateFails
<1>4. OwnersInv' /\ BookedIsNew'
  BY <1>3, OwnersAllocateFails DEF SafeInv, BookedIsNew
<1> QED BY <1>1, <1>2, <1>3, <1>4, SafeWhenLiveUnchanged

\* update_id makes no block live and moves none.
LEMMA SafeUpdateId ==
  ASSUME SafeInv, NEW p \in Proc, UpdateId(p)
  PROVE  SafeInv'
<1>1. /\ DOMAIN mem' = DOMAIN mem
      /\ \A x \in DOMAIN mem : /\ mem'[x].id_from_file = mem[x].id_from_file
                               /\ mem'[x].allocated = mem[x].allocated
  BY UpdateIdStep DEF SafeInv, OwnersInv
<1>2. Live(mem') = Live(mem) /\ Live(mem) \subseteq DOMAIN mem
  BY <1>1 DEF Live
<1>3. booked = p /\ booked' = None /\ resident' = resident \cup {p} /\ p # None
  BY NoneAssumption DEF UpdateId
<1>4. OwnersInv' /\ BookedIsNew'
  BY <1>3, OwnersUpdateId, NoneAssumption DEF SafeInv, OwnersInv, TypeOK, BookedIsNew
<1> QED BY <1>1, <1>2, <1>3, <1>4, SafeWhenLiveUnchanged

(***************************************************************************)
(* merge_buddy_blocks never looks at the block it climbs from, only at its *)
(* buddy.  It unlinks no live block all the same: between a live block and *)
(* the freed one, neither of which contains the other, there is a pair of  *)
(* buddies where their paths part, and there the merge stops, because the  *)
(* buddy is the live block (allocated # 0) or has it below (children).     *)
(***************************************************************************)
LEMMA MergeSparesLive ==
  ASSUME NEW m, IsTree(m), NEW b \in DOMAIN m, NEW x \in DOMAIN m,
         m[x].allocated # 0, ~IsPrefix(b, x), ~IsPrefix(x, b)
  PROVE  x \in DOMAIN merge_buddy_blocks(m, b)
<1>1. b \in Node /\ x \in Node
  BY DEF IsTree
<1>2. ASSUME NEW a \in MergedInto(m, b), IsStrictPrefix(a, x)
      PROVE  FALSE
  <2>1. a \in Node /\ IsPrefix(a, b) /\ IsPrefix(a, x)
    BY <1>2 DEF MergedInto, IsTree, IsStrictPrefix
  <2>2. PICK n \in Node : /\ IsStrictPrefix(a, n) /\ IsPrefix(n, b)
                          /\ Buddy(n) \in Node /\ IsPrefix(Buddy(n), x)
    BY <1>1, <2>1, BuddiesPart
  <2>3. n \in DOMAIN m
    BY <2>2 DEF IsTree
  <2>4. Mergeable(m, n)
    BY <2>2, <2>3 DEF MergedInto
  <2>5. CASE Buddy(n) = x
    BY <2>4, <2>5 DEF Mergeable
  <2>6. CASE Buddy(n) # x
    BY <2>2, <2>4, <2>6 DEF Mergeable, IsStrictPrefix
  <2> QED BY <2>5, <2>6
<1> QED BY <1>2 DEF merge_buddy_blocks, Restrict

\* Freeing and merging unlink no live block: see MergeSparesLive.
LEMMA SafeDeallocate ==
  ASSUME NarrowSizes, SafeInv, NEW p \in Proc, FreesBlock(p)
  PROVE  SafeInv'
<1>1. PICK n \in DOMAIN mem :
        /\ mem[n].process_pid = p
        /\ mem' = merge_buddy_blocks(Freed(n), n)
        /\ DOMAIN mem' \subseteq DOMAIN mem
        /\ \A x \in DOMAIN mem' : mem'[x] = IF x = n THEN FreeBlock ELSE mem[x]
  BY DeallocateStep DEF SafeInv, OwnersInv
<1>2. booked' = booked /\ resident' = resident \ {p} /\ p # None
  BY NoneAssumption DEF FreesBlock, DeallocateMemory
<1>3. OwnersInv'
  BY OwnersDeallocate DEF SafeInv
<1>4. n \in Live(mem) /\ mem[n].id_from_file = p
  <2>1. n \in Live(mem)
    BY <1>1, <1>2 DEF UnownedAreFree, SafeInv, OwnersInv, FreeBlock
  <2> QED BY <1>1, <1>2, <2>1, OwnerOfLive DEF SafeInv
<1>5. ASSUME NEW x \in Live(mem), x # n
      PROVE  x \in DOMAIN mem' /\ mem'[x] = mem[x]
  <2>1. /\ IsTree(Freed(n)) /\ DOMAIN Freed(n) = DOMAIN mem
        /\ x \in DOMAIN mem /\ Freed(n)[x] = mem[x]
    BY <1>5, FreedStep DEF SafeInv, OwnersInv, Live
  <2>2. ~IsPrefix(n, x) /\ ~IsPrefix(x, n)
    BY <1>4, <1>5 DEF NoOverlap, SafeInv
  <2>3. mem[x].allocated # 0
    <3>1. mem[x].allocated \in Sizes
      BY DEF LevelsFit, SafeInv
    <3> QED BY <3>1 DEF NarrowSizes
  <2>4. x \in DOMAIN mem'
    BY <1>1, <2>1, <2>2, <2>3, MergeSparesLive
  <2> QED BY <1>1, <1>5, <2>4
<1>6. ASSUME NEW x \in Live(mem')
      PROVE  x # n /\ x \in Live(mem) /\ mem'[x] = mem[x]
  BY <1>1 DEF Live, FreeBlock
<1>7. LevelsFit' /\ NoOverlap'
  BY <1>6 DEF LevelsFit, NoOverlap, SafeInv
<1>8. ASSUME NEW q \in resident' \cup ({booked'} \ {None})
      PROVE  \E x \in DOMAIN mem' :
               BlocksOfId(mem', q) = {x} /\ mem'[x].allocated <= BlockSize(x)
  <2>1. PICK x \in DOMAIN mem : BlocksOfId(mem, q) = {x} /\ mem[x].allocated <= BlockSize(x)
    BY <1>2 DEF SafeInv, HolderHasItsBlock
  <2>2. q # None
    BY NoneAssumption, <1>2 DEF SafeInv, OwnersInv, TypeOK
  <2>3. q # p
    <3>1. p \in resident /\ booked # p
      BY DEF FreesBlock, DeallocateMemory, SafeInv, BookedIsNew
    <3> QED BY <1>2, <3>1
  <2>4. x \in Live(mem) /\ mem[x].id_from_file = q
    BY <2>1, <2>2 DEF Live, BlocksOfId
  <2>5. x # n /\ x \in DOMAIN mem' /\ mem'[x] = mem[x]
    BY <1>4, <1>5, <2>3, <2>4
  <2>6. \A y \in BlocksOfId(mem', q) : y = x
    <3>1. ASSUME NEW y \in BlocksOfId(mem', q)
          PROVE  y \in BlocksOfId(mem, q)
      <4>1. y \in Live(mem')
        BY <2>2 DEF BlocksOfId, Live
      <4> QED BY <1>1, <1>6, <4>1 DEF BlocksOfId
    <3> QED BY <2>1, <3>1
  <2> QED BY <2>1, <2>4, <2>5, <2>6 DEF BlocksOfId
<1>9. HolderHasItsBlock'
  BY <1>8 DEF HolderHasItsBlock
<1> QED BY <1>2, <1>3, <1>7, <1>9 DEF SafeInv, BookedIsNew

\* With narrow sizes every step preserves the safety invariant.
LEMMA SafeStep ==
  ASSUME NarrowSizes, SafeInv, [Next]_vars
  PROVE  SafeInv'
<1>1. OwnersInv'
  BY OwnersStep DEF SafeInv
<1>2. ASSUME mem' = mem, booked' = booked, resident' \subseteq resident
      PROVE  SafeInv'
  <2>1. BookedIsNew'
    BY <1>2 DEF SafeInv, BookedIsNew
  <2> QED BY <1>1, <1>2, <2>1, SafeWhenLiveUnchanged
<1>3. ASSUME NEW p \in Proc, FreesNothing(p)
      PROVE  SafeInv'
  BY <1>2, <1>3 DEF FreesNothing, DeallocateMemory
<1>4. CASE UNCHANGED vars
  BY <1>2, <1>4 DEF vars
<1> QED BY <1>3, <1>4, SafeAllocate, SafeAllocateFails, SafeUpdateId, SafeDeallocate
        DEF Next, FreesBlock, FreesNothing

(***************************************************************************)
(* No byte of the memory belongs to two processes.                         *)
(***************************************************************************)
THEOREM NoOverlapCorrect == ASSUME NarrowSizes PROVE Spec => []NoOverlap
<1>1. SafeInv => NoOverlap
  BY DEF SafeInv
<1>2. SafeInv /\ [Next]_vars => SafeInv'
  BY SafeStep
<1> QED BY <1>1, <1>2, SafeInit, PTL DEF Spec

(***************************************************************************)
(* Every process keeps the block it was given until the handler reaps it.  *)
(***************************************************************************)
THEOREM HolderCorrect == ASSUME NarrowSizes PROVE Spec => []HolderHasItsBlock
<1>1. SafeInv => HolderHasItsBlock
  BY DEF SafeInv
<1>2. SafeInv /\ [Next]_vars => SafeInv'
  BY SafeStep
<1> QED BY <1>1, <1>2, SafeInit, PTL DEF Spec
================================================================================
