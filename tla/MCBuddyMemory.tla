----------------------------- MODULE MCBuddyMemory -----------------------------
(***************************************************************************)
(* Small instances of BuddyMemory, and the search of the C code as the     *)
(* recursion it is, to compare the set definitions of BuddyMemory with.    *)
(***************************************************************************)
EXTENDS BuddyMemory

CONSTANTS p1, p2, p3, p4, p5

Symmetry == Permutations(Proc)

\* The addresses agree with the tree: two blocks share a byte exactly when
\* one is an ancestor of the other (or they are the same).
ASSUME AddressesAgree ==
  \A a, b \in Node :
    (BlockRange(a) \cap BlockRange(b) # {}) <=> (IsPrefix(a, b) \/ IsPrefix(b, a))

FieldOf(m, n) == IF n \in DOMAIN m THEN m[n] ELSE FreeBlock
WithBlock(m, n) == [x \in DOMAIN m \cup {n} |-> FieldOf(m, x)]

RECURSIVE SpineSum(_, _, _)
SpineSum(m, n, bit) ==
  IF n \notin DOMAIN m THEN 0
  ELSE (IF m[n].process_pid # None THEN m[n].allocated ELSE 0)
         + SpineSum(m, Append(n, bit), bit)

\* traverse_MemorySegment line by line: the tree it leaves and the block it
\* returns (as a set, empty for NULL).
RECURSIVE Search(_, _, _)
Search(m, n, level) ==
  IF Len(n) > level \/ m[n].process_pid # None
  THEN [tree |-> m, block |-> {}]
  ELSE IF Len(n) = level
          /\ SpineSum(m, Append(n, 0), 0) + SpineSum(m, Append(n, 1), 1) <= 0
  THEN [tree |-> m, block |-> {n}]
  ELSE LET left == Search(WithBlock(m, Append(n, 0)), Append(n, 0), level) IN
       IF left.block # {} THEN left
       ELSE Search(WithBlock(left.tree, Append(n, 1)), Append(n, 1), level)

(***************************************************************************)
(* In every reachable tree the sets Found and Visited say what the         *)
(* recursive search of memory_manager.c returns and creates, for blocks    *)
(* of every level, and for the level -1 of a request that is too large.    *)
(***************************************************************************)
SearchAgrees ==
  \A level \in -1..Depth :
    LET code == Search(mem, Root, level)
    IN /\ code.block = Found(mem, level)
       /\ code.tree = traverse_MemorySegment(mem, level)
================================================================================
