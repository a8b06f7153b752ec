------------------------------ MODULE BuddyMemory ------------------------------
(***************************************************************************)
(* The buddy allocator of memory_manager.c, as process_generator.c drives  *)
(* it.                                                                     *)
(*                                                                         *)
(* A block of the tree is named by the path that leads to it from the      *)
(* root: a sequence of bits, 0 for left_child and 1 for right_child.  The  *)
(* parent of a block is the front of its path, its descendants are the     *)
(* paths it is a prefix of, and a block of path n has 2^(Depth - Len(n))   *)
(* bytes.  The tree is one function: its domain is the set of blocks that  *)
(* are linked from the root, so creating a child adds a path to the domain *)
(* and free() with the link reset removes a path and all that hung below.  *)
(*                                                                         *)
(* Three callers interleave: the main loop books a block for a process     *)
(* (allocate_memory), forks it, and records its pid in the block           *)
(* (update_id); the SIGCHLD handler may free the block of any process that *)
(* has exited between any two of these steps (deallocate_memory).          *)
(***************************************************************************)
EXTENDS Integers, SequencesExt

CONSTANTS
  Depth,   \* the whole memory has 2^Depth bytes (10 in the program, which has 1024)
  Proc,    \* processes; a process stands for its id_from_file and for its pid
  Sizes,   \* the memory_size values that may be requested, in bytes
  None     \* the -1 of process_pid and id_from_file

ASSUME DepthAssumption == Depth \in Nat
ASSUME SizesAssumption == Sizes \subseteq Nat
ASSUME NoneAssumption == None \notin Proc

VARIABLES
  mem,       \* Memory_Segment: linked block -> its fields
  booked,    \* the process between allocate_memory and update_id, or None
  resident   \* the forked processes that the handler has not reaped yet

vars == <<mem, booked, resident>>

Node == SeqOf({0, 1}, Depth)
Root == << >>

Block == [process_pid : Proc \cup {None},
          id_from_file : Proc \cup {None},
          allocated : Nat]

\* A fresh block, and what deallocate_memory leaves of a freed one.
FreeBlock == [process_pid |-> None, id_from_file |-> None, allocated |-> 0]

(***************************************************************************)
(* The address range of a block, as get_block_address computes it: going   *)
(* down from the root, every step to a right child skips the left half.    *)
(***************************************************************************)
BlockSize(n) == 2 ^ (Depth - Len(n))
BlockStart(n) == MapThenSumSet(LAMBDA i : n[i] * 2 ^ (Depth - i), DOMAIN n)
BlockRange(n) == BlockStart(n) .. BlockStart(n) + BlockSize(n) - 1

(***************************************************************************)
(* highestPowerOf2 doubles 1 until it reaches x: Order is the exponent.    *)
(* The search never finds a request that is larger than the whole memory,  *)
(* so such a request gets a level that no block has.                       *)
(***************************************************************************)
Order(x) == CHOOSE k \in 0..Depth : x <= 2 ^ k /\ \A j \in 0..k - 1 : ~(x <= 2 ^ j)
BlockLevel(size) == IF size <= 2 ^ Depth THEN Depth - Order(size) ELSE -1
--------------------------------------------------------------------------------
(***************************************************************************)
(* traverse_MemorySegment: a depth-first search, left before right, for a  *)
(* block of the level whose size is the one needed.  It does not enter a   *)
(* block that has a process_pid, and takes a block of the right size when  *)
(* get_used_space finds nothing below it.  That function looks only at the *)
(* left-most path of the left child and the right-most path of the right   *)
(* child, and counts the blocks there that have a process_pid.             *)
(***************************************************************************)
Spine(m, n, bit) ==
  {x \in DOMAIN m : IsStrictPrefix(n, x) /\ \A i \in Len(n) + 1..Len(x) : x[i] = bit}

OneSpineUsed(m, n) ==
  \E x \in Spine(m, n, 0) : m[x].process_pid # None /\ m[x].allocated > 0

get_used_space(m, n) ==
  \E x \in Spine(m, n, 0) \cup Spine(m, n, 1) :
    m[x].process_pid # None /\ m[x].allocated > 0

HasPid(m, n) == n \in DOMAIN m /\ m[n].process_pid # None

Reached(m, n) == \A a \in DOMAIN m : IsStrictPrefix(a, n) => m[a].process_pid = None

LeafFits(m, n, level) ==
  /\ Len(n) = level
  /\ ~HasPid(m, n)
  /\ \A x \in DOMAIN m : ~IsStrictPrefix(n, x)

Fits(m, n, level) ==
  /\ Len(n) = level
  /\ ~HasPid(m, n)
  /\ ~get_used_space(m, n)

Candidates(m, level) == {n \in Node : Reached(m, n) /\ Fits(m, n, level)}

\* The search visits a before b, and a is not an ancestor of b.
Before(a, b) ==
  \E i \in DOMAIN a \cap DOMAIN b : a[i] < b[i] /\ \A j \in 1..i - 1 : a[j] = b[j]

\* The block the search returns: at most one, none when it returns NULL.
Found(m, level) ==
  {n \in Candidates(m, level) : \A c \in Candidates(m, level) : ~Before(c, n)}

(***************************************************************************)
(* The search creates the missing children of every block it descends      *)
(* from, whether or not it finds a block in the end: those of the larger   *)
(* blocks, and those of a block of the right size that it does not take.   *)
(***************************************************************************)
Visited(m, level) ==
  {n \in Node \ {Root} :
    /\ Reached(m, n)
    /\ Len(n) <= level \/ (Len(n) = level + 1 /\ ~Fits(m, Front(n), level))
    /\ \A f \in Found(m, level) : IsPrefix(n, f) \/ Before(n, f)}

traverse_MemorySegment(m, level) ==
  [n \in DOMAIN m \cup Visited(m, level) |->
     IF n \in DOMAIN m THEN m[n] ELSE FreeBlock]
--------------------------------------------------------------------------------
(***************************************************************************)
(* merge_buddy_blocks climbs from the freed block as long as the buddy     *)
(* exists, has nothing allocated and has no children; each step frees both *)
(* children of the parent.  It never looks at the block it climbs from.    *)
(***************************************************************************)
Buddy(n) == [n EXCEPT ![Len(n)] = 1 - @]

UncheckedMergeable(m, n) ==
  /\ Buddy(n) \in DOMAIN m
  /\ \A x \in DOMAIN m : ~IsStrictPrefix(Buddy(n), x)

Mergeable(m, n) ==
  /\ Buddy(n) \in DOMAIN m
  /\ m[Buddy(n)].allocated = 0
  /\ \A x \in DOMAIN m : ~IsStrictPrefix(Buddy(n), x)

\* The blocks whose children the merge that starts at b unlinks.
MergedInto(m, b) ==
  {a \in DOMAIN m :
    /\ IsStrictPrefix(a, b)
    /\ \A n \in DOMAIN m : IsStrictPrefix(a, n) /\ IsPrefix(n, b) => Mergeable(m, n)}

MergeFreesParent(m, b) ==
  Restrict(m, {x \in DOMAIN m : \A a \in MergedInto(m, b) : ~IsPrefix(a, x)})

merge_buddy_blocks(m, b) ==
  Restrict(m, {x \in DOMAIN m : \A a \in MergedInto(m, b) : ~IsStrictPrefix(a, x)})
--------------------------------------------------------------------------------
\* get_Process_Memory_Segment, by id_from_file and by pid.
BlocksOfId(m, p) == {n \in DOMAIN m : m[n].id_from_file = p}
BlocksOfPid(m, p) == {n \in DOMAIN m : m[n].process_pid = p}

\* initialize_memory_Segment
Init ==
  /\ mem = [n \in {Root} |-> FreeBlock]
  /\ booked = None
  /\ resident = {}

\* allocate_memory finds a block and books it; process_pid stays -1 for now.
AllocateMemory(p, size) ==
  /\ booked = None
  /\ p \notin resident
  /\ \E n \in Found(mem, BlockLevel(size)) :
       mem' = [traverse_MemorySegment(mem, BlockLevel(size)) EXCEPT
                 ![n].id_from_file = p, ![n].allocated = size]
  /\ booked' = p
  /\ UNCHANGED resident

\* allocate_memory finds none; the blocks the search created stay.
AllocateFails(p, size) ==
  /\ booked = None
  /\ p \notin resident
  /\ Found(mem, BlockLevel(size)) = {}
  /\ mem' = traverse_MemorySegment(mem, BlockLevel(size))
  /\ UNCHANGED <<booked, resident>>

\* createProcess has forked the process; update_id records its pid, if the
\* block is still there.
UpdateId(p) ==
  /\ booked = p
  /\ mem' = [n \in DOMAIN mem |->
               IF n \in BlocksOfId(mem, p) THEN [mem[n] EXCEPT !.process_pid = p]
                                           ELSE mem[n]]
  /\ booked' = None
  /\ resident' = resident \cup {p}

\* A freed block whose id_from_file is not reset.
KeepsId(b) == [process_pid |-> None, id_from_file |-> b.id_from_file, allocated |-> 0]

Released(b) == FreeBlock

(***************************************************************************)
(* The SIGCHLD handler: deallocate_memory for a process that has exited.   *)
(* If no block has that pid any more it returns false.                     *)
(***************************************************************************)
DeallocateMemory(p) ==
  /\ p \in resident
  /\ IF BlocksOfPid(mem, p) = {} THEN mem' = mem
     ELSE \E n \in BlocksOfPid(mem, p) :
            mem' = merge_buddy_blocks([mem EXCEPT ![n] = Released(@)], n)
  /\ resident' = resident \ {p}
  /\ UNCHANGED booked

Next ==
  \E p \in Proc :
    \/ \E size \in Sizes : AllocateMemory(p, size) \/ AllocateFails(p, size)
    \/ UpdateId(p)
    \/ DeallocateMemory(p)

Spec == Init /\ [][Next]_vars
--------------------------------------------------------------------------------
\* The blocks that some process has been given.
Live(m) == {n \in DOMAIN m : m[n].id_from_file # None}

\* The shape of a tree: the root is there, and every linked block hangs from a
\* linked block.
IsTree(m) ==
  /\ DOMAIN m \subseteq Node
  /\ m \in [DOMAIN m -> Block]
  /\ Root \in DOMAIN m
  /\ \A n \in DOMAIN m : \A a \in Node : IsPrefix(a, n) => a \in DOMAIN m

\* Types, and the shape of the tree through splitting and merging.
TypeOK ==
  /\ IsTree(mem)
  /\ booked \in Proc \cup {None}
  /\ resident \subseteq Proc

(***************************************************************************)
(* No byte is given to two processes: no allocated block lies inside       *)
(* another one.  traverse_MemorySegment may return a block that has        *)
(* children, so this rests on get_used_space seeing what is below.         *)
(***************************************************************************)
NoOverlap == \A a, b \in Live(mem) : a # b => ~IsPrefix(a, b)

(***************************************************************************)
(* Every process that has been given memory and has not been reaped still  *)
(* has exactly one block in the tree, and the block is large enough:       *)
(* merging the buddies of one process never unlinks the block of another.  *)
(***************************************************************************)
HolderHasItsBlock ==
  \A p \in resident \cup ({booked} \ {None}) :
    \E n \in DOMAIN mem : BlocksOfId(mem, p) = {n} /\ mem[n].allocated <= BlockSize(n)

(***************************************************************************)
(* No block is lost to a process that is gone: every allocated block       *)
(* belongs to a process that still has to be reaped, and has its pid       *)
(* unless update_id is still to come.                                      *)
(***************************************************************************)
BlocksHaveOwners ==
  \A n \in Live(mem) :
    LET p == mem[n].id_from_file IN
      \/ p \in resident /\ mem[n].process_pid = p
      \/ p = booked /\ mem[n].process_pid = None

(***************************************************************************)
(* An allocation is never refused while an aligned block of the size it    *)
(* needs is free, although merge_buddy_blocks leaves chains of left        *)
(* children behind when a right child was never created.                   *)
(***************************************************************************)
FreeBlockIsFound ==
  \A size \in Sizes :
    (\E n \in Node :
       /\ Len(n) = BlockLevel(size)
       /\ \A b \in Live(mem) : ~IsPrefix(n, b) /\ ~IsPrefix(b, n))
      => Found(mem, BlockLevel(size)) # {}

(***************************************************************************)
(* The requests for which the allocator is safe: none is empty, and the    *)
(* block sizes they round to are equal or one the double of the other.     *)
(***************************************************************************)
NarrowSizes ==
  /\ \A s \in Sizes : s > 0
  /\ \A s, t \in Sizes : BlockLevel(s) <= BlockLevel(t) + 1
================================================================================
